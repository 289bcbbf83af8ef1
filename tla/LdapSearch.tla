----------------------------- MODULE LdapSearch -----------------------------
(***************************************************************************)
(* SearchWithPaging and Search of ldap/search.go, and the server that      *)
(* answers.  The caller keeps its SearchRequest, of which Controls are     *)
(* modelled, and may use it again.                                         *)
(*                                                                         *)
(* Directory is what the search finds, in the order the server gives it:   *)
(* entries and referrals.  The server keeps to RFC 2696: a page ends with  *)
(* a cookie for the place it stopped at, or with none when nothing is      *)
(* left; it may send fewer than asked for, or ignore the paging control.   *)
(* The cookie of place n is n + 1.  Packets of other kinds, which Search   *)
(* ignores, are left out; so are attributes and the other controls of a    *)
(* reply.                                                                  *)
(***************************************************************************)
EXTENDS LdapControl

CONSTANTS Entries, Directory,
          PagingSizes,      \* the page sizes asked for
          MaxSearches       \* bound on the calls of SearchWithPaging

ASSUME PagingAssumption == /\ Directory \in Seq(Entries)
                           /\ PagingSizes \subseteq Nat
                           /\ MaxSearches \in Nat

VARIABLES Controls,  \* searchRequest.Controls
          call,      \* the call in progress, or the last one
          srv        \* the place the server has come to in the page it sends

searchVars == <<Controls, call, srv>>

\* A control of the paging type that is not a *ControlPaging.
NotPaging == ControlString(Paging, FALSE, "text")
IsPaging(c) == c.value = EmptyText
Place(cookie) == IF cookie = 0 THEN 0 ELSE cookie - 1

SearchInit ==
  /\ Controls \in {<<>>, <<NotPaging>>, <<ControlManageDsaIT(TRUE)>>}
                    \cup {<<ControlPaging(n, 0)>> : n \in PagingSizes}
  /\ call = [pc |-> "idle", err |-> TRUE, ctl |-> 0, from |-> 0, result |-> <<>>, page |-> <<>>,
             before |-> <<>>, count |-> 0]
  /\ srv = 0

pagingControl == Controls[call.ctl]

Started(i, cs) ==
  call' = [call EXCEPT !.pc = "search", !.ctl = i, !.from = Place(cs[i].cookie), !.result = <<>>,
                       !.page = <<>>, !.before = Controls, !.count = @ + 1]

Return(result, err) ==
  call' = [call EXCEPT !.pc = "idle", !.err = err, !.result = result, !.page = <<>>]

\* FindControl returns the first control of the type.
IsFound(i) == Controls[i].type = Paging /\ \A j \in 1..(i - 1) : Controls[j].type # Paging

\* The beginning of SearchWithPaging, up to the loop.
SearchWithPaging(size) ==
  /\ call.pc = "idle" /\ call.count < MaxSearches
  /\ \/ /\ \A i \in 1..Len(Controls) : ~IsFound(i)
        /\ Controls' = Append(Controls, ControlPaging(size, 0))
        /\ Started(Len(Controls) + 1, Controls')
     \/ \E i \in 1..Len(Controls) :
          /\ IsFound(i) /\ IsPaging(Controls[i]) /\ Controls[i].size = size
          /\ Started(i, Controls) /\ UNCHANGED Controls
     \/ \E i \in 1..Len(Controls) :
          /\ IsFound(i) /\ ~(IsPaging(Controls[i]) /\ Controls[i].size = size)
          /\ call' = [call EXCEPT !.err = TRUE, !.result = <<>>, !.before = Controls, !.count = @ + 1]
          /\ UNCHANGED Controls
  /\ UNCHANGED srv

\* Search sends the request with the control as it now is; sendMessage may fail.
Search ==
  /\ call.pc = "search" /\ UNCHANGED Controls
  /\ \/ call' = [call EXCEPT !.pc = "wait", !.page = <<>>] /\ srv' = Place(pagingControl.cookie)
     \/ Return(call.result, TRUE) /\ UNCHANGED srv

\* case 4 and case 19: the server has room in the page for another one.
ReceiveEntry ==
  /\ call.pc = "wait" /\ srv < Len(Directory)
  /\ pagingControl.size = 0 \/ Len(call.page) < pagingControl.size
  /\ call' = [call EXCEPT !.page = Append(@, Directory[srv + 1])]
  /\ srv' = srv + 1 /\ UNCHANGED Controls

\* case 5, success: the page is added to the result.  The place at the end may have
\* a cookie like any other.
MorePages ==
  /\ call.pc = "wait"
  /\ Controls' = [Controls EXCEPT ![call.ctl].cookie = srv + 1]
  /\ call' = [call EXCEPT !.pc = "search", !.result = @ \o call.page, !.page = <<>>]
  /\ UNCHANGED srv

\* A plausible slip: the page that comes with an empty cookie is not added.
LastPageDropped ==
  /\ call.pc = "wait" /\ srv = Len(Directory)
  /\ Return(call.result, FALSE)
  /\ UNCHANGED <<Controls, srv>>

\* No paging control in the reply, or an empty cookie.  pagingControl is nil from
\* here on, so the code that would abandon the paging never runs.
LastPage ==
  /\ call.pc = "wait" /\ srv = Len(Directory)
  /\ Return(call.result \o call.page, FALSE)
  /\ UNCHANGED <<Controls, srv>>

\* An error: a result code, a closed channel, a packet that cannot be read.
SearchFails == call.pc = "wait" /\ Return(call.result, TRUE) /\ UNCHANGED <<Controls, srv>>

SearchNext ==
  \/ \E size \in PagingSizes : SearchWithPaging(size)
  \/ Search \/ ReceiveEntry \/ MorePages \/ LastPage \/ SearchFails

SearchSpec == SearchInit /\ [][SearchNext]_searchVars

-----------------------------------------------------------------------------
\* The result of SearchWithPaging, at every moment and also when it fails, is what
\* the directory holds from the place the request's cookie named: nothing twice,
\* nothing skipped between two pages (search.go:331).  Without an error it is all
\* that was left from there.
PagedExact ==
  /\ call.result = SubSeq(Directory, call.from + 1, call.from + Len(call.result))
  /\ (call.pc = "idle" /\ ~call.err) => call.from + Len(call.result) = Len(Directory)

\* "given SearchRequest contains a control of type ControlTypePaging with pagingSize
\* equal to the size requested: no change to the search request" (search.go:299).
RequestUnchanged ==
  (call.pc = "idle" /\ FindControl(call.before, Paging) # <<>>) => Controls = call.before
=============================================================================
