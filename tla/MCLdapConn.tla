----------------------------- MODULE MCLdapConn -----------------------------
(***************************************************************************)
(* Small instances of LdapConn for TLC, and the properties that some of    *)
(* them check.                                                             *)
(***************************************************************************)
EXTENDS LdapConnProps

\* A request whose conn.Write never returns, because the peer takes no bytes,
\* holds the processor for ever: nothing is promised then.
WriteHangs == <>[](ppc = "write")

\* Unless a Write hangs, every Close returns, whatever the calls of Search and
\* the other one-response calls, the timers, the reader and the server do, or
\* wgClose is negative because it beat the last statement of Start.  (For a
\* StartTLS see TLSCloseReturns.)
CloseReturns ==
  WriteHangs \/ \A p \in Procs :
    (pc[p] = "lock") ~> (pc[p] = AfterClose(p) \/ wgClose < 0)

\* Once the connection is closing, a call whose request entered chanMessage
\* stops waiting, unless a Write hangs: it gets its response, the error, or the
\* closed channel.
AcceptedTold ==
  WriteHangs \/ \A h \in Calls :
    (closing /\ h \in accepted /\ pc[Call(h)] = "wait") ~> (pc[Call(h)] # "wait")

\* A call whose timer was started ends, even if the server never answers, unless
\* the Write of another call hangs.
TimeoutEnds ==
  WriteHangs \/ \A h \in Calls : (pc[Timer(h)] = "sleep") ~> (pc[Call(h)] = "end")

\* The comment in processMessages: when the connection closes because of an
\* error, anyone who is waiting is informed (here, unless a Write hangs).
WaitersTold ==
  WriteHangs \/ \A h \in Calls :
    (closing /\ closeErr /\ pc[Call(h)] = "wait") ~> (pc[Call(h)] # "wait")

\* The comment on TestFinishMessage: a goroutine that makes a request and does
\* not take all its responses causes no deadlock.  StartTLS takes one response,
\* and calls Close if the handshake fails: that Close returns (here, unless a
\* Write hangs).
TLSCloseReturns ==
  WriteHangs \/ \A h \in TLSCalls :
    (pc[Call(h)] = "lock") ~> (pc[Call(h)] = AfterClose(Call(h)) \/ wgClose < 0)

=============================================================================
