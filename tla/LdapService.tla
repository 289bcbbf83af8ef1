---------------------------- MODULE LdapService ----------------------------
(***************************************************************************)
(* What one LDAP connection promises to the calls that use it, without     *)
(* goroutines, channels or locks: a request is accepted only while the     *)
(* connection is not closing; an accepted call has a responses channel     *)
(* that is closed exactly once; and the connection stops serving only when *)
(* no accepted call is left waiting on an open channel.                    *)
(***************************************************************************)
CONSTANT Calls

VARIABLES
  accepting,  \* the connection still accepts requests
  channel,    \* channel[h]: "none" before h's request is accepted, then "open"
  stopped     \* the connection serves nobody any more

vars == <<accepting, channel, stopped>>

Init ==
  /\ accepting = TRUE
  /\ channel = [h \in Calls |-> "none"]
  /\ stopped = FALSE

Accept(h) ==
  /\ accepting
  /\ channel[h] = "none"
  /\ channel' = [channel EXCEPT ![h] = "open"]
  /\ UNCHANGED <<accepting, stopped>>

CloseChannel(h) ==
  /\ ~stopped
  /\ channel[h] = "open"
  /\ channel' = [channel EXCEPT ![h] = "closed"]
  /\ UNCHANGED <<accepting, stopped>>

StopAccepting ==
  /\ accepting
  /\ accepting' = FALSE
  /\ UNCHANGED <<channel, stopped>>

Stop ==
  /\ ~accepting /\ ~stopped
  /\ \A h \in Calls : channel[h] # "open"
  /\ stopped' = TRUE
  /\ UNCHANGED <<accepting, channel>>

Next ==
  \/ \E h \in Calls : Accept(h) \/ CloseChannel(h)
  \/ StopAccepting
  \/ Stop

Spec == Init /\ [][Next]_vars

=============================================================================
