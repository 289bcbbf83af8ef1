-------------------------- MODULE LdapControlProps --------------------------
(***************************************************************************)
(* The controls a caller attaches to a message, and what the other end     *)
(* reads.                                                                  *)
(***************************************************************************)
EXTENDS LdapControl

CONSTANT AnyControl   \* the controls that callers attach

\* ControlStrings of the types that have a control of their own are left out.
OwnControl == {Paging, ManageDsaIT, "1.3.6.1.4.1.42.2.27.8.5.1", "2.16.840.1.113730.3.4.4", "2.16.840.1.113730.3.4.5"}

ASSUME ControlAssumption ==
  \A c \in AnyControl : \/ c = ControlPaging(c.size, c.cookie)
                        \/ c = ControlManageDsaIT(c.crit) /\ c.crit \in BOOLEAN
                        \/ /\ c = ControlString(c.type, c.crit, c.value) /\ c.crit \in BOOLEAN
                           /\ c.type \notin OwnControl

VARIABLE controls   \* those of the message

ControlsInit == controls = <<>>

Attach == \E c \in AnyControl : controls' = Append(controls, c)

ControlsSpec == ControlsInit /\ [][Attach]_controls

\* The controls of a message come back as they were sent: those with and without a
\* criticality or a value, and the paging control, whose value is a packet in an
\* OCTET STRING; the one FindControl finds is the first of its type
\* (control.go:82, :241, :264).
ControlsSurvive ==
  LET read == [i \in 1..Len(controls) |-> DecodeControl(Wire(encodeControls(controls)[i]))]
  IN  /\ read = controls
      /\ \A i \in 1..Len(controls) : \E j \in 1..i :
           /\ FindControl(read, controls[i].type) = <<controls[j]>>
           /\ controls[j].type = controls[i].type
           /\ \A h \in 1..(j - 1) : controls[h].type # controls[i].type
=============================================================================
