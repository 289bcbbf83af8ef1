------------------------------ MODULE LdapOps ------------------------------
(***************************************************************************)
(* The operations with one response: SimpleBind, Bind, UnauthenticatedBind *)
(* (ldap/bind.go), Add, Del, Modify, Compare, PasswordModify and           *)
(* getLDAPResultCode.  One client runs one operation at a time against a   *)
(* server that others change too; how operations share a connection is     *)
(* LdapConn's subject.                                                     *)
(*                                                                         *)
(* An entry has one attribute, a set of values, and a password.  A request *)
(* is the packet encode builds, reduced to what the server reads from it.  *)
(* The server may send an intermediate response first, and its answer may  *)
(* arrive malformed or not at all.                                         *)
(***************************************************************************)
EXTENDS Naturals, Sequences, FiniteSets

CONSTANTS DNs, Values, Passwords,
          OtherCodes,       \* what a server may refuse any request with
          MaxOps            \* bound on the operations and on the changes others make

ASSUME CodesAssumption == OtherCodes \subseteq Nat

Empty == "empty"            \* the empty password
Absent == [vals |-> {}, pw |-> "absent"]

Success == 0
CompareFalse == 5
CompareTrue == 6
NoSuchAttribute == 16
NoSuchObject == 32
InvalidCredentials == 49
EntryAlreadyExists == 68
ErrorNetwork == 200
ErrorUnexpectedResponse == 205
ErrorEmptyPassword == 206

\* An error is the uint8 code of its Error.  No error is 0; the other two are no uint8.
Nil == 0
Waiting == 256              \* the operation has not returned
Plain == 257                \* an error that is no *Error, or one with code 0

VARIABLES dir,     \* the server's entries
          op,      \* the request in progress
          wire,    \* "none", the request on its way, or the response
          ret,     \* what the operation has returned
          did,     \* what the server did for it
          ops      \* how many operations and changes there were

opsVars == <<dir, op, wire, ret, did, ops>>

NoRet == [err |-> Waiting, val |-> "none", kind |-> "none", tag |-> "none"]
Idle == [kind |-> "none"]
Nothing == [done |-> FALSE, code |-> Success, val |-> "none"]

OpsInit ==
  /\ dir = [d \in DNs |-> Absent] /\ op = Idle /\ wire = [is |-> "none"] /\ ret = NoRet
  /\ did = Nothing /\ ops = 0

-----------------------------------------------------------------------------
(* Requests.  encode puts the changes of a ModifyRequest in one list: all  *)
(* additions, then all deletions, then all replacements.                   *)

encodeModify(dn, changes) ==
  LET Of(how) == SelectSeq(changes, LAMBDA c : c.how = how)
  IN  [kind |-> "modify", dn |-> dn, changes |-> Of("add") \o Of("delete") \o Of("replace")]

encodeAdd(dn, vals) == [kind |-> "add", dn |-> dn, vals |-> vals]
encodeDel(dn) == [kind |-> "del", dn |-> dn]
encodeCompare(dn, v) == [kind |-> "compare", dn |-> dn, v |-> v]
encodeBind(dn, pw) == [kind |-> "bind", dn |-> dn, pw |-> pw]
\* An empty new password is not sent: the server generates one.
encodePasswordModify(dn, pw) == [kind |-> "passwd", dn |-> dn, gen |-> pw = Empty, pw |-> pw]

\* An operation of this kind returns, having got a response of that kind ("none": no response).
Returned(err, val, kind, tag) == ret' = [err |-> err, val |-> val, kind |-> kind, tag |-> tag] /\ op' = Idle

\* sendMessage: the request is on its way, or the connection is closing.
sendMessage(request) ==
  /\ op = Idle /\ ops < MaxOps /\ ops' = ops + 1
  /\ did' = Nothing /\ UNCHANGED dir
  /\ \/ op' = request /\ wire' = [is |-> "request"] /\ ret' = NoRet
     \/ Returned(ErrorNetwork, "none", request.kind, "none") /\ wire' = [is |-> "none"]

Add == \E dn \in DNs, vals \in SUBSET Values : sendMessage(encodeAdd(dn, vals))
Del == \E dn \in DNs : sendMessage(encodeDel(dn))
Modify == \E dn \in DNs, v \in Values, w \in Values, h \in {"add", "delete", "replace"} :
            sendMessage(encodeModify(dn, <<[how |-> h, v |-> v], [how |-> "add", v |-> w]>>))
Compare == \E dn \in DNs, v \in Values : sendMessage(encodeCompare(dn, v))
PasswordModify == \E dn \in DNs, pw \in Passwords \cup {Empty} : sendMessage(encodePasswordModify(dn, pw))

\* Bind and UnauthenticatedBind: an empty password is sent only if it is allowed.
SimpleBind ==
  \E dn \in DNs, pw \in Passwords \cup {Empty}, AllowEmptyPassword \in BOOLEAN :
    IF pw = Empty /\ ~AllowEmptyPassword
    THEN /\ op = Idle /\ ops < MaxOps /\ ops' = ops + 1
         /\ Returned(ErrorEmptyPassword, "none", "bind", "none")
         /\ did' = Nothing /\ UNCHANGED <<dir, wire>>
    ELSE sendMessage(encodeBind(dn, pw))

-----------------------------------------------------------------------------
(* The server: it does all of a request or nothing.                        *)

Present(dn) == dir[dn] # Absent

Changed(vals, c) ==
  CASE c.how = "add" -> vals \cup {c.v}
    [] c.how = "delete" -> vals \ {c.v}
    [] c.how = "replace" -> {c.v}

\* What request r makes of its entry, the code it is answered with, and the value.
Effect(r) ==
  LET e == dir[r.dn]
      As(entry, code, val) == [entry |-> entry, code |-> code, val |-> val]
      missing == As(e, NoSuchObject, "none")
      two == Changed(Changed(e.vals, r.changes[1]), r.changes[2])
  IN  CASE r.kind = "add" -> IF Present(r.dn) THEN As(e, EntryAlreadyExists, "none")
                             ELSE As([vals |-> r.vals, pw |-> Empty], Success, "none")
        [] r.kind # "add" /\ ~Present(r.dn) -> missing
        [] r.kind = "del" /\ Present(r.dn) -> As(Absent, Success, "none")
        [] r.kind = "modify" /\ Present(r.dn) ->
             IF \E i \in 1..2 : r.changes[i].how = "delete" /\ r.changes[i].v \notin e.vals
             THEN As(e, NoSuchAttribute, "none") ELSE As([e EXCEPT !.vals = two], Success, "none")
        [] r.kind = "compare" /\ Present(r.dn) ->
             As(e, IF r.v \in e.vals THEN CompareTrue ELSE CompareFalse, "none")
        [] r.kind = "bind" /\ Present(r.dn) ->
             As(e, IF r.pw \in {e.pw, Empty} THEN Success ELSE InvalidCredentials, "none")
        [] r.kind = "passwd" /\ Present(r.dn) ->
             As([e EXCEPT !.pw = IF r.gen THEN "generated" ELSE r.pw], Success,
                IF r.gen THEN "generated" ELSE "none")

Serve ==
  /\ wire.is = "request"
  /\ \E f \in {Effect(op)} \cup {[entry |-> dir[op.dn], code |-> c, val |-> "none"] : c \in OtherCodes} :
       /\ dir' = [dir EXCEPT ![op.dn] = f.entry]
       /\ did' = [done |-> TRUE, code |-> f.code, val |-> f.val]
       /\ \E whole \in BOOLEAN :
            wire' = [is |-> "response", tag |-> op.kind, whole |-> whole, code |-> f.code, val |-> f.val]
  /\ UNCHANGED <<op, ret, ops>>

Intermediate ==
  /\ wire.is = "request"
  /\ wire' = [is |-> "response", tag |-> "intermediate", whole |-> FALSE, code |-> Success, val |-> "none"]
  /\ UNCHANGED <<dir, op, ret, did, ops>>

Others ==
  /\ ops < MaxOps /\ ops' = ops + 1
  /\ \E dn \in DNs, e \in {Absent} \cup [vals : SUBSET Values, pw : Passwords] : dir' = [dir EXCEPT ![dn] = e]
  /\ UNCHANGED <<op, wire, ret, did>>

-----------------------------------------------------------------------------
(* The response.                                                           *)

\* The conversion of an int64 to uint8.
uint8(n) == n % 256

\* The code of a packet that has a result in the right shape, narrowed, or ErrorNetwork.
getLDAPResultCode(packet) == IF packet.whole THEN uint8(packet.code) ELSE ErrorNetwork

Answered(err, val) == Returned(err, val, op.kind, wire.tag)

\* Err(code): NewError, or nil for success.
ReturnCode(packet, val) ==
  LET code == getLDAPResultCode(packet)
  IN  IF code = Success THEN Answered(Nil, val) ELSE Answered(code, "none")

\* A plausible slip: a compare that is false is reported like one that is true.
CompareAnswered(packet) ==
  IF getLDAPResultCode(packet) \in {CompareTrue, CompareFalse} THEN Answered(Nil, "true")
  ELSE Answered(getLDAPResultCode(packet), "false")

\* A Compare that is answered with success returns an Error with code 0, not nil.
compareResult(packet) ==
  LET code == getLDAPResultCode(packet)
  IN  CASE code = CompareTrue -> Answered(Nil, "true")
        [] code = CompareFalse -> Answered(Nil, "false")
        [] code = Success -> Answered(Plain, "false")
        [] OTHER -> Answered(code, "false")

\* After ReadPacket.  Add, Del and Modify only log a response of another kind;
\* SimpleBind does not look at its kind.
Receive ==
  /\ wire.is = "response" /\ wire' = [is |-> "none"]
  /\ LET expected == wire.tag = op.kind
     IN  \/ op.kind = "bind" /\ ReturnCode(wire, "none")
         \/ op.kind \in {"add", "del", "modify"} /\ expected /\ ReturnCode(wire, "none")
         \/ op.kind \in {"add", "del", "modify"} /\ ~expected /\ Answered(Nil, "none")
         \/ op.kind = "compare" /\ expected /\ compareResult(wire)
         \/ op.kind = "passwd" /\ expected /\ ReturnCode(wire, wire.val)
         \/ op.kind = "compare" /\ ~expected /\ Answered(Plain, "false")
         \/ op.kind = "passwd" /\ ~expected /\ Answered(ErrorUnexpectedResponse, "none")
  /\ UNCHANGED <<dir, did, ops>>

\* The response channel is closed, or the response was an error; the server may do
\* the request all the same.
Lost ==
  /\ op # Idle /\ Returned(ErrorNetwork, "none", op.kind, "none") /\ wire' = [is |-> "none"]
  /\ UNCHANGED <<dir, did, ops>>

OpsNext == \/ Add \/ Del \/ Modify \/ Compare \/ PasswordModify \/ SimpleBind
           \/ Serve \/ Intermediate \/ Others \/ Receive \/ Lost

OpsSpec == OpsInit /\ [][OpsNext]_opsVars

-----------------------------------------------------------------------------
\* What an operation returns is what the server said it did, modulo 256: nil means
\* that its code reads as success (for Compare: as one of its two answers), an error
\* with another code than the client's own that the server gave that code, and a
\* compare's answer and a generated password are the server's, whatever others change
\* and whatever is lost.  The exception is an Add, Del or Modify that got a response of
\* another kind: it returns nil and nothing is known (add.go:102, compare.go:70,
\* passwdmodify.go:126, bind.go:96).  The codes are the server's modulo 256
\* (error.go:121): a refusal with 4096 is told as success.
ToldWhatWasDone ==
  op = Idle =>
    /\ ret.err = Nil =>
         \/ did.done /\ uint8(did.code) \in IF ret.kind = "compare" THEN {CompareTrue, CompareFalse} ELSE {Success}
         \/ ret.kind \in {"add", "del", "modify"} /\ ret.tag \notin {ret.kind, "none"}
    /\ ret.err \notin {Nil, Waiting, Plain, ErrorNetwork, ErrorUnexpectedResponse} =>
         IF did.done THEN uint8(did.code) = ret.err ELSE ret.err = ErrorEmptyPassword
    /\ ret.val = "true" => uint8(did.code) = CompareTrue
    /\ (ret.err = Nil /\ ret.val = "false") => uint8(did.code) = CompareFalse
    /\ (ret.err = Nil /\ did.val = "generated") => ret.val = "generated"
=============================================================================
