------------------------------ MODULE LdapConn ------------------------------
(***************************************************************************)
(* The LDAP client connection of ldap/conn.go: the goroutines that share   *)
(* one Conn, the channels between them and the mutex that orders them.     *)
(*                                                                         *)
(*   call    one call of Bind, Add, Del, Modify, Compare, PasswordModify,  *)
(*           Search or StartTLS, from nextMessageID to finishMessage       *)
(*   reader  one run of reader(): the one Start spawns and the one each    *)
(*           successful StartTLS spawns                                    *)
(*   timer   the goroutine that sleeps for requestTimeout after a request  *)
(*   closer  one call of Close by the user of the connection               *)
(*   the processor, the one run of processMessages()                       *)
(*                                                                         *)
(* Packets are reduced to the message ID they carry and to whether a       *)
(* search still expects more of them after this one.                       *)
(***************************************************************************)
EXTENDS Integers, Sequences, FiniteSets

CONSTANTS
  SimpleCalls,  \* calls that wait for one response
  SearchCalls,  \* calls of Search, which wait until a final response
  TLSCalls,     \* calls of StartTLS
  Closers,      \* calls of Close by the user
  Dialer,       \* names the reader that Start spawns
  NoCall,       \* no call: a packet that answers no request
  QueueCap,     \* capacity of chanMessage (10 in the code)
  MaxPackets    \* bound: packets the server sends in one behaviour

Calls == SimpleCalls \cup SearchCalls \cup TLSCalls

ASSUME ConnAssumption ==
  /\ IsFiniteSet(Calls)
  /\ SimpleCalls \cap SearchCalls = {}
  /\ TLSCalls \cap (SimpleCalls \cup SearchCalls) = {}
  /\ Dialer \notin Calls
  /\ NoCall \notin Calls
  /\ QueueCap \in Nat \ {0}
  /\ MaxPackets \in Nat

ReaderIds == TLSCalls \cup {Dialer}

Procs == ({"call", "timer"} \X Calls) \cup ({"reader"} \X ReaderIds)
           \cup ({"closer"} \X Closers)

Call(h)   == <<"call", h>>
Timer(h)  == <<"timer", h>>
Reader(x) == <<"reader", x>>
Closer(c) == <<"closer", c>>

Free == <<"free">>

VARIABLES
  pc,                   \* where each goroutine is
  started,              \* Start has returned: the user holds the connection
  wgClose,              \* the counter of wgClose; below zero the program panics
  closing,              \* the atomic closing flag
  closeErr,             \* the reader stored the error that closed the connection
  net,                  \* the net.Conn: "up", "broken" by the peer, "closed" by us
  chanMessage,          \* the buffered channel to the processor
  queueClosed,          \* close(chanMessage) was called
  messageMutex,         \* the goroutine that holds messageMutex, or Free
  outstandingRequests,
  isStartingTLS,
  isTLS,
  requestTimeout,       \* SetTimeout was called with a positive duration
  id,                   \* id[h]: the message ID of call h, -1 before it has one
  done,                 \* done[h]: close(done) was called on h's context
  responses,            \* responses[h]: "open" or "closed"
  messageID,            \* the processor's next message ID
  messageContexts,      \* the calls registered in the map, keyed by their id
  ppc,                  \* where the processor is
  sending,              \* what it writes or sends while ppc is "write" or "send"
  written,              \* calls whose request the processor wrote or is writing
  packet,               \* packet[x]: what reader x is about to queue
  cleanstop,            \* cleanstop[x]: reader x's local variable
  packets,              \* packets read so far (bounded by MaxPackets)
  accepted              \* history: calls whose request entered chanMessage

connVars == <<started, wgClose, closing, closeErr, net, isTLS, requestTimeout>>
queueVars == <<chanMessage, queueClosed, accepted>>
countVars == <<outstandingRequests, isStartingTLS>>
ctxVars == <<id, done, responses>>
procVars == <<messageID, messageContexts, ppc, sending, written>>
readerVars == <<packet, cleanstop, packets>>
vars == <<pc, messageMutex, connVars, queueVars, countVars, ctxVars, procVars,
          readerVars>>

(***************************************************************************)
(* messagePacket: Op, MessageID, Packet (only whether a search expects     *)
(* more after it) and Context.  In a response, call is the request that    *)
(* the server answers; the client never looks at it.                       *)
(***************************************************************************)
Ops == {"quit", "request", "response", "finish", "timeout", "malformed"}

Message ==
  {m \in [op : Ops, id : Int, call : Calls \cup {NoCall}, more : BOOLEAN] :
     m.op = "request" => m.call \in Calls}

Msg(op, i, h, more) == [op |-> op, id |-> i, call |-> h, more |-> more]

Quit == Msg("quit", 0, NoCall, FALSE)

\* What a reader can hold.  Malformed is a packet whose message ID is not an
\* integer.
Packet == {m \in Message : m.op \in {"response", "malformed"}}

Malformed == Msg("malformed", 0, NoCall, FALSE)

(***************************************************************************)
(* What sendResponse carries: the call it is for, the call the packet      *)
(* answers (that call itself when it carries an error), and what the       *)
(* processor does afterwards: go on, or close the responses channel.       *)
(***************************************************************************)
Sending == [to : Calls \cup {NoCall}, err : BOOLEAN,
            answers : Calls \cup {NoCall}, more : BOOLEAN,
            then : {"select", "close", "drain"}]

NotSending == [to |-> NoCall, err |-> FALSE, answers |-> NoCall,
               more |-> FALSE, then |-> "select"]

\* Where a goroutine of each kind can be.
CallLabels == {"idle", "nextID", "check", "admit", "send", "put", "wait",
               "handshake", "lock", "quit", "confirm", "wgwait",
               "finish", "leave", "uncount", "sendFin", "putFin", "end"}
TimerLabels == {"off", "sleep", "send", "put", "end"}
ReaderLabels == {"off", "read", "storeErr", "mark", "send", "put",
                 "lock", "quit", "confirm", "wgwait", "end"}
CloserLabels == {"idle", "lock", "quit", "confirm", "wgwait", "end"}

Labels == CallLabels \cup TimerLabels \cup ReaderLabels \cup CloserLabels

LabelsOf(p) == CASE p[1] = "call"   -> CallLabels
                 [] p[1] = "timer"  -> TimerLabels
                 [] p[1] = "reader" -> ReaderLabels
                 [] OTHER           -> CloserLabels

\* Labels at which a goroutine is inside Close with messageMutex.
CloseHolds == {"quit", "confirm", "wgwait"}

\* Labels at which a goroutine holds messageMutex.
Holding == CloseHolds \cup {"put", "putFin"}

Goto(p, l) == pc' = [pc EXCEPT ![p] = l]

\* A step that changes nothing but where goroutine p is.
Move(p, l) ==
  /\ Goto(p, l)
  /\ UNCHANGED <<messageMutex, connVars, queueVars, countVars, ctxVars, procVars,
                 readerVars>>

-----------------------------------------------------------------------------
(***************************************************************************)
(* The state once NewConn and Start have spawned the two goroutines;       *)
(* wgClose.Add(1) comes only after both `go` statements.                   *)
(***************************************************************************)
Init ==
  /\ pc = [p \in Procs |->
             IF p = Reader(Dialer) THEN "read"
             ELSE IF p[1] \in {"call", "closer"} THEN "idle" ELSE "off"]
  /\ started = FALSE
  /\ wgClose = 0
  /\ closing = FALSE
  /\ closeErr = FALSE
  /\ net = "up"
  /\ chanMessage = <<>>
  /\ queueClosed = FALSE
  /\ messageMutex = Free
  /\ outstandingRequests = 0
  /\ isStartingTLS = FALSE
  /\ isTLS \in BOOLEAN
  /\ requestTimeout = FALSE
  /\ id = [h \in Calls |-> -1]
  /\ done = [h \in Calls |-> FALSE]
  /\ responses = [h \in Calls |-> "open"]
  /\ messageID = 1
  /\ messageContexts = {}
  /\ ppc = "select"
  /\ sending = NotSending
  /\ written = {}
  /\ packet = [x \in ReaderIds |-> Malformed]
  /\ cleanstop = [x \in ReaderIds |-> FALSE]
  /\ packets = 0
  /\ accepted = {}

\* The last statement of Start.
StartAdd ==
  /\ ~started
  /\ started' = TRUE
  /\ wgClose' = wgClose + 1
  /\ UNCHANGED <<pc, messageMutex, closing, closeErr, net, isTLS,
                 requestTimeout, queueVars, countVars, ctxVars, procVars,
                 readerVars>>

SetTimeout ==
  /\ ~requestTimeout
  /\ requestTimeout' = TRUE
  /\ UNCHANGED <<pc, messageMutex, started, wgClose, closing, closeErr, net,
                 isTLS, queueVars, countVars, ctxVars, procVars, readerVars>>

\* The peer or the network ends the connection.
NetBreak ==
  /\ net = "up"
  /\ net' = "broken"
  /\ UNCHANGED <<pc, messageMutex, started, wgClose, closing, closeErr, isTLS,
                 requestTimeout, queueVars, countVars, ctxVars, procVars,
                 readerVars>>

-----------------------------------------------------------------------------
(***************************************************************************)
(* sendProcessMessage, called by calls, readers and timers.  It takes the  *)
(* mutex; if the connection is closing it returns false, else it blocks on *)
(* the channel with the mutex held.                                        *)
(***************************************************************************)
Outgoing(p) ==
  CASE p[1] = "call" /\ pc[p] = "put"    -> Msg("request", id[p[2]], p[2], FALSE)
    [] p[1] = "call" /\ pc[p] = "putFin" -> Msg("finish", id[p[2]], p[2], FALSE)
    [] p[1] = "timer"                    -> Msg("timeout", id[p[2]], p[2], FALSE)
    [] OTHER                             -> packet[p[2]]

\* The label at which p goes on when sendProcessMessage returns ok.  A call
\* ignores ok; a reader returns on false, and its deferred function calls Close
\* unless the reader stops cleanly.
AfterSend(p, ok) ==
  CASE p[1] = "call" /\ pc[p] \in {"send", "put"} -> "wait"
    [] p[1] = "reader" /\ ~cleanstop[p[2]]        -> IF ok THEN "read" ELSE "lock"
    [] OTHER                                      -> "end"

SendRefused(p) ==
  /\ pc[p] \in {"send", "sendFin"}
  /\ messageMutex = Free
  /\ closing
  /\ Move(p, AfterSend(p, FALSE))

\* Mutant: the closing flag is not looked at under the mutex.
SendLockUnchecked(p) ==
  /\ pc[p] \in {"send", "sendFin"}
  /\ messageMutex = Free
  /\ messageMutex' = p
  /\ Goto(p, IF pc[p] = "send" THEN "put" ELSE "putFin")
  /\ UNCHANGED <<connVars, queueVars, countVars, ctxVars, procVars, readerVars>>

SendLock(p) ==
  /\ pc[p] \in {"send", "sendFin"}
  /\ messageMutex = Free
  /\ ~closing
  /\ messageMutex' = p
  /\ Goto(p, IF pc[p] = "send" THEN "put" ELSE "putFin")
  /\ UNCHANGED <<connVars, queueVars, countVars, ctxVars, procVars, readerVars>>

SendPut(p) ==
  /\ pc[p] \in {"put", "putFin"}
  /\ Len(chanMessage) < QueueCap
  /\ chanMessage' = Append(chanMessage, Outgoing(p))
  /\ accepted' = IF Outgoing(p).op = "request" THEN accepted \cup {p[2]}
                 ELSE accepted
  /\ messageMutex' = Free
  /\ Goto(p, AfterSend(p, TRUE))
  /\ UNCHANGED <<connVars, queueClosed, countVars, ctxVars, procVars, readerVars>>

(***************************************************************************)
(* Close, called by the user, by a reader that fails and by StartTLS when  *)
(* the handshake fails.  The mutex is held until it returns.               *)
(***************************************************************************)
AfterClose(p) == IF p[1] = "call" THEN "finish" ELSE "end"

\* Mutant: Close does not look whether another Close ran.
CloseLockAgain(p) ==
  /\ pc[p] = "lock"
  /\ messageMutex = Free
  /\ messageMutex' = p
  /\ closing' = TRUE
  /\ Goto(p, "quit")
  /\ UNCHANGED <<started, wgClose, closeErr, net, isTLS, requestTimeout,
                 queueVars, countVars, ctxVars, procVars, readerVars>>

CloseLock(p) ==
  /\ pc[p] = "lock"
  /\ messageMutex = Free
  /\ messageMutex' = p
  /\ closing' = TRUE
  /\ Goto(p, IF closing THEN "wgwait" ELSE "quit")
  /\ UNCHANGED <<started, wgClose, closeErr, net, isTLS, requestTimeout,
                 queueVars, countVars, ctxVars, procVars, readerVars>>

CloseQuit(p) ==
  /\ pc[p] = "quit"
  /\ Len(chanMessage) < QueueCap
  /\ chanMessage' = Append(chanMessage, Quit)
  /\ Goto(p, "confirm")
  /\ UNCHANGED <<messageMutex, connVars, queueClosed, accepted, countVars,
                 ctxVars, procVars, readerVars>>

\* <-chanConfirm returns once the processor has closed it; then
\* close(chanMessage), conn.Close() and wgClose.Done().
CloseConfirmed(p) ==
  /\ pc[p] = "confirm"
  /\ ppc = "stopped"
  /\ queueClosed' = TRUE
  /\ net' = "closed"
  /\ wgClose' = wgClose - 1
  /\ Goto(p, "wgwait")
  /\ UNCHANGED <<messageMutex, started, closing, closeErr, isTLS,
                 requestTimeout, chanMessage, accepted, countVars, ctxVars,
                 procVars, readerVars>>

CloseWait(p) ==
  /\ pc[p] = "wgwait"
  /\ wgClose = 0
  /\ messageMutex' = Free
  /\ Goto(p, AfterClose(p))
  /\ UNCHANGED <<connVars, queueVars, countVars, ctxVars, procVars, readerVars>>

\* The user calls Close.
UserClose(c) ==
  /\ started
  /\ pc[Closer(c)] = "idle"
  /\ Move(Closer(c), "lock")

-----------------------------------------------------------------------------
(***************************************************************************)
(* A call: nextMessageID, sendMessage, the wait for responses and the      *)
(* deferred finishMessage.                                                 *)
(***************************************************************************)
\* StartTLS returns at once on a connection that is already encrypted.
CallBegin(h) ==
  /\ started
  /\ pc[Call(h)] = "idle"
  /\ Move(Call(h), IF h \in TLSCalls /\ isTLS THEN "end" ELSE "nextID")

\* nextMessageID receives from chanMessageID, which the processor serves ...
TakeID(h) ==
  /\ pc[Call(h)] = "nextID"
  /\ ppc = "select"
  /\ id' = [id EXCEPT ![h] = messageID]
  /\ messageID' = messageID + 1
  /\ Goto(Call(h), "check")
  /\ UNCHANGED <<messageMutex, connVars, queueVars, countVars, done, responses,
                 messageContexts, ppc, sending, written, readerVars>>

\* ... until it stops and closes it.
TakeNoID(h) ==
  /\ pc[Call(h)] = "nextID"
  /\ ppc = "stopped"
  /\ id' = [id EXCEPT ![h] = 0]
  /\ Goto(Call(h), "check")
  /\ UNCHANGED <<messageMutex, connVars, queueVars, countVars, done, responses,
                 procVars, readerVars>>

\* Search encodes its filter after it took the ID; a bad filter ends the call.
EncodeFails(h) ==
  /\ h \in SearchCalls
  /\ pc[Call(h)] = "check"
  /\ Move(Call(h), "end")

\* sendMessageWithFlags looks at the closing flag before it takes the mutex.
CheckClosing(h) ==
  /\ pc[Call(h)] = "check"
  /\ Move(Call(h), IF closing THEN "end" ELSE "admit")

\* Mutant: StartTLS does not wait for outstanding requests.
RefusedStarting(h) == isStartingTLS

\* Under the mutex: no request during the StartTLS phase, no StartTLS while
\* requests are outstanding.
Refused(h) == isStartingTLS \/ (h \in TLSCalls /\ outstandingRequests # 0)

Reject(h) ==
  /\ pc[Call(h)] = "admit"
  /\ messageMutex = Free
  /\ Refused(h)
  /\ Move(Call(h), "end")

Admit(h) ==
  /\ pc[Call(h)] = "admit"
  /\ messageMutex = Free
  /\ ~Refused(h)
  /\ isStartingTLS' = (h \in TLSCalls)
  /\ outstandingRequests' = outstandingRequests + 1
  /\ Goto(Call(h), "send")
  /\ UNCHANGED <<messageMutex, connVars, queueVars, ctxVars, procVars, readerVars>>

\* Receiving from a closed responses channel: "response channel closed".
ChannelClosed(h) ==
  /\ pc[Call(h)] = "wait"
  /\ responses[h] = "closed"
  /\ Move(Call(h), "finish")

\* StartTLS: the server refused (no reader is started again) ...
TLSRefused(h) ==
  /\ pc[Call(h)] = "handshake"
  /\ Move(Call(h), "finish")

\* ... the handshake failed: Close, before the deferred finishMessage ...
TLSFails(h) ==
  /\ pc[Call(h)] = "handshake"
  /\ Move(Call(h), "lock")

\* ... or it succeeded: a new reader starts, before finishMessage too.
TLSUp(h) ==
  /\ pc[Call(h)] = "handshake"
  /\ net = "up"
  /\ isTLS' = TRUE
  /\ pc' = [pc EXCEPT ![Call(h)] = "finish", ![Reader(h)] = "read"]
  /\ UNCHANGED <<messageMutex, started, wgClose, closing, closeErr, net,
                 requestTimeout, queueVars, countVars, ctxVars, procVars,
                 readerVars>>

\* Mutant: finishMessage does not close done.
FinishOpen(h) ==
  /\ pc[Call(h)] = "finish"
  /\ Move(Call(h), "leave")

\* finishMessage: close(done) ...
Finish(h) ==
  /\ pc[Call(h)] = "finish"
  /\ done' = [done EXCEPT ![h] = TRUE]
  /\ Goto(Call(h), "leave")
  /\ UNCHANGED <<messageMutex, connVars, queueVars, countVars, id, responses,
                 procVars, readerVars>>

\* Mutant: finishMessage always returns here.
FinishReturns(h) ==
  /\ pc[Call(h)] = "leave"
  /\ Move(Call(h), "end")

\* ... return if closing ...
FinishCheck(h) ==
  /\ pc[Call(h)] = "leave"
  /\ Move(Call(h), IF closing THEN "end" ELSE "uncount")

\* ... and, under the mutex, stop counting the request.
Uncount(h) ==
  /\ pc[Call(h)] = "uncount"
  /\ messageMutex = Free
  /\ outstandingRequests' = outstandingRequests - 1
  /\ isStartingTLS' = FALSE
  /\ Goto(Call(h), "sendFin")
  /\ UNCHANGED <<messageMutex, connVars, queueVars, ctxVars, procVars, readerVars>>

-----------------------------------------------------------------------------
(***************************************************************************)
(* reader().  The server answers any request that was written, as often    *)
(* and as late as it likes, and may send packets that answer none; what it *)
(* sent before the connection broke can still be read.                     *)
(***************************************************************************)
ReadPacket(x, m) ==
  /\ pc[Reader(x)] = "read"
  /\ net # "closed"
  /\ packets < MaxPackets
  /\ packets' = packets + 1
  /\ packet' = [packet EXCEPT ![x] = m]
  /\ Goto(Reader(x), "mark")
  /\ UNCHANGED <<messageMutex, connVars, queueVars, countVars, ctxVars,
                 procVars, cleanstop>>

ReadResponse(x) ==
  \E h \in written : \E more \in IF h \in SearchCalls THEN BOOLEAN ELSE {FALSE} :
    ReadPacket(x, Msg("response", id[h], h, more))

ReadUnsolicited(x) == ReadPacket(x, Msg("response", 0, NoCall, FALSE))

\* The type assertion on the message ID will panic.
ReadMalformed(x) == ReadPacket(x, Malformed)

\* A packet without children is skipped.
ReadBad(x) ==
  /\ pc[Reader(x)] = "read"
  /\ net # "closed"
  /\ packets < MaxPackets
  /\ packets' = packets + 1
  /\ UNCHANGED <<pc, messageMutex, connVars, queueVars, countVars, ctxVars,
                 procVars, packet, cleanstop>>

ReadError(x) ==
  /\ pc[Reader(x)] = "read"
  /\ net # "up"
  /\ Move(Reader(x), IF closing THEN "lock" ELSE "storeErr")

StoreErr(x) ==
  /\ pc[Reader(x)] = "storeErr"
  /\ closeErr' = TRUE
  /\ Goto(Reader(x), "lock")
  /\ UNCHANGED <<messageMutex, started, wgClose, closing, net, isTLS,
                 requestTimeout, queueVars, countVars, ctxVars, procVars,
                 readerVars>>

\* Mutant: the reader reads on in the StartTLS phase.
MarkNever(x) ==
  /\ pc[Reader(x)] = "mark"
  /\ messageMutex = Free
  /\ Move(Reader(x), IF packet[x].op # "malformed" THEN "send" ELSE "lock")

\* The StartTLS phase makes this packet the reader's last.  A panic comes
\* after that decision and ends the reader through its deferred function.
Mark(x) ==
  /\ pc[Reader(x)] = "mark"
  /\ messageMutex = Free
  /\ cleanstop' = [cleanstop EXCEPT ![x] = isStartingTLS]
  /\ Goto(Reader(x), IF packet[x].op # "malformed" THEN "send"
                     ELSE IF isStartingTLS THEN "end" ELSE "lock")
  /\ UNCHANGED <<messageMutex, connVars, queueVars, countVars, ctxVars,
                 procVars, packet, packets>>

\* The timeout goroutine wakes up.
TimerFires(h) ==
  /\ pc[Timer(h)] = "sleep"
  /\ Move(Timer(h), "send")

-----------------------------------------------------------------------------
(***************************************************************************)
(* processMessages().  It is at "select", in conn.Write ("write"), blocked *)
(* in sendResponse ("send"), in its deferred function ("drain") or gone    *)
(* ("stopped").                                                            *)
(***************************************************************************)
\* Mutants: the map is not keyed by the message ID; nothing is registered.
RegisteredAny(i) == messageContexts

RegisteredNone(i) == {h \in messageContexts : id[h] = i /\ i = 0}

Registered(i) == {h \in messageContexts : id[h] = i}

Receive(op) ==
  /\ ppc = "select"
  /\ chanMessage # <<>>
  /\ Head(chanMessage).op = op
  /\ chanMessage' = Tail(chanMessage)
  /\ UNCHANGED <<messageMutex, connVars, queueClosed, accepted, countVars, id,
                 done, messageID, readerVars>>

SendResponse(h, err, answers, more, then) ==
  /\ ppc' = "send"
  /\ sending' = [to |-> h, err |-> err, answers |-> answers, more |-> more,
                 then |-> then]

\* Mutant: processMessages returns without its deferred function.
ProcessQuitStops ==
  /\ Receive("quit")
  /\ ppc' = "stopped"
  /\ UNCHANGED <<pc, responses, messageContexts, sending, written>>

ProcessQuit ==
  /\ Receive("quit")
  /\ ppc' = "drain"
  /\ UNCHANGED <<pc, responses, messageContexts, sending, written>>

\* A request is written to the network.  conn.Write has no deadline: it lasts
\* as long as the peer takes no bytes.  The peer may answer before it returns,
\* or although it fails.
ProcessRequest ==
  /\ Receive("request")
  /\ ppc' = "write"
  /\ sending' = [NotSending EXCEPT !.to = Head(chanMessage).call]
  /\ written' = written \cup {Head(chanMessage).call}
  /\ UNCHANGED <<pc, responses, messageContexts>>

\* conn.Write succeeded: register the call (under its ID, as the map does)
\* and start the timer if a timeout is set.
WriteReturns ==
  LET h == sending.to IN
  /\ ppc = "write"
  /\ net # "closed"
  /\ ppc' = "select"
  /\ sending' = NotSending
  /\ messageContexts' = (messageContexts \ Registered(id[h])) \cup {h}
  /\ pc' = IF requestTimeout THEN [pc EXCEPT ![Timer(h)] = "sleep"] ELSE pc
  /\ UNCHANGED <<messageMutex, connVars, queueVars, countVars, ctxVars,
                 messageID, written, readerVars>>

\* conn.Write failed: tell the call and close its channel.
WriteFails ==
  /\ ppc = "write"
  /\ net # "up"
  /\ SendResponse(sending.to, TRUE, sending.to, FALSE, "close")
  /\ UNCHANGED <<pc, messageMutex, connVars, queueVars, countVars, ctxVars,
                 messageID, messageContexts, written, readerVars>>

ProcessResponse ==
  LET m == Head(chanMessage) IN
  /\ Receive("response")
  /\ \E h \in Registered(m.id) : SendResponse(h, FALSE, m.call, m.more, "select")
  /\ UNCHANGED <<pc, responses, messageContexts, written>>

ProcessTimeout ==
  /\ Receive("timeout")
  /\ \E h \in Registered(Head(chanMessage).id) :
       SendResponse(h, TRUE, h, FALSE, "close")
  /\ UNCHANGED <<pc, responses, messageContexts, written>>

\* Mutant: the context is not deleted from the map.
ProcessFinishKept ==
  /\ Receive("finish")
  /\ \E h \in Registered(Head(chanMessage).id) :
       responses' = [responses EXCEPT ![h] = "closed"]
  /\ UNCHANGED <<pc, ppc, sending, written, messageContexts>>

ProcessFinish ==
  /\ Receive("finish")
  /\ \E h \in Registered(Head(chanMessage).id) :
       /\ messageContexts' = messageContexts \ {h}
       /\ responses' = [responses EXCEPT ![h] = "closed"]
  /\ UNCHANGED <<pc, ppc, sending, written>>

\* A message about an ID that is not registered changes nothing.
ProcessUnknown ==
  /\ \E op \in {"response", "timeout", "finish"} : Receive(op)
  /\ Registered(Head(chanMessage).id) = {}
  /\ UNCHANGED <<pc, responses, messageContexts, ppc, sending, written>>

\* What the processor does when sendResponse returns.
AfterResponse ==
  LET h == sending.to IN
  /\ sending' = NotSending
  /\ ppc' = IF sending.then = "drain" THEN "drain" ELSE "select"
  /\ IF sending.then = "select"
     THEN UNCHANGED <<messageContexts, responses>>
     ELSE /\ messageContexts' = messageContexts \ {h}
          /\ responses' = [responses EXCEPT ![h] = "closed"]
  /\ UNCHANGED <<messageMutex, connVars, queueVars, countVars, id, done,
                 messageID, written, readerVars>>

\* The call is at <-responses and takes it.  A simple call is done with the
\* first response, a search with the final one; StartTLS goes on to the
\* handshake.  An error ends each of them.
Deliver(h) ==
  /\ ppc = "send"
  /\ sending.to = h
  /\ pc[Call(h)] = "wait"
  /\ Goto(Call(h), CASE sending.err                       -> "finish"
                     [] ~sending.err /\ h \in TLSCalls     -> "handshake"
                     [] ~sending.err /\ h \in SearchCalls
                          /\ sending.more                  -> "wait"
                     [] OTHER                             -> "finish")
  /\ AfterResponse

\* The call has closed done: the response is dropped.
Drop ==
  /\ ppc = "send"
  /\ sending.to \in Calls
  /\ done[sending.to]
  /\ AfterResponse
  /\ UNCHANGED pc

\* The deferred function: every context left is told closeErr, if the reader
\* stored one, and closed.
DrainTell ==
  /\ ppc = "drain"
  /\ closing /\ closeErr
  /\ \E h \in messageContexts : SendResponse(h, TRUE, h, FALSE, "drain")
  /\ UNCHANGED <<pc, messageMutex, connVars, queueVars, countVars, ctxVars,
                 messageID, messageContexts, written, readerVars>>

DrainClose ==
  /\ ppc = "drain"
  /\ ~(closing /\ closeErr)
  /\ \E h \in messageContexts :
       /\ responses' = [responses EXCEPT ![h] = "closed"]
       /\ messageContexts' = messageContexts \ {h}
  /\ UNCHANGED <<pc, messageMutex, connVars, queueVars, countVars, id, done,
                 messageID, ppc, sending, written, readerVars>>

DrainEnd ==
  /\ ppc = "drain"
  /\ messageContexts = {}
  /\ ppc' = "stopped"
  /\ UNCHANGED <<pc, messageMutex, connVars, queueVars, countVars, ctxVars,
                 messageID, messageContexts, sending, written, readerVars>>

-----------------------------------------------------------------------------
SendStep(p) == SendRefused(p) \/ SendLock(p) \/ SendPut(p)

CloseStep(p) == CloseLock(p) \/ CloseQuit(p) \/ CloseConfirmed(p) \/ CloseWait(p)

CallStep(h) ==
  \/ TakeID(h) \/ TakeNoID(h) \/ EncodeFails(h) \/ CheckClosing(h)
  \/ Reject(h) \/ Admit(h) \/ ChannelClosed(h)
  \/ Finish(h) \/ FinishCheck(h) \/ Uncount(h)

Handshake(h) == TLSRefused(h) \/ TLSFails(h) \/ TLSUp(h)

Server(x) == ReadResponse(x) \/ ReadUnsolicited(x) \/ ReadMalformed(x) \/ ReadBad(x)

ReaderStep(x) == ReadError(x) \/ StoreErr(x) \/ Mark(x)

ProcessStep ==
  \/ ProcessQuit \/ ProcessRequest \/ WriteReturns \/ WriteFails \/ ProcessResponse
  \/ ProcessTimeout \/ ProcessFinish \/ ProcessUnknown
  \/ DrainTell \/ DrainClose \/ DrainEnd \/ Drop
  \/ \E h \in Calls : Deliver(h)

\* A negative wgClose panics in a goroutine nobody recovers: no step follows.
Next ==
  /\ wgClose >= 0
  /\ \/ StartAdd \/ SetTimeout \/ NetBreak
     \/ ProcessStep
     \/ \E p \in Procs : SendStep(p) \/ CloseStep(p)
     \/ \E h \in Calls : CallBegin(h) \/ CallStep(h) \/ TimerFires(h)
     \/ \E h \in TLSCalls : Handshake(h)
     \/ \E x \in ReaderIds : Server(x) \/ ReaderStep(x)
     \/ \E c \in Closers : UserClose(c)

Spec == Init /\ [][Next]_vars

(***************************************************************************)
(* Every goroutine that can run does.  The user need not call anything,    *)
(* the server need neither answer nor take what is written, the network    *)
(* need not break, and a write or a handshake need not end.                *)
(***************************************************************************)
Fairness ==
  /\ WF_vars(wgClose >= 0 /\ StartAdd)
  /\ WF_vars(wgClose >= 0 /\ ppc # "write" /\ ProcessStep)
  /\ \A p \in Procs : WF_vars(wgClose >= 0 /\ (SendStep(p) \/ CloseStep(p)))
  /\ \A h \in Calls :
       /\ WF_vars(wgClose >= 0 /\ CallStep(h))
       /\ WF_vars(wgClose >= 0 /\ TimerFires(h))
  /\ \A x \in ReaderIds : WF_vars(wgClose >= 0 /\ ReaderStep(x))

FairSpec == Spec /\ Fairness

=============================================================================
