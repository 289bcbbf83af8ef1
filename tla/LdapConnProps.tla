---------------------------- MODULE LdapConnProps ----------------------------
(***************************************************************************)
(* What LdapConn guarantees, and the inductive invariant behind it.        *)
(***************************************************************************)
EXTENDS LdapConn

PcTyped ==
  /\ pc \in [Procs -> Labels]
  /\ \A p \in Procs : pc[p] \in LabelsOf(p)
  /\ messageMutex \in Procs \cup {Free}

FlagsTyped ==
  /\ started \in BOOLEAN /\ closing \in BOOLEAN /\ closeErr \in BOOLEAN
  /\ isTLS \in BOOLEAN /\ requestTimeout \in BOOLEAN
  /\ queueClosed \in BOOLEAN /\ isStartingTLS \in BOOLEAN

ConnTyped ==
  /\ wgClose \in Int
  /\ net \in {"up", "broken", "closed"}
  /\ outstandingRequests \in Int

QueueTyped ==
  /\ chanMessage \in Seq(Message)
  /\ accepted \subseteq Calls

CtxTyped ==
  /\ id \in [Calls -> Int]
  /\ done \in [Calls -> BOOLEAN]
  /\ responses \in [Calls -> {"open", "closed"}]

ProcTyped ==
  /\ messageID \in Nat
  /\ messageContexts \subseteq Calls
  /\ ppc \in {"select", "write", "send", "drain", "stopped"}
  /\ sending \in Sending
  /\ ppc = "write" => sending.to \in Calls
  /\ written \subseteq Calls

ReaderTyped ==
  /\ packet \in [ReaderIds -> Packet]
  /\ cleanstop \in [ReaderIds -> BOOLEAN]
  /\ packets \in Nat

\* Every variable keeps the values its Go type and its use allow, and every
\* goroutine is somewhere in the function it runs.
TypeOK ==
  /\ PcTyped /\ FlagsTyped /\ ConnTyped /\ QueueTyped /\ CtxTyped /\ ProcTyped
  /\ ReaderTyped

\* Positions of chanMessage that hold a message with this operation.
At(op) == {i \in 1..Len(chanMessage) : chanMessage[i].op = op}

\* Call h's request is in chanMessage.
Queued(h) == \E i \in At("request") : chanMessage[i].call = h

\* messageMutex is held by exactly the goroutine that is between Lock and
\* Unlock in Close or sendProcessMessage, channel operations included.
MutexOwner == \A p \in Procs : pc[p] \in Holding <=> messageMutex = p

\* Nothing is sent on chanMessage after close(chanMessage), and it is closed
\* once: sendProcessMessage and Close test and set the closing flag under the
\* mutex.
NoSendOnClosed ==
  \A p \in Procs : pc[p] \in {"put", "putFin", "quit", "confirm"} => ~queueClosed

\* The quit message is the last that is ever queued, so whatever was accepted
\* before it is processed: when processMessages leaves its loop the queue is
\* empty and stays so.
QuitIsLast ==
  /\ \A i \in At("quit") : i = Len(chanMessage) /\ closing
  /\ ppc \in {"drain", "stopped"} => closing /\ chanMessage = <<>>

\* close(responses) happens once and sendResponse never meets a closed
\* channel: whatever the processor still holds, queued or registered or
\* being told, has an open channel.
NoUseOfClosed ==
  /\ \A h \in messageContexts : responses[h] = "open"
  /\ \A h \in Calls : Queued(h) => responses[h] = "open" /\ h \notin messageContexts
  /\ ppc \in {"write", "send"} => /\ sending.to \in Calls
                                 /\ responses[sending.to] = "open"
                                 /\ ~Queued(sending.to)

\* An accepted call is never forgotten: until its channel is closed its
\* request is queued or being written, or it is registered, or it is being
\* told of a failed write.
NoneForgotten ==
  \A h \in accepted : responses[h] = "open" =>
    \/ Queued(h) \/ h \in messageContexts
    \/ ppc \in {"write", "send"} /\ sending.to = h

\* A response reaches the call whose request it answers, and no other,
\* however late or often the server sends it.
NoCrossDelivery == ppc = "send" => sending.answers = sending.to

\* Calls that outstandingRequests counts: between the two critical sections
\* of sendMessageWithFlags and finishMessage.
Counted ==
  {h \in Calls : pc[Call(h)] \in {"send", "put", "wait", "handshake", "lock",
                                 "finish", "leave", "uncount"} \cup CloseHolds}

\* outstandingRequests is exact while the connection is open; it never falls
\* below the true number, so the unsigned counter does not wrap.
CountIsExact ==
  /\ outstandingRequests >= Cardinality(Counted)
  /\ ~closing => outstandingRequests = Cardinality(Counted)

\* A StartTLS that is under way is alone: isStartingTLS is set and no other
\* call is between admission and finishMessage.
StartTLSAlone ==
  \A t \in TLSCalls \cap Counted : isStartingTLS /\ Counted = {t}

\* Readers that read the connection, or will.
Reading ==
  {x \in ReaderIds : pc[Reader(x)] \in {"read", "mark", "send", "put"} /\ ~cleanstop[x]}

\* During the TLS handshake no reader reads the connection, and there is never
\* more than one reader that can.
HandshakeAlone ==
  /\ Cardinality(Reading) <= 1
  /\ (\E t \in TLSCalls : pc[Call(t)] = "handshake") => Reading = {}

\* wgClose counts Start once and the one Close that closed the connection once,
\* however many goroutines call Close; chanMessage and the net.Conn are closed
\* together.  So wgClose falls below zero only if that Close beats the last
\* statement of Start.  And a reader that is gone, after a read error or a
\* panic, has left a closed connection, unless it stopped for StartTLS.
CloseOnce ==
  /\ wgClose = (IF started THEN 1 ELSE 0) - (IF net = "closed" THEN 1 ELSE 0)
  /\ queueClosed <=> net = "closed"
  /\ \A x \in ReaderIds : pc[Reader(x)] = "end" /\ ~cleanstop[x] => net = "closed"

\* sendResponse never waits for a call that waits for the mutex: the call it
\* sends to is receiving, or about to close done, or has closed it.  StartTLS
\* is the exception: it may be in its handshake, or in Close.
ReceiverReady ==
  ppc = "send" /\ sending.to \notin TLSCalls =>
    done[sending.to] \/ pc[Call(sending.to)] \in {"wait", "finish"}

\* Once the closing flag is set no request enters chanMessage any more.
NoneAcceptedClosing == [][closing => accepted' = accepted]_vars

\* The connection as its callers see it: the channel of a call exists for them
\* once its request is in chanMessage, and processMessages stops serving when
\* it closes chanConfirm.
Service == INSTANCE LdapService
             WITH accepting <- ~closing,
                  channel   <- [h \in Calls |-> IF h \in accepted THEN responses[h]
                                                ELSE "none"],
                  stopped   <- ppc = "stopped"

\* The goroutines together implement LdapService: each accepted call's channel
\* is closed exactly once, none is accepted after the closing flag is set, and
\* processMessages ends only when every accepted call's channel is closed.
ImplementsService == Service!Spec

-----------------------------------------------------------------------------
(***************************************************************************)
(* The inductive invariant behind these properties, in parts.              *)
(***************************************************************************)
\* Who holds the mutex and how far the shutdown is.
ShutdownInv ==
  /\ MutexOwner
  /\ ~closing => /\ ~queueClosed
                 /\ ppc \in {"select", "write", "send"}
                 /\ \A p \in Procs : pc[p] \notin CloseHolds
  /\ \A p \in Procs :
       /\ pc[p] \in {"put", "putFin"} => ~closing
       /\ pc[p] = "quit" => /\ ~queueClosed
                            /\ At("quit") = {}
                            /\ ppc \in {"select", "write", "send"}
                            /\ ppc = "send" => sending.then # "drain"
       /\ pc[p] = "confirm" => ~queueClosed
  /\ QuitIsLast
  /\ ppc = "send" /\ sending.then = "drain" => closing /\ chanMessage = <<>>

\* A reader queues responses only.
PacketInv ==
  \A x \in ReaderIds : pc[Reader(x)] \in {"send", "put"} => packet[x].op = "response"

\* Labels of a call from the moment its request is in chanMessage.
Sent == {"wait", "handshake", "lock", "finish", "leave", "uncount", "sendFin",
         "putFin", "end"} \cup CloseHolds

\* Where a call stands, from its place in the code.
CallInv ==
  /\ \A h \in Calls :
       /\ h \in accepted => pc[Call(h)] \in Sent
       /\ pc[Call(h)] \in {"handshake", "lock"} \cup CloseHolds => h \in TLSCalls
       /\ pc[Call(h)] \in {"leave", "uncount", "sendFin", "putFin"} => done[h]
       /\ h \in accepted /\ pc[Call(h)] = "end" => done[h]
  /\ \A h \in TLSCalls : pc[Reader(h)] # "off" =>
       pc[Call(h)] \in {"finish", "leave", "uncount", "sendFin", "putFin", "end"}

\* No call has two requests in chanMessage.
RequestOnce ==
  \A i, j \in At("request") : chanMessage[i].call = chanMessage[j].call => i = j

\* What the processor holds belongs to accepted calls, each in one place.
OwnerInv ==
  /\ NoUseOfClosed
  /\ NoneForgotten
  /\ \A h \in Calls \ accepted : responses[h] = "open" /\ ~Queued(h)
  /\ messageContexts \subseteq accepted
  /\ written \subseteq accepted
  /\ \A h \in written : ~Queued(h)
  /\ \A h \in Calls : pc[Timer(h)] # "off" => h \in written
  /\ RequestOnce
  /\ ppc = "write" => /\ sending.to \in written \ messageContexts
                      /\ pc[Timer(sending.to)] = "off"
  /\ ppc = "send" => /\ sending.to \in accepted
                     /\ sending.then # "close" => sending.to \in messageContexts

\* Message IDs are unique ...
IdsUnique ==
  /\ messageID > 0
  /\ \A h \in Calls : id[h] < messageID
  /\ \A h, k \in Calls : id[h] = id[k] /\ id[h] > 0 => h = k

\* ... and a call that goes on has a real one.
IdsGiven ==
  \A h \in Calls :
    /\ pc[Call(h)] \in {"idle", "nextID"} => id[h] = -1
    /\ pc[Call(h)] = "check" => id[h] > 0 \/ closing
    /\ pc[Call(h)] \in {"admit", "send", "put"} => id[h] > 0
    /\ h \in accepted => id[h] > 0

\* A response carries the ID of the request it answers, or one never given.
Answers(m) == m.id = 0 \/ (m.id > 0 /\ m.call \in Calls /\ id[m.call] = m.id)

AnswersMatch ==
  /\ \A i \in At("response") : Answers(chanMessage[i])
  /\ \A x \in ReaderIds :
       pc[Reader(x)] \in {"mark", "send", "put"} => Answers(packet[x])

IdInv == IdsUnique /\ IdsGiven /\ AnswersMatch /\ NoCrossDelivery

\* The counter and the StartTLS phase.
CountInv == CountIsExact /\ StartTLSAlone

IInv ==
  /\ TypeOK /\ ShutdownInv /\ PacketInv /\ CallInv
  /\ OwnerInv /\ IdInv /\ CountInv

\* Why a reader that failed leaves a closed connection: the Close it waits for,
\* its own or another goroutine's, ends only when the net.Conn is closed.
GoneInv ==
  /\ \A p \in Procs : pc[p] = "wgwait" => net = "closed"
  /\ closing => net = "closed" \/ \E p \in Procs : pc[p] \in {"quit", "confirm"}
  /\ \A x \in ReaderIds : pc[Reader(x)] = "end" /\ ~cleanstop[x] => net = "closed"

\* Responses that a reader has marked and that processMessages has not taken.
InFlight ==
  {chanMessage[i] : i \in At("response")}
    \cup {packet[x] : x \in {y \in ReaderIds : pc[Reader(y)] \in {"send", "put"}}}

\* StartTLS t has its response, or will get it.
Answered(t) ==
  \/ \E m \in InFlight : m.call = t
  \/ ppc = "send" /\ sending.to = t /\ ~sending.err

\* Why no reader reads during a handshake: only a request that was written is
\* answered, and the reader that marks the response to StartTLS stops.  From then
\* on nobody reads until the handshake starts the next reader.
ReaderInv ==
  /\ \A x \in ReaderIds : cleanstop[x] => pc[Reader(x)] \in {"send", "put", "end"}
  /\ \A m \in InFlight : m.call \in written \cup {NoCall}
  /\ \A x \in ReaderIds : pc[Reader(x)] = "mark" => packet[x].call \in written \cup {NoCall}
  /\ \A x, y \in Reading : x = y
  /\ \A t \in TLSCalls :
       pc[Call(t)] = "handshake" \/ (pc[Call(t)] = "wait" /\ Answered(t)) => Reading = {}

=============================================================================
