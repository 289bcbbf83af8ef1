--------------------------- MODULE LdapConnProofs ---------------------------
(***************************************************************************)
(* Proofs about LdapConn, for any number of calls, closers and packets and *)
(* any capacity of chanMessage.                                            *)
(***************************************************************************)
EXTENDS LdapConnProps, TLAPS

\* The names of goroutines: each is of one kind and has one name.
LEMMA ProcNames ==
  /\ \A h \in Calls : Call(h) \in Procs /\ Timer(h) \in Procs
  /\ \A x \in ReaderIds : Reader(x) \in Procs
  /\ \A c \in Closers : Closer(c) \in Procs
  /\ \A p \in Procs : \/ \E h \in Calls : p = Call(h)
                      \/ \E h \in Calls : p = Timer(h)
                      \/ \E x \in ReaderIds : p = Reader(x)
                      \/ \E c \in Closers : p = Closer(c)
  /\ Free \notin Procs
  /\ TLSCalls \subseteq ReaderIds
  /\ TLSCalls \subseteq Calls
  /\ Dialer \in ReaderIds
BY DEF Procs, Call, Timer, Reader, Closer, Free, ReaderIds, Calls

\* The kind and the name of a goroutine.
LEMMA ProcFields ==
  /\ \A h : Call(h)[1] = "call" /\ Call(h)[2] = h
  /\ \A h : Timer(h)[1] = "timer" /\ Timer(h)[2] = h
  /\ \A h : Reader(h)[1] = "reader" /\ Reader(h)[2] = h
  /\ \A h : Closer(h)[1] = "closer" /\ Closer(h)[2] = h
BY Zenon DEF Call, Timer, Reader, Closer

\* The labels of each kind of goroutine.
LEMMA ProcLabels ==
  /\ \A h : LabelsOf(Call(h)) = CallLabels
  /\ \A h : LabelsOf(Timer(h)) = TimerLabels
  /\ \A h : LabelsOf(Reader(h)) = ReaderLabels
  /\ \A h : LabelsOf(Closer(h)) = CloserLabels
BY Zenon, ProcFields DEF LabelsOf

\* A goroutine is at a label of its kind.
LEMMA Labelled ==
  ASSUME PcTyped
  PROVE  /\ \A x \in ReaderIds : pc[Reader(x)] \in ReaderLabels
         /\ \A c \in Closers : pc[Closer(c)] \in CloserLabels
<1>1. \A p \in Procs : pc[p] \in LabelsOf(p)
  BY Zenon DEF PcTyped
<1>2. ASSUME NEW x \in ReaderIds
      PROVE  pc[Reader(x)] \in ReaderLabels
  BY Zenon, <1>1, ProcNames, ProcLabels
<1>3. ASSUME NEW c \in Closers
      PROVE  pc[Closer(c)] \in CloserLabels
  BY Zenon, <1>1, ProcNames, ProcLabels
<1> QED  BY Zenon, <1>2, <1>3

\* A reader does not send finish messages, and a closer queues nothing.
LEMMA QuietLabels ==
  ASSUME PcTyped
  PROVE  /\ \A x \in ReaderIds : pc[Reader(x)] # "sendFin"
         /\ \A c \in Closers : pc[Closer(c)] \notin {"put", "putFin"}
BY Zenon, Labelled DEF ReaderLabels, CloserLabels

\* One goroutine moves.
LEMMA GotoOne ==
  ASSUME PcTyped, NEW p \in Procs, NEW l, Goto(p, l)
  PROVE  pc'[p] = l /\ \A q \in Procs : q # p => pc'[q] = pc[q]
BY Zenon DEF PcTyped, Goto

\* Who moves when one goroutine does.
LEMMA GotoCall ==
  ASSUME PcTyped, NEW h \in Calls, NEW l, Goto(Call(h), l)
  PROVE  /\ pc'[Call(h)] = l
         /\ \A k \in Calls : k # h => pc'[Call(k)] = pc[Call(k)]
         /\ \A k \in Calls : pc'[Timer(k)] = pc[Timer(k)]
         /\ \A x \in ReaderIds : pc'[Reader(x)] = pc[Reader(x)]
BY ProcNames, ProcFields DEF PcTyped, Goto

\* When a goroutine other than a call moves, no call does ...
LEMMA GotoOther ==
  ASSUME PcTyped, NEW p \in Procs, NEW l, Goto(p, l), \A h \in Calls : p # Call(h)
  PROVE  /\ pc'[p] = l
         /\ \A h \in Calls : pc'[Call(h)] = pc[Call(h)]
BY Zenon, ProcNames DEF PcTyped, Goto

\* ... and when one other than a reader moves, no reader does.
LEMMA GotoNoReader ==
  ASSUME PcTyped, NEW p \in Procs, NEW l, Goto(p, l), \A x \in ReaderIds : p # Reader(x)
  PROVE  \A x \in ReaderIds : pc'[Reader(x)] = pc[Reader(x)]
BY Zenon, ProcNames DEF PcTyped, Goto

\* When a reader moves, nobody else does.
LEMMA GotoReader ==
  ASSUME PcTyped, NEW x \in ReaderIds, NEW l, Goto(Reader(x), l)
  PROVE  /\ pc'[Reader(x)] = l
         /\ \A y \in ReaderIds : y # x => pc'[Reader(y)] = pc[Reader(y)]
         /\ \A k \in Calls : pc'[Call(k)] = pc[Call(k)] /\ pc'[Timer(k)] = pc[Timer(k)]
BY ProcNames, ProcFields DEF PcTyped, Goto

\* A call or its timer moves no reader.
LEMMA GotoCaller ==
  ASSUME PcTyped, NEW h \in Calls, NEW p \in {Call(h), Timer(h)}, NEW l, Goto(p, l)
  PROVE  \A x \in ReaderIds : pc'[Reader(x)] = pc[Reader(x)]
<1>1. \A x : Reader(x) # p
  BY ProcFields
<1>2. p \in Procs
  BY Zenon, ProcNames
<1> QED  BY Zenon, <1>1, <1>2, GotoNoReader

\* A handshake that succeeds moves the call and the reader it starts, and nobody else.
LEMMA TLSUpFrame ==
  ASSUME PcTyped, NEW h \in TLSCalls, TLSUp(h)
  PROVE  /\ pc'[Call(h)] = "finish"
         /\ \A k \in Calls : k # h => pc'[Call(k)] = pc[Call(k)]
         /\ \A k \in ReaderIds : k # h => pc'[Reader(k)] = pc[Reader(k)]
<1>1. pc' = [pc EXCEPT ![Call(h)] = "finish", ![Reader(h)] = "read"]
  BY Zenon DEF TLSUp
<1>2. Call(h) # Reader(h) /\ Call(h) \in Procs
  BY Zenon, ProcNames, ProcFields
<1>3. /\ pc'[Call(h)] = "finish"
      /\ \A q \in Procs : q # Call(h) /\ q # Reader(h) => pc'[q] = pc[q]
  BY Zenon, <1>1, <1>2 DEF PcTyped
<1>4. ASSUME NEW k \in Calls, k # h
      PROVE  pc'[Call(k)] = pc[Call(k)]
  <2>1. Call(k) \in Procs /\ Call(k) # Call(h) /\ Call(k) # Reader(h)
    BY <1>4, ProcNames, ProcFields
  <2> QED  BY Zenon, <1>3, <2>1
<1>5. ASSUME NEW k \in ReaderIds, k # h
      PROVE  pc'[Reader(k)] = pc[Reader(k)]
  <2>1. Reader(k) \in Procs /\ Reader(k) # Call(h) /\ Reader(k) # Reader(h)
    BY <1>5, ProcNames, ProcFields
  <2> QED  BY Zenon, <1>3, <2>1
<1> QED  BY Zenon, <1>3, <1>4, <1>5

\* A timer that starts moves no call and no reader.
LEMMA WriteFrame ==
  ASSUME PcTyped, WriteReturns
  PROVE  /\ \A h \in Calls : pc'[Call(h)] = pc[Call(h)]
         /\ \A x \in ReaderIds : pc'[Reader(x)] = pc[Reader(x)]
<1> DEFINE t == Timer(sending.to)
<1>1. pc' = [pc EXCEPT ![t] = "sleep"] \/ pc' = pc
  BY Zenon DEF WriteReturns
<1>2. \A p \in Procs : p # t => pc'[p] = pc[p]
  BY Zenon, <1>1 DEF PcTyped
<1>3. \A h : Call(h) # t /\ Reader(h) # t
  BY ZenonT(60), ProcFields
<1> QED  BY Zenon, <1>2, <1>3, ProcNames

\* A goroutine that moves to a label of its kind leaves pc well typed.
LEMMA GotoTyped ==
  ASSUME PcTyped, NEW p \in Procs, NEW l \in LabelsOf(p), Goto(p, l),
         messageMutex' \in Procs \cup {Free}
  PROVE  PcTyped'
<1>1. l \in Labels
  BY Zenon DEF LabelsOf, Labels
<1> QED  BY Zenon, <1>1 DEF PcTyped, Goto

\* The state Start leaves behind is well typed.
LEMMA TypeInit == Init => TypeOK
<1> SUFFICES ASSUME Init PROVE TypeOK
  BY Zenon
<1> USE DEF Init
<1>1. PcTyped
  <2>1. \A p \in Procs : pc[p] \in LabelsOf(p)
    BY ProcFields, ProcLabels DEF LabelsOf, CallLabels, TimerLabels, ReaderLabels, CloserLabels, Procs, Reader
  <2>2. \A p \in Procs : pc[p] \in Labels
    BY Zenon DEF Labels, CallLabels, TimerLabels, ReaderLabels
  <2> QED  BY Zenon, <2>1, <2>2 DEF PcTyped
<1>2. NotSending \in Sending
  BY Zenon DEF NotSending, Sending
<1>3. Malformed \in Packet
  BY DEF Malformed, Packet, Message, Msg, Ops
<1>4. ConnTyped
  BY DEF ConnTyped
<1>6. QueueTyped
  BY DEF QueueTyped
<1>7. FlagsTyped
  BY Zenon DEF FlagsTyped
<1>8. CtxTyped
  BY DEF CtxTyped
<1>5. ProcTyped /\ ReaderTyped
  BY Zenon, <1>2, <1>3 DEF ProcTyped, ReaderTyped
<1> QED
  BY Zenon, <1>1, <1>4, <1>5, <1>6, <1>7, <1>8 DEF TypeOK

\* What the processor takes off chanMessage is a message.
LEMMA HeadTyped ==
  ASSUME QueueTyped, chanMessage # <<>>
  PROVE  /\ Head(chanMessage) \in Message
         /\ Tail(chanMessage) \in Seq(Message)
BY DEF QueueTyped

\* A request at the head of chanMessage is that of a call.
LEMMA HeadRequest ==
  ASSUME QueueTyped, chanMessage # <<>>, Head(chanMessage).op = "request"
  PROVE  /\ Head(chanMessage).call \in Calls
         /\ Queued(Head(chanMessage).call)
<1>1. Head(chanMessage) \in Message
  BY Zenon, HeadTyped
<1>2. Len(chanMessage) >= 1 /\ Head(chanMessage) = chanMessage[1]
  BY DEF QueueTyped
<1>3. 1 \in At("request")
  BY <1>2 DEF At, QueueTyped
<1> QED  BY Zenon, <1>1, <1>2, <1>3 DEF Message, Queued

\* Where the messages of each kind are when one is queued ...
LEMMA AppendAt ==
  ASSUME QueueTyped, NEW m \in Message, chanMessage' = Append(chanMessage, m), NEW op
  PROVE  /\ Len(chanMessage') = Len(chanMessage) + 1
         /\ At(op)' = IF m.op = op THEN At(op) \cup {Len(chanMessage')} ELSE At(op)
         /\ chanMessage'[Len(chanMessage')] = m
         /\ \A i \in At(op) : i \in 1..Len(chanMessage) /\ chanMessage'[i] = chanMessage[i]
<1>1. /\ Len(chanMessage) \in Nat
      /\ Len(chanMessage') = Len(chanMessage) + 1
      /\ chanMessage'[Len(chanMessage) + 1] = m
      /\ \A i \in 1..Len(chanMessage) : chanMessage'[i] = chanMessage[i]
  BY DEF QueueTyped
<1>2. 1..Len(chanMessage') = (1..Len(chanMessage)) \cup {Len(chanMessage')}
  BY <1>1
<1> QED  BY ZenonT(60), <1>1, <1>2 DEF At

\* ... and when the first one is taken.
LEMMA TailAt ==
  ASSUME QueueTyped, chanMessage # <<>>, chanMessage' = Tail(chanMessage), NEW op
  PROVE  /\ \A i \in At(op)' : /\ i + 1 \in At(op) /\ i \in Nat /\ i > 0
                                /\ chanMessage'[i] = chanMessage[i + 1]
         /\ \A i \in At(op) : i # 1 => /\ i - 1 \in At(op)' /\ i \in Nat
                                        /\ chanMessage'[i - 1] = chanMessage[i]
         /\ 1 \in At(op) <=> Head(chanMessage).op = op
         /\ Head(chanMessage) = chanMessage[1]
<1>1. /\ Len(chanMessage) \in Nat /\ Len(chanMessage) > 0
      /\ Len(chanMessage') = Len(chanMessage) - 1
      /\ Head(chanMessage) = chanMessage[1]
      /\ \A i \in 1..Len(chanMessage') : chanMessage'[i] = chanMessage[i + 1]
  BY DEF QueueTyped
<1>2. \A i \in 1..Len(chanMessage') : i \in Nat /\ i > 0 /\ i + 1 \in 1..Len(chanMessage)
  BY <1>1
<1>3. \A i \in 1..Len(chanMessage) : i # 1 => /\ i - 1 \in 1..Len(chanMessage')
                                             /\ i \in Nat /\ (i - 1) + 1 = i
  BY <1>1
<1>4. 1 \in 1..Len(chanMessage)
  BY <1>1
<1>5. \A i \in At(op)' : /\ i + 1 \in At(op) /\ i \in Nat /\ i > 0
                         /\ chanMessage'[i] = chanMessage[i + 1]
  BY Zenon, <1>1, <1>2 DEF At
<1>6. ASSUME NEW i \in At(op), i # 1
      PROVE  i - 1 \in At(op)' /\ i \in Nat /\ chanMessage'[i - 1] = chanMessage[i]
  <2>1. i \in 1..Len(chanMessage) /\ chanMessage[i].op = op
    BY Zenon DEF At
  <2>2. i - 1 \in 1..Len(chanMessage') /\ i \in Nat /\ (i - 1) + 1 = i
    BY Zenon, <1>3, <1>6, <2>1
  <2>3. chanMessage'[i - 1] = chanMessage[i]
    BY Zenon, <1>1, <2>2
  <2> QED  BY Zenon, <2>1, <2>2, <2>3 DEF At
<1> QED  BY Zenon, <1>1, <1>4, <1>5, <1>6 DEF At

\* pc stays well typed: every goroutine moves to a label of its own kind.
LEMMA PcStep ==
  ASSUME TypeOK, Next
  PROVE  PcTyped'
<1> USE ProcNames
    DEF TypeOK, Move, connVars, queueVars, countVars, ctxVars, procVars, readerVars
<1>1. CASE StartAdd \/ SetTimeout \/ NetBreak
  BY Zenon, <1>1 DEF StartAdd, SetTimeout, NetBreak, PcTyped
<1>2. ASSUME NEW p \in Procs, SendStep(p)
      PROVE  PcTyped'
  <2>1. /\ pc[p] \in LabelsOf(p)
        /\ \/ p[1] = "call" /\ LabelsOf(p) = CallLabels
           \/ p[1] = "timer" /\ LabelsOf(p) = TimerLabels
           \/ p[1] = "reader" /\ LabelsOf(p) = ReaderLabels
           \/ p[1] = "closer" /\ LabelsOf(p) = CloserLabels
    BY ProcFields, ProcLabels DEF PcTyped
  <2>2. CASE SendRefused(p)
    <3>1. AfterSend(p, FALSE) \in LabelsOf(p)
      BY Zenon, <2>1, <2>2 DEF SendRefused, AfterSend, CallLabels, TimerLabels, ReaderLabels,
         CloserLabels
    <3> QED  BY Zenon, <2>2, <3>1, GotoTyped DEF SendRefused, PcTyped
  <2>3. CASE SendLock(p)
    <3>1. (IF pc[p] = "send" THEN "put" ELSE "putFin") \in LabelsOf(p)
      BY Zenon, <2>1, <2>3 DEF SendLock, CallLabels, TimerLabels, ReaderLabels, CloserLabels
    <3> QED  BY Zenon, <2>3, <3>1, GotoTyped DEF SendLock
  <2>4. CASE SendPut(p)
    <3>1. AfterSend(p, TRUE) \in LabelsOf(p)
      BY Zenon, <2>1, <2>4 DEF SendPut, AfterSend, CallLabels, TimerLabels, ReaderLabels,
         CloserLabels
    <3> QED  BY Zenon, <2>4, <3>1, GotoTyped DEF SendPut
  <2> QED  BY Zenon, <1>2, <2>2, <2>3, <2>4 DEF SendStep
<1>3. ASSUME NEW p \in Procs, CloseStep(p)
      PROVE  PcTyped'
  <2>1. pc[p] \in LabelsOf(p)
    BY Zenon DEF PcTyped
  <2>2. PICK l \in {"quit", "confirm", "wgwait", AfterClose(p)} :
               /\ pc[p] \in {"lock", "quit", "confirm", "wgwait"}
               /\ Goto(p, l)
               /\ messageMutex' \in Procs \cup {Free}
    BY Zenon, <1>3 DEF CloseStep, CloseLock, CloseQuit, CloseConfirmed, CloseWait, PcTyped
  <2>3. l \in LabelsOf(p)
    BY Zenon, <2>1, <2>2 DEF LabelsOf, AfterClose, CallLabels, TimerLabels, ReaderLabels,
       CloserLabels
  <2> QED  BY Zenon, <2>2, <2>3, GotoTyped
<1>4. ASSUME NEW h \in Calls, CallBegin(h) \/ CallStep(h)
      PROVE  PcTyped'
  <2>1. UNCHANGED messageMutex
    BY Zenon, <1>4 DEF CallBegin, CallStep, TakeID, TakeNoID, EncodeFails, CheckClosing,
       Reject, Admit, ChannelClosed, Finish, FinishCheck, Uncount
  <2>2. PICK l \in {"end", "nextID", "check", "admit", "send", "finish", "leave",
                    "uncount", "sendFin"} : Goto(Call(h), l)
    BY Zenon, <1>4 DEF CallBegin, CallStep, TakeID, TakeNoID, EncodeFails, CheckClosing,
       Reject, Admit, ChannelClosed, Finish, FinishCheck, Uncount
  <2>3. l \in LabelsOf(Call(h))
    BY Zenon, ProcLabels DEF CallLabels
  <2> QED  BY Zenon, <2>1, <2>2, <2>3, GotoTyped DEF PcTyped
<1>5. ASSUME NEW h \in Calls, TimerFires(h)
      PROVE  PcTyped'
  <2>1. "send" \in LabelsOf(Timer(h))
    BY Zenon, ProcLabels DEF TimerLabels
  <2> QED  BY Zenon, <1>5, <2>1, GotoTyped DEF TimerFires, PcTyped
<1>6. ASSUME NEW h \in TLSCalls, Handshake(h)
      PROVE  PcTyped'
  <2>1. {"finish", "lock"} \subseteq LabelsOf(Call(h)) /\ "read" \in LabelsOf(Reader(h))
    BY Zenon, ProcLabels DEF CallLabels, ReaderLabels
  <2>2. CASE TLSRefused(h) \/ TLSFails(h)
    BY Zenon, <2>1, <2>2, GotoTyped DEF TLSRefused, TLSFails, PcTyped
  <2>3. CASE TLSUp(h)
    BY Zenon, <2>1, <2>3 DEF TLSUp, PcTyped, Labels, CallLabels, ReaderLabels
  <2> QED  BY Zenon, <1>6, <2>2, <2>3 DEF Handshake
<1>7. ASSUME NEW x \in ReaderIds, Server(x) \/ ReaderStep(x)
      PROVE  PcTyped'
  <2>1. \A l \in {"mark", "lock", "storeErr", "send", "end"} : l \in LabelsOf(Reader(x))
    BY Zenon, ProcLabels DEF ReaderLabels
  <2>2. ASSUME NEW m, ReadPacket(x, m)
        PROVE  PcTyped'
    BY Zenon, <2>1, <2>2, GotoTyped DEF ReadPacket, PcTyped
  <2>3. CASE ReadBad(x)
    BY Zenon, <2>3 DEF ReadBad, PcTyped
  <2>4. CASE ReaderStep(x)
    <3>1. UNCHANGED messageMutex
      BY Zenon, <2>4 DEF ReaderStep, ReadError, StoreErr, Mark
    <3>2. PICK l \in {"lock", "storeErr", "send", "end"} : Goto(Reader(x), l)
      BY Zenon, <2>4 DEF ReaderStep, ReadError, StoreErr, Mark
    <3> QED  BY Zenon, <2>1, <3>1, <3>2, GotoTyped DEF PcTyped
  <2> QED
    BY Zenon, <1>7, <2>2, <2>3, <2>4 DEF Server, ReadResponse, ReadUnsolicited, ReadMalformed
<1>8. ASSUME NEW c \in Closers, UserClose(c)
      PROVE  PcTyped'
  <2>1. "lock" \in LabelsOf(Closer(c))
    BY Zenon, ProcLabels DEF CloserLabels
  <2> QED  BY Zenon, <1>8, <2>1, GotoTyped DEF UserClose, PcTyped
<1>9. CASE ProcessStep
  <2>1. ASSUME NEW h \in Calls, Deliver(h)
        PROVE  PcTyped'
    <3>1. PICK l \in {"finish", "handshake", "wait"} : Goto(Call(h), l)
      BY Zenon, <2>1 DEF Deliver
    <3>2. l \in LabelsOf(Call(h))
      BY Zenon, ProcLabels DEF CallLabels
    <3> QED  BY Zenon, <2>1, <3>1, <3>2, GotoTyped DEF Deliver, AfterResponse, PcTyped
  <2>2. CASE WriteReturns
    <3>1. sending.to \in Calls /\ UNCHANGED messageMutex
      BY Zenon, <2>2 DEF WriteReturns, ProcTyped
    <3>2. "sleep" \in LabelsOf(Timer(sending.to))
      BY Zenon, ProcLabels DEF TimerLabels
    <3>3. CASE requestTimeout
      BY Zenon, <2>2, <3>1, <3>2, <3>3, GotoTyped DEF WriteReturns, Goto, PcTyped
    <3>4. CASE ~requestTimeout
      BY Zenon, <2>2, <3>1, <3>4 DEF WriteReturns, PcTyped
    <3> QED  BY Zenon, <3>3, <3>4
  <2>3. CASE ProcessQuit \/ ProcessRequest \/ WriteFails \/ ProcessResponse \/ ProcessTimeout
             \/ ProcessFinish \/ ProcessUnknown \/ DrainTell \/ DrainClose
             \/ DrainEnd \/ Drop
    <3>1. UNCHANGED <<pc, messageMutex>>
      BY Zenon, <2>3 DEF ProcessQuit, ProcessRequest, WriteFails, ProcessResponse, ProcessTimeout,
         ProcessFinish, ProcessUnknown, DrainTell, DrainClose, DrainEnd, Drop,
         Receive, AfterResponse
    <3> QED  BY Zenon, <3>1 DEF PcTyped
  <2> QED  BY Zenon, <1>9, <2>1, <2>2, <2>3 DEF ProcessStep
<1> QED
  BY Zenon, <1>1, <1>2, <1>3, <1>4, <1>5, <1>6, <1>7, <1>8, <1>9 DEF Next

\* What sendProcessMessage puts on chanMessage is never a quit message.
LEMMA OutgoingTyped ==
  ASSUME TypeOK, NEW p \in Procs, pc[p] \in {"put", "putFin"}
  PROVE  /\ Outgoing(p) \in Message
         /\ Outgoing(p).op # "quit"
         /\ Outgoing(p).op = "request" =>
              \E h \in Calls : p = Call(h) /\ pc[p] = "put" /\ Outgoing(p).call = h
<1>1. CASE \E h \in Calls : p = Call(h) \/ p = Timer(h)
  BY <1>1, ProcFields DEF TypeOK, CtxTyped, Outgoing, Msg, Message, Ops
<1>2. CASE \E x \in ReaderIds : p = Reader(x)
  <2>1. PICK x \in ReaderIds : p = Reader(x)
    BY Zenon, <1>2
  <2>2. Outgoing(p) = packet[x]
    BY Zenon, <2>1, ProcFields DEF Outgoing
  <2>3. packet[x] \in Packet
    BY Zenon DEF TypeOK, ReaderTyped
  <2> QED  BY Zenon, <2>2, <2>3 DEF Packet
<1>3. CASE \E c \in Closers : p = Closer(c)
  <2>1. pc[p] \in CloserLabels
    BY ZenonT(60), <1>3, ProcNames, ProcLabels DEF TypeOK, PcTyped
  <2> QED  BY Zenon, <2>1 DEF CloserLabels
<1> QED  BY Zenon, <1>1, <1>2, <1>3, ProcNames

\* The part of TypeOK that is not about pc.
DataTyped ==
  /\ FlagsTyped /\ ConnTyped /\ QueueTyped /\ CtxTyped /\ ProcTyped /\ ReaderTyped

\* The other variables stay well typed.
LEMMA DataStep ==
  ASSUME TypeOK, Next
  PROVE  DataTyped'
<1> USE DEF TypeOK, DataTyped, FlagsTyped, ConnTyped, QueueTyped, CtxTyped,
            ProcTyped, ReaderTyped, connVars, queueVars, countVars, ctxVars,
            procVars, readerVars, Move
<1>1. CASE StartAdd
  BY <1>1 DEF StartAdd
<1>10. CASE SetTimeout
  BY ZenonT(60), <1>10 DEF SetTimeout
<1>11. CASE NetBreak
  BY ZenonT(60), <1>11 DEF NetBreak
<1>2. ASSUME NEW p \in Procs, SendStep(p)
      PROVE  DataTyped'
  <2>1. CASE SendRefused(p)
    BY ZenonT(60), <2>1 DEF SendRefused
  <2>3. CASE SendLock(p)
    BY ZenonT(60), <2>3 DEF SendLock
  <2>2. CASE SendPut(p)
    <3>1. Outgoing(p) \in Message /\ (Outgoing(p).op = "request" => p[2] \in Calls)
      BY <2>2, OutgoingTyped, ProcFields DEF SendPut
    <3>2. QueueTyped'
      BY <2>2, <3>1 DEF SendPut
    <3> QED  BY ZenonT(60), <2>2, <3>2 DEF SendPut
  <2> QED  BY Zenon, <1>2, <2>1, <2>2, <2>3 DEF SendStep
<1>3. ASSUME NEW p \in Procs, CloseStep(p)
      PROVE  DataTyped'
  <2>1. CASE CloseLock(p)
    BY ZenonT(60), <2>1 DEF CloseLock
  <2>4. CASE CloseWait(p)
    BY ZenonT(60), <2>4 DEF CloseWait
  <2>2. CASE CloseQuit(p)
    BY <2>2 DEF CloseQuit, Quit, Msg, Message, Ops
  <2>3. CASE CloseConfirmed(p)
    BY <2>3 DEF CloseConfirmed
  <2> QED  BY Zenon, <1>3, <2>1, <2>2, <2>3, <2>4 DEF CloseStep
<1>4. ASSUME NEW h \in Calls, CallBegin(h) \/ CallStep(h) \/ TimerFires(h)
      PROVE  DataTyped'
  <2>1. CASE CallBegin(h) \/ EncodeFails(h) \/ CheckClosing(h) \/ Reject(h)
             \/ ChannelClosed(h) \/ FinishCheck(h) \/ TimerFires(h)
    <3>1. CASE CallBegin(h)
      BY ZenonT(60), <3>1 DEF CallBegin
    <3>2. CASE EncodeFails(h)
      BY ZenonT(60), <3>2 DEF EncodeFails
    <3>3. CASE CheckClosing(h)
      BY ZenonT(60), <3>3 DEF CheckClosing
    <3>4. CASE Reject(h)
      BY ZenonT(60), <3>4 DEF Reject
    <3>5. CASE ChannelClosed(h)
      BY ZenonT(60), <3>5 DEF ChannelClosed
    <3>6. CASE FinishCheck(h)
      BY ZenonT(60), <3>6 DEF FinishCheck
    <3>7. CASE TimerFires(h)
      BY ZenonT(60), <3>7 DEF TimerFires
    <3> QED  BY Zenon, <2>1, <3>1, <3>2, <3>3, <3>4, <3>5, <3>6, <3>7
  <2>2. CASE TakeID(h) \/ TakeNoID(h)
    BY <2>2 DEF TakeID, TakeNoID
  <2>3. CASE Admit(h)
    BY <2>3 DEF Admit
  <2>4. CASE Finish(h)
    BY ZenonT(60), <2>4 DEF Finish
  <2>5. CASE Uncount(h)
    <3>1. FlagsTyped'
      BY Zenon, <2>5 DEF Uncount
    <3>2. ConnTyped'
      BY <2>5 DEF Uncount
    <3> QED  BY Zenon, <2>5, <3>1, <3>2 DEF Uncount
  <2> QED  BY Zenon, <1>4, <2>1, <2>2, <2>3, <2>4, <2>5 DEF CallStep
<1>5. ASSUME NEW h \in TLSCalls, Handshake(h)
      PROVE  DataTyped'
  <2>1. CASE TLSRefused(h)
    BY ZenonT(60), <2>1 DEF TLSRefused
  <2>2. CASE TLSFails(h)
    BY ZenonT(60), <2>2 DEF TLSFails
  <2>3. CASE TLSUp(h)
    BY ZenonT(60), <2>3 DEF TLSUp
  <2> QED  BY Zenon, <1>5, <2>1, <2>2, <2>3 DEF Handshake
<1>6. ASSUME NEW x \in ReaderIds, Server(x)
      PROVE  DataTyped'
  <2>1. ASSUME NEW m \in Packet, ReadPacket(x, m)
        PROVE  DataTyped'
    BY <2>1 DEF ReadPacket
  <2>2. CASE ReadBad(x)
    BY <2>2 DEF ReadBad
  <2>3. \A h \in Calls \cup {NoCall}, i \in Int, more \in BOOLEAN :
          Msg("response", i, h, more) \in Packet
    BY Zenon DEF Msg, Packet, Message, Ops
  <2>4. CASE ReadResponse(x)
    <3>1. PICK h \in written, more \in BOOLEAN :
                 ReadPacket(x, Msg("response", id[h], h, more))
      BY Zenon, <2>4 DEF ReadResponse
    <3> QED  BY Zenon, <2>1, <2>3, <3>1
  <2>5. CASE ReadUnsolicited(x)
    <3>1. Msg("response", 0, NoCall, FALSE) \in Packet
      BY DEF Msg, Packet, Message, Ops
    <3> QED  BY Zenon, <2>1, <2>5, <3>1 DEF ReadUnsolicited
  <2>6. CASE ReadMalformed(x)
    <3>1. Malformed \in Packet
      BY DEF Malformed, Msg, Packet, Message, Ops
    <3> QED  BY Zenon, <2>1, <2>6, <3>1 DEF ReadMalformed
  <2> QED
    BY Zenon, <1>6, <2>2, <2>4, <2>5, <2>6 DEF Server
<1>7. ASSUME NEW x \in ReaderIds, ReaderStep(x)
      PROVE  DataTyped'
  <2>1. CASE ReadError(x)
    BY ZenonT(60), <2>1 DEF ReadError
  <2>2. CASE StoreErr(x)
    BY ZenonT(60), <2>2 DEF StoreErr
  <2>3. CASE Mark(x)
    BY ZenonT(60), <2>3 DEF Mark
  <2> QED  BY Zenon, <1>7, <2>1, <2>2, <2>3 DEF ReaderStep
<1>8. ASSUME NEW c \in Closers, UserClose(c)
      PROVE  DataTyped'
  BY ZenonT(60), <1>8 DEF UserClose
<1>9. CASE ProcessStep
  <2> USE DEF Receive, SendResponse, Registered, Sending, Message
  <2>13. ASSUME AfterResponse
         PROVE  DataTyped'
    <3>1. NotSending \in Sending
      BY Zenon DEF NotSending
    <3>4. responses' = responses \/ responses' = [responses EXCEPT ![sending.to] = "closed"]
      BY Zenon, <2>13 DEF AfterResponse
    <3>2. CtxTyped'
      <4>1. UNCHANGED <<id, done>>
        BY Zenon, <2>13 DEF AfterResponse
      <4> QED  BY Zenon, <3>4, <4>1
    <3>3. ProcTyped'
      BY ZenonT(60), <2>13, <3>1 DEF AfterResponse
    <3> QED  BY ZenonT(60), <2>13, <3>2, <3>3 DEF AfterResponse
  <2>1. ASSUME NEW h \in Calls, Deliver(h)
        PROVE  DataTyped'
    BY Zenon, <2>1, <2>13 DEF Deliver
  <2>2. CASE Drop
    BY Zenon, <2>2, <2>13 DEF Drop
  <2>3. CASE ProcessQuit
    BY <2>3 DEF ProcessQuit
  <2>9. CASE ProcessFinish
    BY <2>9 DEF ProcessFinish
  <2>10. CASE ProcessUnknown
    BY <2>10 DEF ProcessUnknown
  <2>4. CASE ProcessRequest
    <3>1. Head(chanMessage).call \in Calls
      BY Zenon, <2>4, HeadRequest DEF ProcessRequest
    <3>2. /\ sending' = [NotSending EXCEPT !.to = Head(chanMessage).call] /\ ppc' = "write"
          /\ written' = written \cup {Head(chanMessage).call}
          /\ UNCHANGED <<messageID, messageContexts>>
      BY Zenon, <2>4 DEF ProcessRequest
    <3>3. sending' \in Sending /\ sending'.to \in Calls
      BY Zenon, <3>1, <3>2 DEF NotSending
    <3>4. ProcTyped'
      BY Zenon, <3>1, <3>2, <3>3
    <3>5. UNCHANGED <<connVars, queueClosed, accepted, countVars, ctxVars, readerVars>>
      BY Zenon, <2>4 DEF ProcessRequest
    <3>6. QueueTyped'
      BY Zenon, <2>4, <3>5, HeadTyped DEF ProcessRequest
    <3> QED  BY Zenon, <3>4, <3>5, <3>6
  <2>14. CASE WriteReturns
    BY <2>14 DEF WriteReturns, NotSending
  <2>5. CASE WriteFails
    BY <2>5 DEF WriteFails
  <2>6. CASE ProcessResponse
    BY <2>6 DEF ProcessResponse
  <2>7. CASE ProcessTimeout
    BY <2>7 DEF ProcessTimeout
  <2>8. CASE DrainTell
    BY <2>8 DEF DrainTell
  <2>11. CASE DrainClose
    BY <2>11 DEF DrainClose
  <2>12. CASE DrainEnd
    BY <2>12 DEF DrainEnd
  <2> QED
    BY Zenon, <1>9, <2>1, <2>2, <2>3, <2>4, <2>5, <2>6, <2>7, <2>8, <2>9, <2>10, <2>11,
       <2>12, <2>14 DEF ProcessStep
<1> QED
  BY Zenon, <1>1, <1>2, <1>3, <1>4, <1>5, <1>6, <1>7, <1>8, <1>9, <1>10, <1>11 DEF Next

\* Every step keeps every variable well typed.
LEMMA TypeStep == TypeOK /\ [Next]_vars => TypeOK'
<1> SUFFICES ASSUME TypeOK, [Next]_vars PROVE TypeOK'
  BY Zenon
<1>1. CASE Next
  BY Zenon, <1>1, PcStep, DataStep DEF TypeOK, DataTyped
<1>2. CASE UNCHANGED vars
  BY <1>2 DEF vars, connVars, queueVars, countVars, ctxVars, procVars, readerVars,
     TypeOK, PcTyped, FlagsTyped, ConnTyped, QueueTyped, CtxTyped, ProcTyped,
     ReaderTyped
<1> QED  BY Zenon, <1>1, <1>2

\* TypeOK holds in every behaviour, for any calls, closers, packets and any
\* capacity of chanMessage.
THEOREM TypeCorrect == Spec => []TypeOK
BY TypeInit, TypeStep, PTL DEF Spec

-----------------------------------------------------------------------------
\* No goroutine takes or gives up the mutex.
PcQuiet ==
  \A p \in Procs : pc'[p] = pc[p] \/ (pc[p] \notin Holding /\ pc'[p] \notin Holding)

\* A goroutine that does not hold the mutex moves to where it does not need it.
LEMMA GotoQuiet ==
  ASSUME PcTyped, NEW p \in Procs, NEW l, Goto(p, l),
         pc[p] \notin Holding, l \notin Holding
  PROVE  PcQuiet
BY Zenon DEF PcTyped, Goto, PcQuiet

\* Only goroutines in Close, sendProcessMessage and the processor touch the
\* state of the shutdown.
LEMMA QuietShutdown ==
  ASSUME ShutdownInv, PcQuiet,
         UNCHANGED <<messageMutex, closing, queueClosed, chanMessage, ppc, sending>>
  PROVE  ShutdownInv'
BY ZenonT(60) DEF ShutdownInv, PcQuiet, MutexOwner, QuitIsLast, At, Holding, CloseHolds

\* Nobody holds the mutex and no shutdown is under way after Start.
LEMMA ShutdownInit == Init => ShutdownInv
<1> SUFFICES ASSUME Init PROVE ShutdownInv
  BY Zenon
<1>1. \A p \in Procs : pc[p] \in {"read", "idle", "off"}
  BY Zenon DEF Init
<1>2. chanMessage = <<>> /\ messageMutex = Free /\ ppc = "select"
  BY Zenon DEF Init
<1>3. ~closing /\ ~queueClosed
  BY Zenon DEF Init
<1>4. At("quit") = {}
  BY <1>2 DEF At
<1> QED
  BY Zenon, <1>1, <1>2, <1>3, <1>4, ProcNames
  DEF ShutdownInv, MutexOwner, QuitIsLast, Holding, CloseHolds

\* sendProcessMessage queues nothing once the closing flag is set.
LEMMA ShutdownSend ==
  ASSUME IInv, NEW p \in Procs, SendStep(p)
  PROVE  ShutdownInv'
<1> USE DEF IInv, TypeOK, connVars, queueVars, countVars, ctxVars, procVars, readerVars
<1>1. CASE SendRefused(p)
  <2>1. AfterSend(p, FALSE) \in {"wait", "lock", "end"}
    BY Zenon DEF AfterSend
  <2>2. PcQuiet
    BY Zenon, <1>1, <2>1, GotoQuiet DEF SendRefused, Move, Holding, CloseHolds
  <2> QED  BY Zenon, <1>1, <2>2, QuietShutdown DEF SendRefused, Move
<1>2. CASE SendLock(p)
  BY ZenonT(60), <1>2, ProcNames DEF SendLock, Goto, PcTyped, ShutdownInv, MutexOwner, QuitIsLast, At,
     Holding, CloseHolds
<1>3. CASE SendPut(p)
  <2>1. AfterSend(p, TRUE) \in {"wait", "read", "end"}
    BY Zenon DEF AfterSend
  <2>2. Outgoing(p) \in Message /\ Outgoing(p).op # "quit"
    BY Zenon, <1>3, OutgoingTyped DEF SendPut
  <2>3. ~closing /\ messageMutex = p
    BY Zenon, <1>3 DEF SendPut, ShutdownInv, MutexOwner, Holding
  <2>4. At("quit") = {}
    BY Zenon, <2>3 DEF ShutdownInv, QuitIsLast
  <2>6. At("quit")' = {}
    BY ZenonT(60), <1>3, <2>2, <2>4, AppendAt DEF SendPut
  <2>5. \A q \in Procs : pc'[q] \notin Holding
    BY Zenon, <1>3, <2>1, <2>3 DEF SendPut, Goto, PcTyped, ShutdownInv, MutexOwner, Holding, CloseHolds
  <2> QED
    BY Zenon, <1>3, <2>3, <2>5, <2>6, ProcNames
    DEF SendPut, ShutdownInv, MutexOwner, QuitIsLast, Holding, CloseHolds
<1> QED  BY Zenon, <1>1, <1>2, <1>3 DEF SendStep

\* Close queues one quit message and closes chanMessage after it was taken.
LEMMA ShutdownClose ==
  ASSUME IInv, NEW p \in Procs, CloseStep(p)
  PROVE  ShutdownInv'
<1> USE DEF IInv, TypeOK, connVars, queueVars, countVars, ctxVars, procVars, readerVars
<1>1. CASE CloseLock(p)
  BY ZenonT(60), <1>1, ProcNames DEF CloseLock, Goto, PcTyped, ShutdownInv, MutexOwner, QuitIsLast, At,
     Holding, CloseHolds
<1>2. CASE CloseQuit(p)
  <2>3. At("quit") = {}
    BY Zenon, <1>2 DEF CloseQuit, ShutdownInv
  <2>4. Quit \in Message /\ Quit.op = "quit"
    BY DEF Quit, Msg, Message, Ops
  <2>5. At("quit")' = At("quit") \cup {Len(chanMessage')}
    BY ZenonT(60), <1>2, <2>4, AppendAt DEF CloseQuit
  <2>1. \A i \in At("quit")' : i = Len(chanMessage')
    BY Zenon, <2>3, <2>5
  <2>2. closing /\ messageMutex = p
    BY Zenon, <1>2 DEF CloseQuit, ShutdownInv, MutexOwner, Holding, CloseHolds
  <2> QED
    BY Zenon, <1>2, <2>1, <2>2 DEF CloseQuit, Goto, PcTyped, ShutdownInv, MutexOwner, QuitIsLast,
       Holding, CloseHolds
<1>3. CASE CloseConfirmed(p)
  BY Zenon, <1>3 DEF CloseConfirmed, Goto, PcTyped, ShutdownInv, MutexOwner, QuitIsLast, At,
     Holding, CloseHolds
<1>4. CASE CloseWait(p)
  <2>1. AfterClose(p) \notin Holding
    BY Zenon DEF AfterClose, Holding, CloseHolds
  <2> QED
    BY ZenonT(60), <1>4, <2>1, ProcNames DEF CloseWait, Goto, PcTyped, ShutdownInv, MutexOwner,
       QuitIsLast, At, Holding, CloseHolds
<1> QED  BY Zenon, <1>1, <1>2, <1>3, <1>4 DEF CloseStep

\* The steps in which no goroutine takes or gives up the mutex, closes or uses
\* chanMessage, and the processor does not move.
LEMMA QuietStep ==
  ASSUME TypeOK, CallInv,
         \/ StartAdd \/ SetTimeout \/ NetBreak
         \/ \E h \in Calls : CallBegin(h) \/ CallStep(h) \/ TimerFires(h)
         \/ \E h \in TLSCalls : Handshake(h)
         \/ \E x \in ReaderIds : Server(x) \/ ReaderStep(x)
         \/ \E c \in Closers : UserClose(c)
  PROVE  /\ PcQuiet
         /\ UNCHANGED <<messageMutex, closing, queueClosed, chanMessage, accepted,
                        ppc, sending, messageContexts, responses, written>>
<1> DEFINE Kept == UNCHANGED <<messageMutex, closing, queueClosed, chanMessage, accepted,
                               ppc, sending, messageContexts, responses, written>>
<1> USE ProcNames, GotoQuiet
    DEF TypeOK, Move, Holding, CloseHolds, connVars, queueVars, countVars, ctxVars,
        procVars, readerVars
<1>1. CASE StartAdd \/ SetTimeout \/ NetBreak
  BY Zenon, <1>1 DEF StartAdd, SetTimeout, NetBreak, PcQuiet
<1>2. ASSUME NEW h \in Calls, CallBegin(h) \/ CallStep(h) \/ TimerFires(h)
      PROVE  PcQuiet /\ Kept
  <2>1. Kept
    BY Zenon, <1>2 DEF CallBegin, CallStep, TakeID, TakeNoID, EncodeFails, CheckClosing,
       Reject, Admit, ChannelClosed, Finish, FinishCheck, Uncount, TimerFires
  <2>2. PICK p \in Procs, l \in {"end", "nextID", "check", "admit", "send", "finish",
                                 "leave", "uncount", "sendFin"} :
               pc[p] \notin Holding /\ Goto(p, l)
    BY Zenon, <1>2 DEF CallBegin, CallStep, TakeID, TakeNoID, EncodeFails, CheckClosing,
       Reject, Admit, ChannelClosed, Finish, FinishCheck, Uncount, TimerFires
  <2> QED  BY Zenon, <2>1, <2>2
<1>3. ASSUME NEW h \in TLSCalls, Handshake(h)
      PROVE  PcQuiet /\ Kept
  <2>1. CASE TLSRefused(h) \/ TLSFails(h)
    BY Zenon, <2>1 DEF TLSRefused, TLSFails
  <2>2. CASE TLSUp(h)
    BY Zenon, <2>2 DEF TLSUp, CallInv, PcQuiet, PcTyped
  <2> QED  BY Zenon, <1>3, <2>1, <2>2 DEF Handshake
<1>4. ASSUME NEW x \in ReaderIds, Server(x)
      PROVE  PcQuiet /\ Kept
  <2>1. ASSUME NEW m, ReadPacket(x, m)
        PROVE  PcQuiet /\ Kept
    BY Zenon, <2>1 DEF ReadPacket
  <2>2. CASE ReadBad(x)
    BY Zenon, <2>2 DEF ReadBad, PcQuiet
  <2> QED
    BY Zenon, <1>4, <2>1, <2>2 DEF Server, ReadResponse, ReadUnsolicited, ReadMalformed
<1>5. ASSUME NEW x \in ReaderIds, ReaderStep(x)
      PROVE  PcQuiet /\ Kept
  <2>1. Kept
    BY Zenon, <1>5 DEF ReaderStep, ReadError, StoreErr, Mark
  <2>2. PICK l \in {"lock", "storeErr", "send", "end"} :
               pc[Reader(x)] \notin Holding /\ Goto(Reader(x), l)
    BY Zenon, <1>5 DEF ReaderStep, ReadError, StoreErr, Mark
  <2> QED  BY Zenon, <2>1, <2>2
<1>6. ASSUME NEW c \in Closers, UserClose(c)
      PROVE  PcQuiet /\ Kept
  BY Zenon, <1>6 DEF UserClose
<1> QED  BY Zenon, <1>1, <1>2, <1>3, <1>4, <1>5, <1>6

\* The processor leaves its loop at the quit message, with an empty queue.
LEMMA ShutdownProcess ==
  ASSUME IInv, ProcessStep
  PROVE  ShutdownInv'
<1> USE DEF IInv, TypeOK, connVars, queueVars, countVars, ctxVars, procVars, readerVars
<1>1. ASSUME chanMessage # <<>>, chanMessage' = Tail(chanMessage), ppc = "select",
             UNCHANGED <<messageMutex, closing, queueClosed>>, PcQuiet,
             \/ Head(chanMessage).op = "quit" /\ ppc' = "drain" /\ UNCHANGED sending
             \/ Head(chanMessage).op # "quit" /\ ppc' = "send" /\ sending'.then # "drain"
             \/ Head(chanMessage).op # "quit" /\ ppc' = "write"
             \/ Head(chanMessage).op # "quit" /\ UNCHANGED <<ppc, sending>>
      PROVE  ShutdownInv'
  <2>1. /\ Len(chanMessage') = Len(chanMessage) - 1
        /\ Len(chanMessage) \in Nat /\ Len(chanMessage) >= 1
        /\ Head(chanMessage) = chanMessage[1]
    BY <1>1 DEF QueueTyped
  <2>2. /\ \A i \in At("quit")' : i = Len(chanMessage') /\ closing
        /\ At("quit") = {} => At("quit")' = {}
    <3>1. \A i \in At("quit")' : i + 1 \in At("quit") /\ i \in Nat
      BY Zenon, <1>1, TailAt
    <3> QED  BY <2>1, <3>1 DEF ShutdownInv, QuitIsLast
  <2>3. CASE Head(chanMessage).op = "quit"
    <3>1. 1 \in At("quit")
      BY Zenon, <1>1, <2>3, TailAt
    <3>2. closing /\ chanMessage' = <<>>
      BY <1>1, <2>1, <3>1 DEF ShutdownInv, QuitIsLast, QueueTyped
    <3> QED
      BY Zenon, <1>1, <2>2, <2>3, <3>1, <3>2 DEF ShutdownInv, MutexOwner, QuitIsLast, PcQuiet,
         Holding, CloseHolds
  <2>4. CASE Head(chanMessage).op # "quit"
    BY Zenon, <1>1, <2>2, <2>4 DEF ShutdownInv, MutexOwner, QuitIsLast, PcQuiet, Holding, CloseHolds
  <2> QED  BY Zenon, <2>3, <2>4
<1>2. CASE ProcessQuit
  BY Zenon, <1>1, <1>2 DEF ProcessQuit, Receive, PcQuiet
<1>3. CASE ProcessRequest
  BY Zenon, <1>1, <1>3 DEF ProcessRequest, Receive, PcQuiet
<1>15. CASE WriteReturns
  <2>1. sending.to \in Calls /\ pc[Timer(sending.to)] = "off"
    BY Zenon, <1>15 DEF WriteReturns, OwnerInv, ProcTyped
  <2>2. PcQuiet
    BY Zenon, <1>15, <2>1, ProcNames DEF WriteReturns, PcTyped, PcQuiet, Holding, CloseHolds
  <2> QED
    BY ZenonT(60), <1>15, <2>2 DEF WriteReturns, ShutdownInv, MutexOwner, QuitIsLast, PcQuiet, At,
       Holding, CloseHolds
<1>4. CASE WriteFails
  BY ZenonT(60), <1>4 DEF WriteFails, SendResponse, ShutdownInv, MutexOwner, QuitIsLast, At, Holding,
     CloseHolds
<1>5. CASE ProcessResponse
  BY <1>1, <1>5 DEF ProcessResponse, Receive, SendResponse, PcQuiet
<1>6. CASE ProcessTimeout
  BY <1>1, <1>6 DEF ProcessTimeout, Receive, SendResponse, PcQuiet
<1>7. CASE ProcessFinish
  BY Zenon, <1>1, <1>7 DEF ProcessFinish, Receive, PcQuiet
<1>8. CASE ProcessUnknown
  BY Zenon, <1>1, <1>8 DEF ProcessUnknown, Receive, PcQuiet
<1>9. ASSUME PcQuiet, AfterResponse, ppc = "send"
      PROVE  ShutdownInv'
  BY ZenonT(60), <1>9 DEF AfterResponse, ShutdownInv, MutexOwner, QuitIsLast, PcQuiet, At, Holding,
     CloseHolds
<1>10. ASSUME NEW h \in Calls, Deliver(h)
       PROVE  ShutdownInv'
  <2>1. PICK l \in {"finish", "handshake", "wait"} : Goto(Call(h), l)
    BY Zenon, <1>10 DEF Deliver
  <2>2. PcQuiet
    BY Zenon, <1>10, <2>1, ProcNames, GotoQuiet DEF Deliver, Holding, CloseHolds
  <2> QED  BY Zenon, <1>9, <1>10, <2>2 DEF Deliver
<1>11. CASE Drop
  BY Zenon, <1>9, <1>11 DEF Drop, PcQuiet
<1>12. CASE DrainTell
  BY Zenon, <1>12 DEF DrainTell, SendResponse, ShutdownInv, MutexOwner, QuitIsLast, At, Holding,
     CloseHolds
<1>13. CASE DrainClose
  BY Zenon, <1>13 DEF DrainClose, ShutdownInv, MutexOwner, QuitIsLast, At, Holding, CloseHolds
<1>14. CASE DrainEnd
  BY Zenon, <1>14 DEF DrainEnd, ShutdownInv, MutexOwner, QuitIsLast, At, Holding, CloseHolds
<1> QED
  BY Zenon, <1>2, <1>3, <1>4, <1>5, <1>6, <1>7, <1>8, <1>10, <1>11, <1>12, <1>13, <1>14, <1>15
  DEF ProcessStep

-----------------------------------------------------------------------------
\* A reader that reaches sendProcessMessage holds a response: one whose message
\* ID is no integer panicked before.
LEMMA PacketStep ==
  ASSUME IInv, Next
  PROVE  PacketInv'
<1> USE ProcNames, ProcFields
    DEF IInv, TypeOK, PcTyped, PacketInv, Goto, Move, connVars, queueVars, countVars,
        ctxVars, procVars, readerVars
<1>1. CASE StartAdd \/ SetTimeout \/ NetBreak
  BY ZenonT(60), <1>1 DEF StartAdd, SetTimeout, NetBreak
<1>2. ASSUME NEW p \in Procs, SendStep(p)
      PROVE  PacketInv'
  <2>1. /\ UNCHANGED packet
        /\ \A q \in Procs : pc'[q] \in {"send", "put"} =>
             pc[q] \in {"send", "put"} \/ (q = p /\ pc[q] = "sendFin")
    BY <1>2 DEF SendStep, SendRefused, SendLock, SendPut, AfterSend
  <2>2. \A x \in ReaderIds : pc[Reader(x)] # "sendFin"
    BY Zenon, QuietLabels
  <2> QED  BY Zenon, <2>1, <2>2
<1>3. ASSUME NEW p \in Procs, CloseStep(p)
      PROVE  PacketInv'
  BY ZenonT(60), <1>3 DEF CloseStep, CloseLock, CloseQuit, CloseConfirmed, CloseWait, AfterClose
<1>4. ASSUME NEW h \in Calls, CallBegin(h) \/ CallStep(h) \/ TimerFires(h)
      PROVE  PacketInv'
  <2>1. UNCHANGED packet
    BY Zenon, <1>4 DEF CallBegin, CallStep, TakeID, TakeNoID, EncodeFails, CheckClosing,
       Reject, Admit, ChannelClosed, Finish, FinishCheck, Uncount, TimerFires
  <2>2. PICK p \in {Call(h), Timer(h)} : \E l : Goto(p, l)
    BY ZenonT(60), <1>4 DEF CallBegin, CallStep, TakeID, TakeNoID, EncodeFails, CheckClosing,
       Reject, Admit, ChannelClosed, Finish, FinishCheck, Uncount, TimerFires
  <2>3. \A x \in ReaderIds : pc'[Reader(x)] = pc[Reader(x)]
    <3>1. PICK l : Goto(p, l)
      BY Zenon, <2>2
    <3> QED  BY ZenonT(60), <3>1, GotoCaller
  <2> QED  BY Zenon, <2>1, <2>3
<1>5. ASSUME NEW h \in TLSCalls, Handshake(h)
      PROVE  PacketInv'
  BY ZenonT(60), <1>5 DEF Handshake, TLSRefused, TLSFails, TLSUp
<1>6. ASSUME NEW x \in ReaderIds, Server(x)
      PROVE  PacketInv'
  <2>1. ASSUME NEW m, ReadPacket(x, m)
        PROVE  PacketInv'
    BY Zenon, <2>1 DEF ReadPacket, ReaderTyped
  <2>2. CASE ReadBad(x)
    BY Zenon, <2>2 DEF ReadBad
  <2> QED
    BY Zenon, <1>6, <2>1, <2>2 DEF Server, ReadResponse, ReadUnsolicited, ReadMalformed
<1>7. ASSUME NEW x \in ReaderIds, ReaderStep(x)
      PROVE  PacketInv'
  <2>1. UNCHANGED packet /\ packet[x].op \in {"response", "malformed"}
    BY Zenon, <1>7 DEF ReaderStep, ReadError, StoreErr, Mark, ReaderTyped, Packet
  <2>2. ASSUME NEW l, Goto(Reader(x), l), l \in {"send", "put"} => packet[x].op # "malformed"
        PROVE  PacketInv'
    BY Zenon, <2>1, <2>2, GotoReader
  <2>3. CASE ReadError(x)
    BY Zenon, <2>2, <2>3 DEF ReadError
  <2>4. CASE StoreErr(x)
    BY Zenon, <2>2, <2>4 DEF StoreErr
  <2>5. CASE Mark(x)
    BY Zenon, <2>2, <2>5 DEF Mark
  <2> QED  BY Zenon, <1>7, <2>3, <2>4, <2>5 DEF ReaderStep
<1>8. ASSUME NEW c \in Closers, UserClose(c)
      PROVE  PacketInv'
  BY Zenon, <1>8 DEF UserClose
<1>9. CASE ProcessStep
  <2>1. ASSUME NEW h \in Calls, Deliver(h)
        PROVE  PacketInv'
    BY Zenon, <2>1 DEF Deliver, AfterResponse
  <2>2. CASE WriteReturns
    <3>1. UNCHANGED packet
      BY Zenon, <2>2 DEF WriteReturns
    <3> QED  BY Zenon, <2>2, <3>1, WriteFrame
  <2>3. CASE ProcessQuit \/ ProcessRequest \/ WriteFails \/ ProcessResponse \/ ProcessTimeout
             \/ ProcessFinish \/ ProcessUnknown \/ DrainTell \/ DrainClose
             \/ DrainEnd \/ Drop
    BY ZenonT(60), <2>3 DEF ProcessQuit, ProcessRequest, WriteFails, ProcessResponse, ProcessTimeout,
       ProcessFinish, ProcessUnknown, DrainTell, DrainClose, DrainEnd, Drop,
       Receive, AfterResponse
  <2> QED  BY Zenon, <1>9, <2>1, <2>2, <2>3 DEF ProcessStep
<1> QED
  BY Zenon, <1>1, <1>2, <1>3, <1>4, <1>5, <1>6, <1>7, <1>8, <1>9 DEF Next

\* Labels of a call that is in finishMessage, or past it.
Finishing == {"finish", "leave", "uncount", "sendFin", "putFin", "end"}

\* CallInv of one call, from its label.
CallFits(h, l, acc, told) ==
  /\ acc => l \in Sent
  /\ l \in {"handshake", "lock"} \cup CloseHolds => h \in TLSCalls
  /\ l \in {"leave", "uncount", "sendFin", "putFin"} => told
  /\ acc /\ l = "end" => told

\* CallInv in terms of CallFits.
LEMMA CallInvFits ==
  CallInv <=> /\ \A h \in Calls : CallFits(h, pc[Call(h)], h \in accepted, done[h])
              /\ \A h \in TLSCalls : pc[Reader(h)] # "off" => pc[Call(h)] \in Finishing
BY Zenon DEF CallInv, CallFits, Finishing

\* A call that moves to a label that fits what it has done keeps CallInv.
LEMMA CallMove ==
  ASSUME PcTyped, CallInv, NEW h \in Calls, NEW l, Goto(Call(h), l),
         \A k \in Calls : k # h => (k \in accepted' <=> k \in accepted) /\ done'[k] = done[k],
         CallFits(h, l, h \in accepted', done'[h]),
         pc[Call(h)] \in Finishing => l \in Finishing
  PROVE  CallInv'
<1>1. ASSUME NEW k \in Calls
      PROVE  CallFits(k, pc'[Call(k)], k \in accepted', done'[k])
  <2>1. CASE k = h
    BY Zenon, <2>1, GotoCall
  <2>2. CASE k # h
    <3>1. CallFits(k, pc[Call(k)], k \in accepted, done[k])
      BY Zenon DEF CallInv, CallFits
    <3> QED  BY Zenon, <2>2, <3>1, GotoCall DEF CallFits
  <2> QED  BY Zenon, <2>1, <2>2
<1>2. ASSUME NEW k \in TLSCalls, pc'[Reader(k)] # "off"
      PROVE  pc'[Call(k)] \in Finishing
  <2>1. k \in Calls /\ k \in ReaderIds
    BY Zenon, ProcNames
  <2>2. pc[Call(k)] \in Finishing
    BY Zenon, <1>2, <2>1, GotoCall, CallInvFits
  <2> QED  BY Zenon, <2>1, <2>2, GotoCall
<1> QED  BY Zenon, <1>1, <1>2 DEF CallInv, CallFits, Finishing

\* A goroutine other than a call leaves CallInv alone, unless it starts a
\* reader.
LEMMA OtherMove ==
  ASSUME PcTyped, CallInv, NEW p \in Procs, NEW l, Goto(p, l), \A h \in Calls : p # Call(h),
         UNCHANGED <<accepted, done>>, pc[p] # "off"
  PROVE  CallInv'
<1>1. \A h \in Calls : pc'[Call(h)] = pc[Call(h)]
  BY Zenon, GotoOther
<1>2. \A h \in TLSCalls : pc'[Reader(h)] # "off" => pc[Reader(h)] # "off"
  BY Zenon, ProcNames DEF Goto, PcTyped
<1>3. TLSCalls \subseteq Calls
  BY Zenon, ProcNames
<1> QED  BY Zenon, <1>1, <1>2, <1>3 DEF CallInv

\* Every call stays on the path of its function: what it has done so far follows
\* from where it is.
LEMMA CallInvStep ==
  ASSUME IInv, Next
  PROVE  CallInv'
<1>a. TypeOK /\ PcTyped /\ CtxTyped /\ CallInv
  BY Zenon DEF IInv, TypeOK
<1>b. \A h \in Calls : CallFits(h, pc[Call(h)], h \in accepted, done[h])
  BY Zenon, <1>a, CallInvFits
<1> USE <1>a
<1> USE DEF connVars, queueVars, countVars, ctxVars, procVars, readerVars
<1>1. CASE StartAdd \/ SetTimeout \/ NetBreak
  <2>1. UNCHANGED <<pc, accepted, done>>
    BY Zenon, <1>1 DEF StartAdd, SetTimeout, NetBreak
  <2> QED  BY Zenon, <2>1 DEF CallInv
<1>2. ASSUME NEW p \in Procs, SendStep(p)
      PROVE  CallInv'
  <2>1. CASE \A h \in Calls : p # Call(h)
    <3>1. UNCHANGED done /\ pc[p] # "off"
      BY Zenon, <1>2 DEF SendStep, SendRefused, SendLock, SendPut, Move
    <3>2. UNCHANGED accepted
      <4>1. CASE SendPut(p)
        <5>1. Outgoing(p).op # "request"
          BY Zenon, <2>1, <4>1, OutgoingTyped DEF SendPut
        <5> QED  BY Zenon, <4>1, <5>1 DEF SendPut
      <4> QED  BY Zenon, <1>2, <4>1 DEF SendStep, SendRefused, SendLock, Move
    <3>3. \E l : Goto(p, l)
      BY Zenon, <1>2 DEF SendStep, SendRefused, SendLock, SendPut, Move
    <3> QED  BY Zenon, <2>1, <3>1, <3>2, <3>3, OtherMove
  <2>2. ASSUME NEW h \in Calls, p = Call(h)
        PROVE  CallInv'
    <3>1. CASE SendRefused(p)
      <4>1. PICK l \in {"wait", "end"} :
              /\ Goto(Call(h), l)
              /\ pc[Call(h)] = "send" => l = "wait"
              /\ pc[Call(h)] = "sendFin" => l = "end"
        BY Zenon, <2>2, <3>1, ProcFields DEF SendRefused, AfterSend, Move
      <4>2. UNCHANGED <<accepted, done>> /\ pc[Call(h)] \in {"send", "sendFin"}
        BY Zenon, <2>2, <3>1 DEF SendRefused, Move
      <4>3. CallFits(h, l, h \in accepted, done[h]) /\ (pc[Call(h)] \in Finishing => l \in Finishing)
        BY Zenon, <1>b, <4>1, <4>2 DEF CallFits, Sent, CloseHolds, Finishing
      <4> QED  BY Zenon, <4>1, <4>2, <4>3, CallMove
    <3>2. CASE SendLock(p)
      <4>1. PICK l \in {"put", "putFin"} :
              /\ Goto(Call(h), l)
              /\ pc[Call(h)] = "send" => l = "put"
              /\ pc[Call(h)] = "sendFin" => l = "putFin"
        BY Zenon, <2>2, <3>2 DEF SendLock
      <4>2. UNCHANGED <<accepted, done>> /\ pc[Call(h)] \in {"send", "sendFin"}
        BY Zenon, <2>2, <3>2 DEF SendLock
      <4>3. CallFits(h, l, h \in accepted, done[h]) /\ (pc[Call(h)] \in Finishing => l \in Finishing)
        BY Zenon, <1>b, <4>1, <4>2 DEF CallFits, Sent, CloseHolds, Finishing
      <4> QED  BY Zenon, <4>1, <4>2, <4>3, CallMove
    <3>3. CASE SendPut(p)
      <4>1. PICK l \in {"wait", "end"} :
              /\ Goto(Call(h), l)
              /\ pc[Call(h)] = "put" => l = "wait"
              /\ pc[Call(h)] = "putFin" => l = "end"
        BY Zenon, <2>2, <3>3, ProcFields DEF SendPut, AfterSend
      <4>2. UNCHANGED done /\ pc[Call(h)] \in {"put", "putFin"}
        BY Zenon, <2>2, <3>3 DEF SendPut
      <4>3. /\ accepted \subseteq accepted' /\ accepted' \subseteq accepted \cup {h}
            /\ pc[Call(h)] = "putFin" => accepted' = accepted
        <5>1. pc[Call(h)] = "putFin" => Outgoing(p).op # "request"
          BY Zenon, <2>2, ProcFields DEF Outgoing, Msg
        <5> QED  BY Zenon, <2>2, <3>3, <5>1, ProcFields DEF SendPut
      <4>4. CallFits(h, l, h \in accepted', done[h]) /\ (pc[Call(h)] \in Finishing => l \in Finishing)
        BY Zenon, <1>b, <4>1, <4>2, <4>3 DEF CallFits, Sent, CloseHolds, Finishing
      <4> QED  BY Zenon, <4>1, <4>2, <4>3, <4>4, CallMove
    <3> QED  BY Zenon, <1>2, <3>1, <3>2, <3>3 DEF SendStep
  <2> QED  BY Zenon, <2>1, <2>2
<1>3. ASSUME NEW p \in Procs, CloseStep(p)
      PROVE  CallInv'
  <2>1. /\ UNCHANGED <<accepted, done>>
        /\ pc[p] \in {"lock"} \cup CloseHolds
    BY Zenon, <1>3 DEF CloseStep, CloseLock, CloseQuit, CloseConfirmed, CloseWait, CloseHolds
  <2>2. PICK l : Goto(p, l) /\ (l \in CloseHolds \/ l = AfterClose(p))
    BY Zenon, <1>3 DEF CloseStep, CloseLock, CloseQuit, CloseConfirmed, CloseWait, CloseHolds
  <2>3. CASE \A h \in Calls : p # Call(h)
    BY Zenon, <2>1, <2>2, <2>3, OtherMove DEF CloseHolds
  <2>4. ASSUME NEW h \in Calls, p = Call(h)
        PROVE  CallInv'
    <3>1. l \in CloseHolds \cup {"finish"}
      BY Zenon, <2>2, <2>4, ProcFields DEF AfterClose
    <3>2. CallFits(h, l, h \in accepted, done[h]) /\ pc[Call(h)] \notin Finishing
      BY Zenon, <1>b, <2>1, <2>4, <3>1 DEF CallFits, Sent, CloseHolds, Finishing
    <3> QED  BY Zenon, <2>1, <2>2, <2>4, <3>2, CallMove
  <2> QED  BY Zenon, <2>3, <2>4
<1>4. ASSUME NEW h \in Calls, CallBegin(h) \/ CallStep(h)
      PROVE  CallInv'
  <2>1. CASE Finish(h)
    <3>1. /\ Goto(Call(h), "leave") /\ UNCHANGED accepted /\ pc[Call(h)] = "finish"
          /\ done' = [done EXCEPT ![h] = TRUE]
      BY Zenon, <2>1 DEF Finish
    <3>2. done'[h] /\ \A k \in Calls : k # h => done'[k] = done[k]
      BY Zenon, <3>1 DEF CtxTyped
    <3>3. CallFits(h, "leave", h \in accepted', done'[h]) /\ "leave" \in Finishing
      BY Zenon, <3>2 DEF CallFits, Sent, CloseHolds, Finishing
    <3> QED  BY Zenon, <3>1, <3>2, <3>3, CallMove
  <2>2. ASSUME NEW l, Goto(Call(h), l), UNCHANGED <<accepted, done>>,
               \/ pc[Call(h)] = "idle" /\ l \in {"end", "nextID"}
               \/ pc[Call(h)] = "nextID" /\ l = "check"
               \/ pc[Call(h)] = "check" /\ l \in {"end", "admit"}
               \/ pc[Call(h)] = "admit" /\ l \in {"end", "send"}
               \/ pc[Call(h)] = "wait" /\ l = "finish"
               \/ pc[Call(h)] = "leave" /\ l \in {"end", "uncount"}
               \/ pc[Call(h)] = "uncount" /\ l = "sendFin"
        PROVE  CallInv'
    <3>1. CallFits(h, l, h \in accepted, done[h]) /\ (pc[Call(h)] \in Finishing => l \in Finishing)
      BY Zenon, <1>b, <2>2 DEF CallFits, Sent, CloseHolds, Finishing
    <3> QED  BY Zenon, <2>2, <3>1, CallMove
  <2>3. CASE CallBegin(h)
    BY Zenon, <2>2, <2>3 DEF CallBegin, Move
  <2>4. CASE TakeID(h) \/ TakeNoID(h)
    BY Zenon, <2>2, <2>4 DEF TakeID, TakeNoID
  <2>5. CASE EncodeFails(h) \/ CheckClosing(h)
    BY Zenon, <2>2, <2>5 DEF EncodeFails, CheckClosing, Move
  <2>6. CASE Reject(h) \/ ChannelClosed(h) \/ FinishCheck(h)
    BY Zenon, <2>2, <2>6 DEF Reject, ChannelClosed, FinishCheck, Move
  <2>7. CASE Admit(h) \/ Uncount(h)
    BY Zenon, <2>2, <2>7 DEF Admit, Uncount
  <2> QED
    BY Zenon, <1>4, <2>1, <2>3, <2>4, <2>5, <2>6, <2>7 DEF CallStep
<1>10. ASSUME NEW h \in Calls, TimerFires(h)
       PROVE  CallInv'
  <2>1. Goto(Timer(h), "send") /\ UNCHANGED <<accepted, done>> /\ pc[Timer(h)] = "sleep"
    BY Zenon, <1>10 DEF TimerFires, Move
  <2>2. Timer(h) \in Procs /\ \A k \in Calls : Timer(h) # Call(k)
    BY ZenonT(60), ProcNames, ProcFields
  <2> QED  BY Zenon, <2>1, <2>2, OtherMove
<1>5. ASSUME NEW h \in TLSCalls, Handshake(h)
      PROVE  CallInv'
  <2>0. h \in Calls /\ h \in ReaderIds
    BY Zenon, ProcNames
  <2>1. pc[Call(h)] = "handshake" /\ UNCHANGED <<accepted, done>>
    BY Zenon, <1>5 DEF Handshake, TLSRefused, TLSFails, TLSUp, Move
  <2>2. ASSUME NEW l \in {"finish", "lock"}, Goto(Call(h), l)
        PROVE  CallInv'
    <3>1. CallFits(h, l, h \in accepted, done[h]) /\ pc[Call(h)] \notin Finishing
      BY Zenon, <2>1, <2>2 DEF CallFits, Sent, CloseHolds, Finishing
    <3> QED  BY Zenon, <2>0, <2>1, <2>2, <3>1, CallMove
  <2>3. CASE TLSUp(h)
    <3>1. /\ pc'[Call(h)] = "finish"
          /\ \A k \in Calls : k # h => pc'[Call(k)] = pc[Call(k)]
          /\ \A k \in ReaderIds : k # h => pc'[Reader(k)] = pc[Reader(k)]
      BY Zenon, <2>3, TLSUpFrame
    <3>2. ASSUME NEW k \in Calls
          PROVE  CallFits(k, pc'[Call(k)], k \in accepted', done'[k])
      BY Zenon, <1>b, <2>1, <3>1 DEF CallFits, Sent, CloseHolds
    <3>3. ASSUME NEW k \in TLSCalls, pc'[Reader(k)] # "off"
          PROVE  pc'[Call(k)] \in Finishing
      BY Zenon, <3>1, <3>3, CallInvFits, ProcNames DEF Finishing
    <3> QED  BY Zenon, <3>2, <3>3 DEF CallInv, CallFits, Finishing
  <2> QED  BY Zenon, <1>5, <2>2, <2>3 DEF Handshake, TLSRefused, TLSFails, Move
<1>6. ASSUME NEW x \in ReaderIds, Server(x) \/ ReaderStep(x)
      PROVE  CallInv'
  <2>0. Reader(x) \in Procs /\ \A k \in Calls : Reader(x) # Call(k)
    BY ZenonT(60), ProcNames, ProcFields
  <2>1. ASSUME NEW l, Goto(Reader(x), l), UNCHANGED <<accepted, done>>,
               pc[Reader(x)] # "off"
        PROVE  CallInv'
    BY Zenon, <2>0, <2>1, OtherMove
  <2>2. CASE ReadBad(x)
    <3>1. UNCHANGED <<pc, accepted, done>>
      BY Zenon, <2>2 DEF ReadBad
    <3> QED  BY Zenon, <3>1 DEF CallInv
  <2>3. ASSUME NEW m, ReadPacket(x, m)
        PROVE  CallInv'
    BY Zenon, <2>1, <2>3 DEF ReadPacket
  <2>4. CASE ReaderStep(x)
    BY Zenon, <2>1, <2>4 DEF ReaderStep, ReadError, StoreErr, Mark, Move
  <2> QED
    BY Zenon, <1>6, <2>2, <2>3, <2>4 DEF Server, ReadResponse, ReadUnsolicited, ReadMalformed
<1>8. ASSUME NEW c \in Closers, UserClose(c)
      PROVE  CallInv'
  <2>0. Closer(c) \in Procs /\ \A k \in Calls : Closer(c) # Call(k)
    BY ZenonT(60), ProcNames, ProcFields
  <2>1. Goto(Closer(c), "lock") /\ UNCHANGED <<accepted, done>> /\ pc[Closer(c)] = "idle"
    BY Zenon, <1>8 DEF UserClose, Move
  <2> QED  BY Zenon, <2>0, <2>1, OtherMove
<1>9. CASE ProcessStep
  <2>1. ASSUME NEW h \in Calls, Deliver(h)
        PROVE  CallInv'
    <3>1. UNCHANGED <<accepted, done>> /\ pc[Call(h)] = "wait"
      BY Zenon, <2>1 DEF Deliver, AfterResponse
    <3>2. PICK l \in {"finish", "handshake", "wait"} :
            Goto(Call(h), l) /\ (l = "handshake" => h \in TLSCalls)
      BY Zenon, <2>1 DEF Deliver
    <3>3. CallFits(h, l, h \in accepted, done[h]) /\ pc[Call(h)] \notin Finishing
      BY Zenon, <3>1, <3>2 DEF CallFits, Sent, CloseHolds, Finishing
    <3> QED  BY Zenon, <3>1, <3>2, <3>3, CallMove
  <2>2. CASE WriteReturns
    <3>1. UNCHANGED <<accepted, done>>
      BY Zenon, <2>2 DEF WriteReturns
    <3> QED  BY Zenon, <2>2, <3>1, WriteFrame, ProcNames DEF CallInv
  <2>3. CASE ProcessQuit \/ ProcessRequest \/ WriteFails \/ ProcessResponse \/ ProcessTimeout
             \/ ProcessFinish \/ ProcessUnknown \/ DrainTell \/ DrainClose
             \/ DrainEnd \/ Drop
    <3>1. UNCHANGED <<pc, accepted, done>>
      BY Zenon, <2>3 DEF ProcessQuit, ProcessRequest, WriteFails, ProcessResponse, ProcessTimeout,
         ProcessFinish, ProcessUnknown, DrainTell, DrainClose, DrainEnd, Drop,
         Receive, AfterResponse
    <3> QED  BY Zenon, <3>1 DEF CallInv
  <2> QED  BY Zenon, <1>9, <2>1, <2>2, <2>3 DEF ProcessStep
<1> QED
  BY Zenon, <1>1, <1>2, <1>3, <1>4, <1>5, <1>6, <1>8, <1>9, <1>10 DEF Next

-----------------------------------------------------------------------------
\* Queueing a message adds its request, if it is one, and nothing else.
LEMMA QueuedAppend ==
  ASSUME QueueTyped, RequestOnce, NEW m \in Message,
         m.op = "request" => ~Queued(m.call),
         chanMessage' = Append(chanMessage, m)
  PROVE  /\ \A h : Queued(h)' <=> Queued(h) \/ (m.op = "request" /\ m.call = h)
         /\ RequestOnce'
<1> DEFINE n == Len(chanMessage')
<1>1. /\ chanMessage'[n] = m
      /\ n \notin At("request")
      /\ At("request")' = IF m.op = "request" THEN At("request") \cup {n} ELSE At("request")
      /\ \A i \in At("request") : chanMessage'[i] = chanMessage[i]
  <2>1. n = Len(chanMessage) + 1 /\ Len(chanMessage) \in Nat
    BY AppendAt DEF QueueTyped
  <2> QED  BY <2>1, AppendAt DEF At
<1> HIDE DEF n
<1>3. \A h : Queued(h)' <=> Queued(h) \/ (m.op = "request" /\ m.call = h)
  BY Zenon, <1>1 DEF Queued
<1>4. RequestOnce'
  <2>1. SUFFICES ASSUME NEW i \in At("request")', NEW j \in At("request")',
                        chanMessage'[i].call = chanMessage'[j].call
                 PROVE  i = j
    BY Zenon DEF RequestOnce
  <2>2. CASE i \in At("request") /\ j \in At("request")
    BY Zenon, <1>1, <2>1, <2>2 DEF RequestOnce
  <2>3. CASE i = n \/ j = n
    BY ZenonT(60), <1>1, <2>1, <2>3 DEF Queued
  <2> QED  BY Zenon, <1>1, <2>2, <2>3
<1> QED  BY Zenon, <1>3, <1>4

\* Taking a message off chanMessage takes its request, if it is one, and
\* nothing else.
LEMMA QueuedTail ==
  ASSUME QueueTyped, RequestOnce, chanMessage # <<>>, chanMessage' = Tail(chanMessage)
  PROVE  /\ \A h : Queued(h)' <=> /\ Queued(h)
                                  /\ ~(/\ Head(chanMessage).op = "request"
                                       /\ Head(chanMessage).call = h)
         /\ RequestOnce'
<1>1. Head(chanMessage) = chanMessage[1]
  BY Zenon, TailAt
<1>2. /\ \A i \in At("request")' : /\ i + 1 \in At("request") /\ i \in Nat /\ i > 0
                                   /\ chanMessage'[i] = chanMessage[i + 1]
      /\ \A i \in At("request") : i # 1 => /\ i - 1 \in At("request")' /\ i \in Nat
                                           /\ chanMessage'[i - 1] = chanMessage[i]
      /\ 1 \in At("request") <=> Head(chanMessage).op = "request"
  BY Zenon, TailAt
<1>3. ASSUME NEW h, Queued(h)'
      PROVE  Queued(h) /\ ~(Head(chanMessage).op = "request" /\ Head(chanMessage).call = h)
  <2>1. PICK i \in At("request")' : chanMessage'[i].call = h
    BY Zenon, <1>3 DEF Queued
  <2>3. i + 1 \in At("request") /\ i \in Nat /\ i > 0 /\ chanMessage'[i] = chanMessage[i + 1]
    BY Zenon, <1>2
  <2>2. chanMessage[i + 1].call = h
    BY Zenon, <2>1, <2>3
  <2>4. i + 1 # 1
    BY <2>3
  <2> QED  BY Zenon, <1>1, <1>2, <2>2, <2>3, <2>4 DEF Queued, RequestOnce
<1>4. ASSUME NEW h, Queued(h),
             ~(Head(chanMessage).op = "request" /\ Head(chanMessage).call = h)
      PROVE  Queued(h)'
  <2>1. PICK i \in At("request") : chanMessage[i].call = h
    BY Zenon, <1>4 DEF Queued
  <2>2. i # 1
    BY Zenon, <1>1, <1>2, <1>4, <2>1
  <2> QED  BY Zenon, <1>2, <2>1, <2>2 DEF Queued
<1>5. RequestOnce'
  <2>1. SUFFICES ASSUME NEW i \in At("request")', NEW j \in At("request")',
                        chanMessage'[i].call = chanMessage'[j].call
                 PROVE  i = j
    BY Zenon DEF RequestOnce
  <2>3. i + 1 \in At("request") /\ i \in Nat /\ i > 0 /\ chanMessage'[i] = chanMessage[i + 1]
    BY Zenon, <1>2
  <2>4. j + 1 \in At("request") /\ j \in Nat /\ j > 0 /\ chanMessage'[j] = chanMessage[j + 1]
    BY Zenon, <1>2
  <2>5. chanMessage[i + 1].call = chanMessage[j + 1].call
    BY Zenon, <2>1, <2>3, <2>4
  <2>2. i + 1 = j + 1
    BY Zenon, <2>3, <2>4, <2>5 DEF RequestOnce
  <2> QED  BY <1>2, <2>2
<1> QED  BY Zenon, <1>3, <1>4, <1>5

\* Only a written request starts a timer.
LEMMA TimersOff ==
  ASSUME TypeOK, CallInv, Next, NEW h \in Calls, pc[Timer(h)] = "off"
  PROVE  pc'[Timer(h)] = "off" \/ (WriteReturns /\ sending.to = h)
<1> USE ProcNames, ProcFields DEF TypeOK, PcTyped, Goto, Move
<1>1. CASE StartAdd \/ SetTimeout \/ NetBreak
  BY Zenon, <1>1 DEF StartAdd, SetTimeout, NetBreak
<1>2. ASSUME NEW p \in Procs, SendStep(p) \/ CloseStep(p)
      PROVE  pc'[Timer(h)] = "off"
  <2>1. pc[p] # "off" /\ \E l : Goto(p, l)
    BY Zenon, <1>2 DEF SendStep, SendRefused, SendLock, SendPut, CloseStep, CloseLock, CloseQuit,
       CloseConfirmed, CloseWait
  <2> QED  BY ZenonT(60), <2>1, GotoOne
<1>3. ASSUME NEW k \in Calls, CallBegin(k) \/ CallStep(k) \/ TimerFires(k)
      PROVE  pc'[Timer(h)] = "off"
  BY ZenonT(60), <1>3 DEF CallBegin, CallStep, TakeID, TakeNoID, EncodeFails, CheckClosing,
     Reject, Admit, ChannelClosed, Finish, FinishCheck, Uncount, TimerFires
<1>4. ASSUME NEW k \in TLSCalls, Handshake(k)
      PROVE  pc'[Timer(h)] = "off"
  BY <1>4 DEF Handshake, TLSRefused, TLSFails, TLSUp
<1>5. ASSUME NEW x \in ReaderIds, Server(x)
      PROVE  pc'[Timer(h)] = "off"
  <2>1. ASSUME NEW m, ReadPacket(x, m)
        PROVE  pc'[Timer(h)] = "off"
    BY Zenon, <2>1 DEF ReadPacket
  <2> QED
    BY Zenon, <1>5, <2>1 DEF Server, ReadResponse, ReadUnsolicited, ReadMalformed, ReadBad
<1>6. ASSUME NEW x \in ReaderIds, ReaderStep(x)
      PROVE  pc'[Timer(h)] = "off"
  BY Zenon, <1>6 DEF ReaderStep, ReadError, StoreErr, Mark
<1>7. ASSUME NEW c \in Closers, UserClose(c)
      PROVE  pc'[Timer(h)] = "off"
  BY Zenon, <1>7 DEF UserClose
<1>8. ASSUME NEW k \in Calls, Deliver(k)
      PROVE  pc'[Timer(h)] = "off"
  BY Zenon, <1>8 DEF Deliver
<1>9. CASE WriteReturns
  BY <1>9 DEF WriteReturns
<1>10. CASE ProcessQuit \/ ProcessRequest \/ WriteFails \/ ProcessResponse \/ ProcessTimeout
            \/ ProcessFinish \/ ProcessUnknown \/ DrainTell \/ DrainClose
            \/ DrainEnd \/ Drop
  BY Zenon, <1>10 DEF ProcessQuit, ProcessRequest, WriteFails, ProcessResponse, ProcessTimeout,
     ProcessFinish, ProcessUnknown, DrainTell, DrainClose, DrainEnd, Drop
<1> QED
  BY Zenon, <1>1, <1>2, <1>3, <1>4, <1>5, <1>6, <1>7, <1>8, <1>9, <1>10 DEF Next, ProcessStep

\* The variables OwnerInv is about, apart from the timers.
ownerVars == <<chanMessage, accepted, ppc, sending, messageContexts, responses, written>>

\* No timer starts.
TimersKept == \A h \in Calls : pc[Timer(h)] = "off" => pc'[Timer(h)] = "off"

\* Steps that leave the queue, the map and the channels alone.
LEMMA OwnerKept ==
  ASSUME OwnerInv, TimersKept, UNCHANGED ownerVars
  PROVE  OwnerInv'
BY DEF OwnerInv, NoUseOfClosed, NoneForgotten, RequestOnce, Queued, At, ownerVars, TimersKept

\* Requests and other messages entering chanMessage.
LEMMA OwnerSend ==
  ASSUME IInv, NEW p \in Procs, SendStep(p), TimersKept
  PROVE  OwnerInv'
<1> USE DEF IInv, TypeOK, ownerVars, queueVars, ctxVars, procVars
<1>1. CASE SendRefused(p)
  BY Zenon, <1>1, OwnerKept DEF SendRefused, Move
<1>2. CASE SendLock(p)
  BY Zenon, <1>2, OwnerKept DEF SendLock
<1>3. CASE SendPut(p)
  <2> DEFINE m == Outgoing(p)
  <2>1. /\ m \in Message
        /\ m.op = "request" => \E h \in Calls : p = Call(h) /\ pc[p] = "put" /\ m.call = h
    BY Zenon, <1>3, OutgoingTyped DEF SendPut
  <2>2. m.op = "request" => m.call \in Calls \ accepted /\ p[2] = m.call
    BY <2>1, ProcFields DEF CallInv, Sent, CloseHolds
  <2>3. m.op = "request" => ~Queued(m.call) /\ responses[m.call] = "open"
    BY Zenon, <2>2 DEF OwnerInv
  <2>4. /\ \A h : Queued(h)' <=> Queued(h) \/ (m.op = "request" /\ m.call = h)
        /\ RequestOnce'
    BY Zenon, <1>3, <2>1, <2>3, QueuedAppend DEF SendPut, OwnerInv
  <2>5. CASE m.op = "request"
    <3>1. accepted' = accepted \cup {m.call}
      BY Zenon, <1>3, <2>2, <2>5 DEF SendPut
    <3>2. UNCHANGED <<ppc, sending, messageContexts, responses, written>>
      BY Zenon, <1>3 DEF SendPut
    <3>3. NoUseOfClosed'
      BY ZenonT(60), <2>2, <2>3, <2>4, <2>5, <3>1, <3>2 DEF OwnerInv, NoUseOfClosed
    <3>4. NoneForgotten'
      BY Zenon, <2>2, <2>3, <2>4, <2>5, <3>1, <3>2 DEF OwnerInv, NoneForgotten
    <3>5. (ppc = "write" => /\ sending.to \in written \ messageContexts
                           /\ pc[Timer(sending.to)] = "off")'
      BY Zenon, <3>2 DEF OwnerInv, NoUseOfClosed, TimersKept
    <3>6. (ppc = "send" => /\ sending.to \in accepted
                           /\ sending.then # "close" => sending.to \in messageContexts)'
      BY Zenon, <3>1, <3>2 DEF OwnerInv
    <3>7. /\ (\A h \in Calls \ accepted : responses[h] = "open" /\ ~Queued(h))'
          /\ (messageContexts \subseteq accepted)' /\ (written \subseteq accepted)'
          /\ (\A h \in written : ~Queued(h))'
          /\ (\A h \in Calls : pc[Timer(h)] # "off" => h \in written)'
      BY ZenonT(60), <2>2, <2>4, <2>5, <3>1, <3>2 DEF OwnerInv, TimersKept
    <3> QED
      BY Zenon, <2>4, <3>3, <3>4, <3>5, <3>6, <3>7 DEF OwnerInv
  <2>6. CASE m.op # "request"
    <3>1. UNCHANGED <<accepted, ppc, sending, messageContexts, responses, written>>
      BY Zenon, <1>3, <2>6 DEF SendPut
    <3> QED
      BY ZenonT(60), <2>4, <2>6, <3>1 DEF OwnerInv, NoUseOfClosed, NoneForgotten, TimersKept
  <2> QED  BY Zenon, <2>5, <2>6
<1> QED  BY Zenon, <1>1, <1>2, <1>3 DEF SendStep

\* The quit message entering chanMessage.
LEMMA OwnerClose ==
  ASSUME IInv, NEW p \in Procs, CloseStep(p), TimersKept
  PROVE  OwnerInv'
<1> USE DEF IInv, TypeOK, ownerVars, queueVars, ctxVars, procVars
<1>1. CASE CloseLock(p)
  BY Zenon, <1>1, OwnerKept DEF CloseLock
<1>2. CASE CloseQuit(p)
  <2>1. Quit \in Message /\ Quit.op # "request"
    BY DEF Quit, Msg, Message, Ops
  <2>2. (\A h : Queued(h)' <=> Queued(h)) /\ RequestOnce'
    BY Zenon, <1>2, <2>1, QueuedAppend DEF CloseQuit, OwnerInv
  <2>3. UNCHANGED <<accepted, ppc, sending, messageContexts, responses, written>>
    BY Zenon, <1>2 DEF CloseQuit
  <2> QED
    BY Zenon, <2>2, <2>3 DEF OwnerInv, NoUseOfClosed, NoneForgotten, TimersKept
<1>3. CASE CloseConfirmed(p)
  BY Zenon, <1>3, OwnerKept DEF CloseConfirmed
<1>4. CASE CloseWait(p)
  BY Zenon, <1>4, OwnerKept DEF CloseWait
<1> QED  BY Zenon, <1>1, <1>2, <1>3, <1>4 DEF CloseStep

\* The processor taking, registering, telling and closing.
LEMMA OwnerProcess ==
  ASSUME IInv, TypeOK', ProcessStep,
         \A h \in Calls : pc[Timer(h)] = "off" =>
           pc'[Timer(h)] = "off" \/ (WriteReturns /\ sending.to = h)
  PROVE  OwnerInv'
<1> USE DEF IInv, TypeOK, ownerVars, queueVars, ctxVars, procVars
<1>1. ASSUME NEW op, Receive(op), op # "request"
      PROVE  (\A h : Queued(h)' <=> Queued(h)) /\ RequestOnce' /\ UNCHANGED accepted
  BY Zenon, <1>1, QueuedTail DEF Receive, OwnerInv
<1>2. ASSUME Receive("request")
      PROVE  /\ Head(chanMessage).call \in Calls
             /\ Queued(Head(chanMessage).call)
             /\ \A h : Queued(h)' <=> Queued(h) /\ h # Head(chanMessage).call
             /\ RequestOnce'
             /\ UNCHANGED accepted
  BY Zenon, <1>2, QueuedTail, HeadRequest DEF Receive, OwnerInv
<1>3. ASSUME UNCHANGED chanMessage
      PROVE  (\A h : Queued(h)' <=> Queued(h)) /\ (RequestOnce => RequestOnce')
  BY ZenonT(60), <1>3 DEF Queued, RequestOnce, At
<1>4. ASSUME ~WriteReturns
      PROVE  TimersKept
  BY Zenon, <1>4 DEF TimersKept
\* sendResponse begins, to a registered call.
<1>5. ASSUME NEW h \in messageContexts, ppc \notin {"write", "send"}, ppc' = "send", sending'.to = h,
             UNCHANGED <<accepted, messageContexts, responses, written>>,
             \A k : Queued(k)' <=> Queued(k), RequestOnce', TimersKept
      PROVE  OwnerInv'
  <2>1. NoUseOfClosed'
    BY Zenon, <1>5 DEF OwnerInv, NoUseOfClosed, ProcTyped
  <2>2. NoneForgotten'
    BY Zenon, <1>5 DEF OwnerInv, NoneForgotten
  <2> QED  BY Zenon, <1>5, <2>1, <2>2 DEF OwnerInv, TimersKept
\* A channel is closed, and nothing else is being sent.
<1>6. ASSUME NEW h \in accepted, ~Queued(h), ppc # "write", ppc = "send" => sending.to = h,
             ppc' \notin {"write", "send"}, messageContexts' = messageContexts \ {h},
             responses' = [responses EXCEPT ![h] = "closed"],
             UNCHANGED <<accepted, written>>,
             \A k : Queued(k)' <=> Queued(k), RequestOnce', TimersKept
      PROVE  OwnerInv'
  <2>1. responses'[h] = "closed" /\ \A k \in Calls : k # h => responses'[k] = responses[k]
    BY Zenon, <1>6 DEF CtxTyped, QueueTyped
  <2>2. NoUseOfClosed'
    <3>1. messageContexts \subseteq Calls /\ \A k \in messageContexts : responses[k] = "open"
      BY Zenon DEF OwnerInv, NoUseOfClosed, ProcTyped
    <3>2. ASSUME NEW k \in messageContexts'
          PROVE  responses'[k] = "open"
      BY Zenon, <1>6, <2>1, <3>1
    <3>3. ASSUME NEW k \in Calls, Queued(k)'
          PROVE  responses'[k] = "open" /\ k \notin messageContexts'
      BY ZenonT(60), <1>6, <2>1, <3>3 DEF OwnerInv, NoUseOfClosed
    <3> QED  BY Zenon, <1>6, <3>2, <3>3 DEF NoUseOfClosed
  <2>3. NoneForgotten'
    <3>1. ASSUME NEW k \in accepted', responses'[k] = "open"
          PROVE  Queued(k)' \/ k \in messageContexts'
      <4>1. k \in accepted /\ k \in Calls
        BY Zenon, <1>6 DEF QueueTyped
      <4>2. k # h /\ responses[k] = "open"
        BY Zenon, <2>1, <3>1, <4>1
      <4>3. Queued(k) \/ k \in messageContexts
        BY Zenon, <1>6, <4>1, <4>2 DEF OwnerInv, NoneForgotten
      <4> QED  BY Zenon, <1>6, <4>2, <4>3
    <3> QED  BY Zenon, <3>1 DEF NoneForgotten
  <2> QED  BY ZenonT(60), <1>6, <2>1, <2>2, <2>3 DEF OwnerInv, TimersKept
<1>7. CASE ProcessQuit
  BY ZenonT(60), <1>1, <1>7 DEF ProcessQuit, WriteReturns, Receive, OwnerInv, NoUseOfClosed,
     NoneForgotten
<1>8. CASE ProcessRequest
  <2> DEFINE h == Head(chanMessage).call
  <2>1. /\ h \in Calls /\ Queued(h) /\ RequestOnce'
        /\ \A k : Queued(k)' <=> Queued(k) /\ k # h
    BY Zenon, <1>2, <1>8 DEF ProcessRequest
  <2>2. h \in accepted /\ h \notin messageContexts /\ responses[h] = "open" /\ h \notin written
    BY Zenon, <2>1 DEF OwnerInv, NoUseOfClosed
  <2>3. TimersKept
    BY Zenon, <1>4, <1>8 DEF ProcessRequest, WriteReturns, Receive
  <2>4. /\ written' = written \cup {h}
        /\ ppc = "select" /\ ppc' = "write" /\ sending'.to = h
        /\ UNCHANGED <<accepted, responses, messageContexts>>
    BY <1>8 DEF ProcessRequest, Receive, NotSending
  <2>5. NoUseOfClosed'
    BY Zenon, <2>1, <2>2, <2>4 DEF OwnerInv, NoUseOfClosed
  <2>6. NoneForgotten'
    BY Zenon, <2>1, <2>2, <2>4 DEF OwnerInv, NoneForgotten
  <2>7. pc'[Timer(h)] = "off"
    BY Zenon, <2>1, <2>2, <2>3 DEF OwnerInv, TimersKept
  <2> QED  BY ZenonT(60), <2>1, <2>2, <2>3, <2>4, <2>5, <2>6, <2>7 DEF OwnerInv, TimersKept
<1>20. CASE WriteReturns
  <2> DEFINE h == sending.to
  <2>1. /\ h \in Calls /\ h \in accepted /\ h \notin messageContexts /\ h \in written
        /\ responses[h] = "open" /\ ~Queued(h)
    BY Zenon, <1>20 DEF WriteReturns, OwnerInv, NoUseOfClosed
  <2>2. (\A k : Queued(k)' <=> Queued(k)) /\ RequestOnce'
    BY Zenon, <1>3, <1>20 DEF WriteReturns, OwnerInv
  <2>3. Registered(id[h]) = {}
    BY ZenonT(60), <2>1 DEF Registered, IdInv, IdsUnique, IdsGiven, ProcTyped
  <2>4. /\ messageContexts' = messageContexts \cup {h}
        /\ ppc = "write" /\ ppc' = "select"
        /\ UNCHANGED <<accepted, responses, written>>
    BY Zenon, <1>20, <2>3 DEF WriteReturns
  <2>5. NoUseOfClosed'
    BY Zenon, <2>1, <2>2, <2>4 DEF OwnerInv, NoUseOfClosed
  <2>6. NoneForgotten'
    BY Zenon, <2>1, <2>2, <2>4 DEF OwnerInv, NoneForgotten
  <2> QED  BY ZenonT(60), <2>1, <2>2, <2>4, <2>5, <2>6 DEF OwnerInv
<1>9. CASE WriteFails
  <2>1. ppc = "write" /\ ppc' = "send" /\ sending'.to = sending.to /\ sending'.then = "close"
    BY Zenon, <1>9 DEF WriteFails, SendResponse
  <2>2. UNCHANGED <<chanMessage, accepted, messageContexts, responses, written>>
    BY Zenon, <1>9 DEF WriteFails
  <2>3. (\A k : Queued(k)' <=> Queued(k)) /\ RequestOnce' /\ TimersKept
    BY Zenon, <1>3, <1>4, <2>1, <2>2 DEF OwnerInv, WriteReturns
  <2>4. NoUseOfClosed' /\ NoneForgotten'
    BY Zenon, <2>1, <2>2, <2>3 DEF OwnerInv, NoUseOfClosed, NoneForgotten
  <2> QED  BY Zenon, <2>1, <2>2, <2>3, <2>4 DEF OwnerInv, TimersKept
<1>10. CASE ProcessResponse
  <2>1. PICK h \in messageContexts : ppc' = "send" /\ sending'.to = h
    BY <1>10 DEF ProcessResponse, SendResponse, Registered
  <2>2. ~WriteReturns
    BY Zenon, <1>10 DEF ProcessResponse, WriteReturns, Receive
  <2>3. Receive("response") /\ UNCHANGED <<messageContexts, responses, written>>
    BY Zenon, <1>10 DEF ProcessResponse
  <2> QED  BY Zenon, <1>1, <1>4, <1>5, <2>1, <2>2, <2>3 DEF Receive
<1>11. CASE ProcessTimeout
  <2>1. PICK h \in messageContexts : ppc' = "send" /\ sending'.to = h
    BY <1>11 DEF ProcessTimeout, SendResponse, Registered
  <2>2. ~WriteReturns
    BY Zenon, <1>11 DEF ProcessTimeout, WriteReturns, Receive
  <2>3. Receive("timeout") /\ UNCHANGED <<messageContexts, responses, written>>
    BY Zenon, <1>11 DEF ProcessTimeout
  <2> QED  BY Zenon, <1>1, <1>4, <1>5, <2>1, <2>2, <2>3 DEF Receive
<1>12. CASE ProcessFinish
  <2>1. PICK h \in messageContexts : /\ messageContexts' = messageContexts \ {h}
                                     /\ responses' = [responses EXCEPT ![h] = "closed"]
    BY Zenon, <1>12 DEF ProcessFinish, Registered
  <2>2. ~WriteReturns
    BY Zenon, <1>12 DEF ProcessFinish, WriteReturns, Receive
  <2>3. Receive("finish") /\ ppc = "select" /\ UNCHANGED <<ppc, written>>
    BY Zenon, <1>12 DEF ProcessFinish, Receive
  <2>4. h \in accepted /\ ~Queued(h)
    BY Zenon DEF OwnerInv, NoUseOfClosed, ProcTyped
  <2> QED  BY Zenon, <1>1, <1>4, <1>6, <2>1, <2>2, <2>3, <2>4
<1>13. CASE ProcessUnknown
  <2>1. PICK op \in {"response", "timeout", "finish"} : Receive(op)
    BY Zenon, <1>13 DEF ProcessUnknown
  <2>2. ~WriteReturns
    BY Zenon, <2>1 DEF WriteReturns, Receive
  <2> QED
    BY ZenonT(60), <1>1, <1>4, <1>13, <2>1, <2>2 DEF ProcessUnknown, OwnerInv, NoUseOfClosed,
       NoneForgotten, TimersKept
<1>14. ASSUME ppc = "send", AfterResponse, ~WriteReturns
       PROVE  OwnerInv'
  <2>1. /\ \A h : Queued(h)' <=> Queued(h)
        /\ RequestOnce'
        /\ TimersKept
    BY Zenon, <1>3, <1>4, <1>14 DEF AfterResponse, OwnerInv
  <2>2. CASE sending.then = "select"
    <3>1. /\ UNCHANGED <<accepted, messageContexts, responses, written>>
          /\ ppc' \notin {"write", "send"}
      BY Zenon, <1>14, <2>2 DEF AfterResponse
    <3>2. sending.to \in messageContexts
      BY Zenon, <1>14, <2>2 DEF OwnerInv
    <3>3. NoUseOfClosed'
      BY ZenonT(60), <2>1, <3>1 DEF OwnerInv, NoUseOfClosed
    <3>4. NoneForgotten'
      BY Zenon, <2>1, <3>1, <3>2 DEF OwnerInv, NoneForgotten
    <3> QED  BY Zenon, <2>1, <3>1, <3>3, <3>4 DEF OwnerInv, TimersKept
  <2>3. CASE sending.then # "select"
    <3>1. sending.to \in accepted /\ ~Queued(sending.to)
      BY Zenon, <1>14 DEF OwnerInv, NoUseOfClosed
    <3>2. /\ messageContexts' = messageContexts \ {sending.to}
          /\ responses' = [responses EXCEPT ![sending.to] = "closed"]
          /\ ppc' \notin {"write", "send"}
          /\ UNCHANGED <<accepted, written>>
      BY Zenon, <1>14, <2>3 DEF AfterResponse
    <3> QED  BY Zenon, <1>6, <1>14, <2>1, <3>1, <3>2
  <2> QED  BY Zenon, <2>2, <2>3
<1>15. ASSUME NEW h \in Calls, Deliver(h)
       PROVE  OwnerInv'
  BY Zenon, <1>14, <1>15 DEF Deliver, WriteReturns, Receive
<1>16. CASE Drop
  BY Zenon, <1>14, <1>16 DEF Drop, WriteReturns, Receive
<1>17. CASE DrainTell
  <2>1. PICK h \in messageContexts : ppc' = "send" /\ sending'.to = h
    BY <1>17 DEF DrainTell, SendResponse
  <2>2. ~WriteReturns /\ ppc \notin {"write", "send"}
    BY Zenon, <1>17 DEF DrainTell, WriteReturns, Receive
  <2>3. UNCHANGED <<chanMessage, accepted, messageContexts, responses, written>>
    BY Zenon, <1>17 DEF DrainTell
  <2> QED  BY Zenon, <1>3, <1>4, <1>5, <2>1, <2>2, <2>3 DEF OwnerInv
<1>18. CASE DrainClose
  <2>1. PICK h \in messageContexts : /\ messageContexts' = messageContexts \ {h}
                                     /\ responses' = [responses EXCEPT ![h] = "closed"]
    BY Zenon, <1>18 DEF DrainClose
  <2>2. ~WriteReturns /\ ppc \notin {"write", "send"} /\ ppc' \notin {"write", "send"}
    BY Zenon, <1>18 DEF DrainClose, WriteReturns, Receive
  <2>3. UNCHANGED <<chanMessage, accepted, written>>
    BY Zenon, <1>18 DEF DrainClose
  <2>4. h \in accepted /\ ~Queued(h)
    BY Zenon DEF OwnerInv, NoUseOfClosed, ProcTyped
  <2> QED  BY Zenon, <1>3, <1>4, <1>6, <2>1, <2>2, <2>3, <2>4 DEF OwnerInv
<1>19. CASE DrainEnd
  BY ZenonT(60), <1>3, <1>4, <1>19 DEF DrainEnd, ProcessRequest, Receive, OwnerInv, NoUseOfClosed,
     NoneForgotten, TimersKept
<1> QED
  BY Zenon, <1>7, <1>8, <1>9, <1>10, <1>11, <1>12, <1>13, <1>15, <1>16, <1>17, <1>18, <1>19,
     <1>20
  DEF ProcessStep

-----------------------------------------------------------------------------
\* The steps that give no ID, queue no message and leave the processor alone.
LEMMA IdMove ==
  ASSUME IInv, NEW p \in Procs, NEW l, Goto(p, l), UNCHANGED <<id, messageID, packet>>,
         UNCHANGED <<chanMessage, accepted, ppc, sending>>, closing => closing',
         l \notin {"idle", "nextID", "check", "admit", "put", "mark"}
           \/ (l = "nextID" /\ pc[p] = "idle")
           \/ (l = "admit" /\ pc[p] = "check" /\ ~closing)
           \/ (l = "put" /\ pc[p] = "send"),
         l = "send" => pc[p] \in {"admit", "mark", "sleep"}
  PROVE  IdInv'
<1> USE ProcNames, ProcFields DEF IInv, IdInv, TypeOK, PcTyped
<1>1. IdsUnique'
  BY Zenon DEF IdsUnique
<1>2. IdsGiven'
  <2>1. SUFFICES ASSUME NEW h \in Calls PROVE IdsGiven!(h)'
    BY Zenon DEF IdsGiven
  <2>2. IdsGiven!(h)
    BY Zenon DEF IdsGiven
  <2>3. CASE p = Call(h)
    <3>1. pc[p] \in CallLabels
      BY ZenonT(60), <2>3, ProcLabels
    <3>2. pc'[Call(h)] = l
      BY ZenonT(60), <2>3, GotoOne
    <3> QED  BY Zenon, <2>2, <2>3, <3>1, <3>2 DEF CallLabels
  <2>4. CASE p # Call(h)
    BY ZenonT(60), <2>2, <2>4, GotoOne
  <2> QED  BY Zenon, <2>3, <2>4
<1>3. AnswersMatch'
  <2>1. \A m : Answers(m) => Answers(m)'
    BY Zenon DEF Answers
  <2>2. (\A i \in At("response") : Answers(chanMessage[i]))'
    BY Zenon, <2>1 DEF AnswersMatch, At
  <2>3. ASSUME NEW x \in ReaderIds, pc'[Reader(x)] \in {"mark", "send", "put"}
        PROVE  Answers(packet[x])'
    <3>1. pc[Reader(x)] \in {"mark", "send", "put"}
      <4>1. CASE p = Reader(x)
        <5>1. pc[p] \in ReaderLabels /\ l \in {"mark", "send", "put"}
          <6>1. pc[Reader(x)] \in ReaderLabels /\ pc'[p] = l
            BY ZenonT(60), Labelled, GotoOne
          <6> QED  BY Zenon, <2>3, <4>1, <6>1
        <5> QED  BY Zenon, <4>1, <5>1 DEF ReaderLabels
      <4>2. CASE p # Reader(x)
        BY ZenonT(60), <2>3, <4>2, GotoOne
      <4> QED  BY Zenon, <4>1, <4>2
    <3> QED  BY Zenon, <2>1, <3>1 DEF AnswersMatch
  <2> QED  BY Zenon, <2>2, <2>3 DEF AnswersMatch
<1>4. NoCrossDelivery'
  BY Zenon DEF NoCrossDelivery
<1> QED  BY Zenon, <1>1, <1>2, <1>3, <1>4

\* A call takes an ID that nobody has, or 0 once the processor has stopped.
LEMMA IdCall ==
  ASSUME IInv, NEW h \in Calls, CallBegin(h) \/ CallStep(h) \/ TimerFires(h)
  PROVE  IdInv'
<1> USE ProcNames, ProcFields
    DEF IInv, TypeOK, PcTyped, Move, connVars, queueVars, countVars, ctxVars, procVars,
        readerVars
<1>1. CASE CallBegin(h)
  BY Zenon, <1>1, IdMove DEF CallBegin
<1>2. CASE EncodeFails(h)
  BY Zenon, <1>2, IdMove DEF EncodeFails
<1>3. CASE CheckClosing(h)
  BY Zenon, <1>3, IdMove DEF CheckClosing
<1>4. CASE Reject(h)
  BY Zenon, <1>4, IdMove DEF Reject
<1>5. CASE Admit(h)
  BY Zenon, <1>5, IdMove DEF Admit
<1>6. CASE ChannelClosed(h)
  BY Zenon, <1>6, IdMove DEF ChannelClosed
<1>7. CASE Finish(h)
  BY Zenon, <1>7, IdMove DEF Finish
<1>8. CASE FinishCheck(h)
  BY Zenon, <1>8, IdMove DEF FinishCheck
<1>9. CASE Uncount(h)
  BY Zenon, <1>9, IdMove DEF Uncount
<1>10. CASE TimerFires(h)
  BY Zenon, <1>10, IdMove DEF TimerFires
<1>11. ASSUME id[h] = -1, h \notin accepted, NEW i \in Nat,
              id' = [id EXCEPT ![h] = i], Goto(Call(h), "check"), i > 0 \/ closing,
              IdsUnique',
              UNCHANGED <<chanMessage, accepted, packet, ppc, sending, closing>>
       PROVE  IdInv'
  <2>1. id'[h] = i /\ \A k \in Calls : k # h => id'[k] = id[k]
    BY ZenonT(60), <1>11 DEF CtxTyped
  <2>2. IdsGiven'
    BY <1>11, <2>1 DEF IdInv, IdsGiven, Goto
  <2>3. ASSUME NEW m, Answers(m)
        PROVE  Answers(m)'
    BY <1>11, <2>1, <2>3 DEF Answers
  <2>4. AnswersMatch'
    BY ZenonT(60), <1>11, <2>3 DEF IdInv, AnswersMatch, At, Goto
  <2>5. NoCrossDelivery'
    BY Zenon, <1>11 DEF IdInv, NoCrossDelivery
  <2> QED  BY Zenon, <1>11, <2>2, <2>4, <2>5 DEF IdInv
<1>12. pc[Call(h)] = "nextID" => id[h] = -1 /\ h \notin accepted
  BY ZenonT(60) DEF IdInv, IdsGiven, CallInv, Sent, CloseHolds
<1>13. CASE TakeID(h)
  <2>1. IdsUnique'
    BY <1>13 DEF TakeID, IdInv, IdsUnique, CtxTyped, ProcTyped
  <2> QED  BY Zenon, <1>11, <1>12, <1>13, <2>1 DEF TakeID, IdInv, IdsUnique, ProcTyped
<1>14. CASE TakeNoID(h)
  <2>1. IdsUnique'
    BY <1>14 DEF TakeNoID, IdInv, IdsUnique, CtxTyped, ProcTyped
  <2>2. closing
    BY Zenon, <1>14 DEF TakeNoID, ShutdownInv, QuitIsLast
  <2> QED  BY Zenon, <1>11, <1>12, <1>14, <2>1, <2>2 DEF TakeNoID
<1> QED
  BY Zenon, <1>1, <1>2, <1>3, <1>4, <1>5, <1>6, <1>7, <1>8, <1>9, <1>10, <1>13, <1>14
  DEF CallStep

\* A reader gets from the server answers to written requests, or to none.
LEMMA IdReader ==
  ASSUME IInv, NEW x \in ReaderIds, Server(x) \/ ReaderStep(x)
  PROVE  IdInv'
<1> USE ProcNames, ProcFields
    DEF IInv, TypeOK, PcTyped, Move, connVars, queueVars, countVars, ctxVars, procVars,
        readerVars
<1>1. CASE ReadError(x)
  BY Zenon, <1>1, IdMove DEF ReadError
<1>2. CASE StoreErr(x)
  BY Zenon, <1>2, IdMove DEF StoreErr
<1>3. CASE Mark(x)
  BY Zenon, <1>3, IdMove DEF Mark
<1>4. CASE ReadBad(x)
  BY ZenonT(60), <1>4 DEF ReadBad, IdInv, IdsUnique, IdsGiven, AnswersMatch, At, Answers,
     NoCrossDelivery
<1>5. ASSUME NEW m \in Packet, Answers(m), ReadPacket(x, m)
      PROVE  IdInv'
  <2>1. IdsUnique' /\ NoCrossDelivery'
    BY ZenonT(60), <1>5 DEF ReadPacket, IdInv, IdsUnique, NoCrossDelivery
  <2>2. IdsGiven'
    BY Zenon, <1>5 DEF ReadPacket, Goto, IdInv, IdsGiven
  <2>3. AnswersMatch'
    <3>1. \A n : Answers(n) => Answers(n)'
      BY Zenon, <1>5 DEF ReadPacket, Answers
    <3>2. (\A i \in At("response") : Answers(chanMessage[i]))'
      BY Zenon, <1>5, <3>1 DEF ReadPacket, IdInv, AnswersMatch, At
    <3>3. packet'[x] = m /\ \A y \in ReaderIds : y # x => packet'[y] = packet[y]
      BY ZenonT(60), <1>5 DEF ReadPacket, ReaderTyped
    <3>4. \A y \in ReaderIds : y # x => pc'[Reader(y)] = pc[Reader(y)]
      BY ZenonT(60), <1>5, GotoReader DEF ReadPacket
    <3>5. ASSUME NEW y \in ReaderIds, pc'[Reader(y)] \in {"mark", "send", "put"}
          PROVE  Answers(packet[y])'
      BY Zenon, <1>5, <3>1, <3>3, <3>4, <3>5 DEF IdInv, AnswersMatch
    <3> QED  BY Zenon, <3>2, <3>5 DEF AnswersMatch
  <2> QED  BY Zenon, <2>1, <2>2, <2>3 DEF IdInv
<1>6. CASE ReadResponse(x)
  <2>1. PICK h \in written, more \in BOOLEAN :
               ReadPacket(x, Msg("response", id[h], h, more))
    BY Zenon, <1>6 DEF ReadResponse
  <2>2. h \in Calls /\ id[h] > 0 /\ id[h] \in Int
    BY ZenonT(60) DEF OwnerInv, IdInv, IdsGiven, QueueTyped, CtxTyped
  <2>3. Msg("response", id[h], h, more) \in Packet /\ Answers(Msg("response", id[h], h, more))
    BY Zenon, <2>2 DEF Msg, Packet, Message, Ops, Answers
  <2> QED  BY Zenon, <1>5, <2>1, <2>3
<1>7. CASE ReadUnsolicited(x)
  <2>1. /\ Msg("response", 0, NoCall, FALSE) \in Packet
        /\ Answers(Msg("response", 0, NoCall, FALSE))
    BY DEF Msg, Packet, Message, Ops, Answers
  <2> QED  BY Zenon, <1>5, <1>7, <2>1 DEF ReadUnsolicited
<1>8. CASE ReadMalformed(x)
  <2>1. Malformed \in Packet /\ Answers(Malformed)
    BY DEF Malformed, Msg, Packet, Message, Ops, Answers
  <2> QED  BY Zenon, <1>5, <1>8, <2>1 DEF ReadMalformed
<1> QED
  BY Zenon, <1>1, <1>2, <1>3, <1>4, <1>6, <1>7, <1>8 DEF Server, ReaderStep

\* Responses entering chanMessage ...
LEMMA AnswersAppend ==
  ASSUME QueueTyped, NEW m \in Message, m.op = "response" => Answers(m),
         \A i \in At("response") : Answers(chanMessage[i]),
         chanMessage' = Append(chanMessage, m), UNCHANGED id
  PROVE  (\A i \in At("response") : Answers(chanMessage[i]))'
<1>1. \A n : Answers(n) => Answers(n)'
  BY Zenon DEF Answers
<1>2. ASSUME NEW i \in At("response")'
      PROVE  Answers(chanMessage'[i])
  <2>1. CASE i \in At("response")
    BY Zenon, <2>1, AppendAt
  <2>2. CASE i \notin At("response")
    <3>1. m.op = "response" /\ i = Len(chanMessage')
      BY ZenonT(60), <2>2, AppendAt
    <3> QED  BY Zenon, <3>1, AppendAt
  <2> QED  BY Zenon, <2>1, <2>2
<1> QED  BY Zenon, <1>1, <1>2

\* ... and leaving it.
LEMMA AnswersTail ==
  ASSUME QueueTyped, \A i \in At("response") : Answers(chanMessage[i]),
         chanMessage # <<>>, chanMessage' = Tail(chanMessage), UNCHANGED id
  PROVE  /\ (\A i \in At("response") : Answers(chanMessage[i]))'
         /\ Head(chanMessage).op = "response" => Answers(Head(chanMessage))
<1>1. \A n : Answers(n) => Answers(n)'
  BY Zenon DEF Answers
<1>2. ASSUME NEW i \in At("response")'
      PROVE  Answers(chanMessage'[i])
  <2>1. i + 1 \in At("response") /\ chanMessage'[i] = chanMessage[i + 1]
    BY ZenonT(60), TailAt
  <2> QED  BY Zenon, <2>1
<1>3. Head(chanMessage).op = "response" => Answers(Head(chanMessage))
  BY ZenonT(60), TailAt
<1> QED  BY Zenon, <1>1, <1>2, <1>3

\* Requests, responses, timeouts and finish messages are queued with the IDs of
\* the calls they are about.
LEMMA IdSend ==
  ASSUME IInv, NEW p \in Procs, SendStep(p)
  PROVE  IdInv'
<1> USE ProcNames, ProcFields
    DEF IInv, TypeOK, PcTyped, Move, connVars, queueVars, countVars, ctxVars, procVars,
        readerVars
<1>1. CASE SendRefused(p)
  <2>1. AfterSend(p, FALSE) \in {"wait", "lock", "end"}
    BY Zenon DEF AfterSend
  <2> QED  BY Zenon, <1>1, <2>1, IdMove DEF SendRefused
<1>2. CASE SendLock(p)
  BY Zenon, <1>2, IdMove DEF SendLock
<1>3. CASE SendPut(p)
  <2> DEFINE m == Outgoing(p)
  <2>1. AfterSend(p, TRUE) \in {"wait", "read", "end"}
    BY Zenon DEF AfterSend
  <2>2. /\ m \in Message
        /\ m.op = "request" => \E h \in Calls : p = Call(h) /\ pc[p] = "put"
    BY ZenonT(60), <1>3, OutgoingTyped DEF SendPut
  <2>3. m.op = "response" => Answers(m)
    <3>1. CASE \E h \in Calls : p = Call(h) \/ p = Timer(h)
      BY <1>3, <3>1 DEF SendPut, Outgoing, Msg
    <3>2. CASE \E x \in ReaderIds : p = Reader(x)
      <4>1. PICK x \in ReaderIds : p = Reader(x)
        BY Zenon, <3>2
      <4>2. pc[p] = "put"
        BY ZenonT(60), <1>3, <4>1, ProcLabels DEF SendPut, ReaderLabels
      <4>3. Outgoing(p) = packet[x]
        BY Zenon, <4>1 DEF Outgoing
      <4>4. Answers(packet[x])
        BY Zenon, <4>1, <4>2 DEF IdInv, AnswersMatch
      <4> QED  BY ZenonT(60), <4>3, <4>4
    <3>3. CASE \E c \in Closers : p = Closer(c)
      <4>1. pc[p] \notin {"put", "putFin"}
        BY Zenon, <3>3, QuietLabels
      <4> QED  BY Zenon, <1>3, <4>1 DEF SendPut
    <3> QED  BY ZenonT(60), <3>1, <3>2, <3>3
  <2>4. (\A i \in At("response") : Answers(chanMessage[i]))'
    BY Zenon, <1>3, <2>2, <2>3, AnswersAppend DEF SendPut, IdInv, AnswersMatch
  <2>5. AnswersMatch'
    BY ZenonT(60), <1>3, <2>1, <2>4 DEF SendPut, Goto, IdInv, AnswersMatch, Answers
  <2>6. IdsUnique' /\ NoCrossDelivery'
    BY ZenonT(60), <1>3 DEF SendPut, IdInv, IdsUnique, NoCrossDelivery
  <2>7. \A h \in Calls : h \in accepted' => h \in accepted \/ (p = Call(h) /\ pc[p] = "put")
    <3>1. accepted' = IF m.op = "request" THEN accepted \cup {p[2]} ELSE accepted
      BY Zenon, <1>3 DEF SendPut
    <3>2. CASE m.op = "request"
      <4>1. PICK k \in Calls : p = Call(k) /\ pc[p] = "put"
        BY Zenon, <2>2, <3>2
      <4>2. p[2] = k
        BY Zenon, <4>1
      <4> QED  BY Zenon, <3>1, <3>2, <4>1, <4>2
    <3>3. CASE m.op # "request"
      BY Zenon, <3>1, <3>3
    <3> QED  BY Zenon, <3>2, <3>3
  <2>8. IdsGiven'
    <3>1. UNCHANGED <<id, closing>> /\ Goto(p, AfterSend(p, TRUE))
      BY Zenon, <1>3 DEF SendPut
    <3>3. pc'[p] = AfterSend(p, TRUE) /\ \A q \in Procs : q # p => pc'[q] = pc[q]
      BY ZenonT(60), <3>1, GotoOne
    <3>2. \A h \in Calls : pc'[Call(h)] = pc[Call(h)] \/ pc'[Call(h)] \in {"wait", "read", "end"}
      BY Zenon, <2>1, <3>3
    <3> QED  BY ZenonT(60), <2>7, <3>1, <3>2 DEF IdInv, IdsGiven
  <2> QED  BY Zenon, <2>5, <2>6, <2>8 DEF IdInv
<1> QED  BY Zenon, <1>1, <1>2, <1>3 DEF SendStep

\* Close gives no ID and queues no response.
LEMMA IdClose ==
  ASSUME IInv, NEW p \in Procs, CloseStep(p)
  PROVE  IdInv'
<1> USE ProcNames, ProcFields
    DEF IInv, TypeOK, PcTyped, Move, connVars, queueVars, countVars, ctxVars, procVars,
        readerVars
<1>1. CASE CloseLock(p)
  BY Zenon, <1>1, IdMove DEF CloseLock
<1>2. CASE CloseQuit(p)
  <2>1. Quit \in Message /\ Quit.op # "response"
    BY DEF Quit, Msg, Message, Ops
  <2>2. (\A i \in At("response") : Answers(chanMessage[i]))'
    BY Zenon, <1>2, <2>1, AnswersAppend DEF CloseQuit, IdInv, AnswersMatch
  <2>3. AnswersMatch'
    BY ZenonT(60), <1>2, <2>2 DEF CloseQuit, Goto, IdInv, AnswersMatch, Answers
  <2>4. IdsGiven'
    BY Zenon, <1>2 DEF CloseQuit, Goto, IdInv, IdsGiven
  <2>5. IdsUnique' /\ NoCrossDelivery'
    BY ZenonT(60), <1>2 DEF CloseQuit, IdInv, IdsUnique, NoCrossDelivery
  <2> QED  BY Zenon, <2>3, <2>4, <2>5 DEF IdInv
<1>3. CASE CloseConfirmed(p)
  BY Zenon, <1>3, IdMove DEF CloseConfirmed
<1>4. CASE CloseWait(p)
  BY Zenon, <1>4, IdMove DEF CloseWait, AfterClose
<1> QED  BY Zenon, <1>1, <1>2, <1>3, <1>4 DEF CloseStep

\* The processor finds by its ID the call that a response answers.
LEMMA IdProcess ==
  ASSUME IInv, ProcessStep
  PROVE  IdInv'
<1> USE ProcNames, ProcFields
    DEF IInv, TypeOK, PcTyped, connVars, queueVars, countVars, ctxVars, procVars, readerVars
\* What the processor leaves alone.
<1>1. ASSUME UNCHANGED <<id, messageID, closing, accepted, packet>>, NoCrossDelivery',
             (\A i \in At("response") : Answers(chanMessage[i]))',
             \A h \in Calls : pc'[Call(h)] = pc[Call(h)]
                              \/ pc'[Call(h)] \in {"finish", "handshake", "wait"},
             \A x \in ReaderIds : pc'[Reader(x)] = pc[Reader(x)]
      PROVE  IdInv'
  <2>1. IdsUnique'
    BY ZenonT(60), <1>1 DEF IdInv, IdsUnique
  <2>2. IdsGiven'
    BY ZenonT(60), <1>1 DEF IdInv, IdsGiven
  <2>3. AnswersMatch'
    BY Zenon, <1>1 DEF IdInv, AnswersMatch, Answers
  <2> QED  BY Zenon, <1>1, <2>1, <2>2, <2>3 DEF IdInv
<1>2. ASSUME NEW op, Receive(op)
      PROVE  /\ UNCHANGED <<id, messageID, closing, accepted, packet>>
             /\ (\A i \in At("response") : Answers(chanMessage[i]))'
             /\ op = "response" => Answers(Head(chanMessage))
  BY Zenon, <1>2, AnswersTail DEF Receive, IdInv, AnswersMatch
<1>3. ASSUME UNCHANGED <<chanMessage, id>>
      PROVE  (\A i \in At("response") : Answers(chanMessage[i]))'
  BY Zenon, <1>3 DEF IdInv, AnswersMatch, At, Answers
<1>4. CASE ProcessQuit
  BY Zenon, <1>1, <1>2, <1>4 DEF ProcessQuit, NoCrossDelivery
<1>16. CASE ProcessRequest
  BY Zenon, <1>1, <1>2, <1>16 DEF ProcessRequest, NoCrossDelivery
<1>5. CASE WriteReturns
  <2>2. NoCrossDelivery'
    BY Zenon, <1>5 DEF WriteReturns, NoCrossDelivery
  <2>3. /\ \A h \in Calls : pc'[Call(h)] = pc[Call(h)]
        /\ \A x \in ReaderIds : pc'[Reader(x)] = pc[Reader(x)]
    BY Zenon, <1>5, WriteFrame
  <2> QED  BY Zenon, <1>1, <1>3, <1>5, <2>2, <2>3 DEF WriteReturns
<1>6. CASE WriteFails
  BY Zenon, <1>1, <1>3, <1>6 DEF WriteFails, SendResponse, NoCrossDelivery
<1>7. CASE ProcessResponse
  <2> DEFINE m == Head(chanMessage)
  <2>1. PICK h \in Registered(m.id) : SendResponse(h, FALSE, m.call, m.more, "select")
    BY Zenon, <1>7 DEF ProcessResponse
  <2>2. h \in Calls /\ id[h] = m.id /\ id[h] > 0
    BY Zenon, <2>1 DEF Registered, OwnerInv, IdInv, IdsGiven, ProcTyped, QueueTyped
  <2>3. Answers(m)
    BY Zenon, <1>2, <1>7 DEF ProcessResponse
  <2>4. m.call = h
    BY <2>2, <2>3 DEF Answers, IdInv, IdsUnique, CtxTyped
  <2>5. NoCrossDelivery'
    BY Zenon, <2>1, <2>4 DEF SendResponse, NoCrossDelivery
  <2> QED  BY Zenon, <1>1, <1>2, <1>7, <2>5 DEF ProcessResponse
<1>8. CASE ProcessTimeout
  <2>1. NoCrossDelivery'
    BY <1>8 DEF ProcessTimeout, SendResponse, NoCrossDelivery
  <2> QED  BY Zenon, <1>1, <1>2, <1>8, <2>1 DEF ProcessTimeout
<1>9. CASE ProcessFinish
  BY Zenon, <1>1, <1>2, <1>9 DEF ProcessFinish, Receive, NoCrossDelivery
<1>10. CASE ProcessUnknown
  BY Zenon, <1>1, <1>2, <1>10 DEF ProcessUnknown, Receive, NoCrossDelivery
<1>11. ASSUME NEW h \in Calls, Deliver(h)
       PROVE  IdInv'
  <2>1. PICK l \in {"finish", "handshake", "wait"} : Goto(Call(h), l)
    BY Zenon, <1>11 DEF Deliver
  <2>2. /\ \A k \in Calls : pc'[Call(k)] = pc[Call(k)]
                            \/ pc'[Call(k)] \in {"finish", "handshake", "wait"}
        /\ \A x \in ReaderIds : pc'[Reader(x)] = pc[Reader(x)]
    BY ZenonT(60), <2>1 DEF Goto
  <2>3. NoCrossDelivery'
    BY Zenon, <1>11 DEF Deliver, AfterResponse, NoCrossDelivery
  <2> QED  BY Zenon, <1>1, <1>3, <1>11, <2>2, <2>3 DEF Deliver, AfterResponse
<1>12. CASE Drop
  BY Zenon, <1>1, <1>3, <1>12 DEF Drop, AfterResponse, NoCrossDelivery
<1>13. CASE DrainTell
  <2>1. NoCrossDelivery'
    <3>1. PICK h \in messageContexts : SendResponse(h, TRUE, h, FALSE, "drain")
      BY Zenon, <1>13 DEF DrainTell
    <3> QED  BY Zenon, <3>1 DEF SendResponse, NoCrossDelivery
  <2> QED  BY Zenon, <1>1, <1>3, <1>13, <2>1 DEF DrainTell
<1>14. CASE DrainClose
  BY Zenon, <1>1, <1>3, <1>14 DEF DrainClose, NoCrossDelivery
<1>15. CASE DrainEnd
  BY Zenon, <1>1, <1>3, <1>15 DEF DrainEnd, NoCrossDelivery
<1> QED
  BY Zenon, <1>4, <1>5, <1>6, <1>7, <1>8, <1>9, <1>10, <1>11, <1>12, <1>13, <1>14, <1>15, <1>16
  DEF ProcessStep

\* Message IDs stay unique and responses stay with their requests.
LEMMA IdStep ==
  ASSUME IInv, Next
  PROVE  IdInv'
<1> USE ProcNames, ProcFields
    DEF IInv, TypeOK, PcTyped, Move, connVars, queueVars, countVars, ctxVars, procVars,
        readerVars
<1>1. CASE StartAdd \/ SetTimeout \/ NetBreak
  <2>1. UNCHANGED <<pc, closing, id, messageID, accepted, chanMessage, packet, ppc, sending>>
    BY Zenon, <1>1 DEF StartAdd, SetTimeout, NetBreak
  <2>2. IdsUnique' /\ IdsGiven'
    BY ZenonT(60), <2>1 DEF IdInv, IdsUnique, IdsGiven
  <2>3. AnswersMatch' /\ NoCrossDelivery'
    BY ZenonT(60), <2>1 DEF IdInv, AnswersMatch, At, Answers, NoCrossDelivery
  <2> QED  BY Zenon, <2>2, <2>3 DEF IdInv
<1>2. ASSUME NEW h \in TLSCalls, Handshake(h)
      PROVE  IdInv'
  <2>1. CASE TLSRefused(h)
    BY Zenon, <2>1, IdMove DEF TLSRefused
  <2>2. CASE TLSFails(h)
    BY Zenon, <2>2, IdMove DEF TLSFails
  <2>3. CASE TLSUp(h)
    BY ZenonT(60), <2>3 DEF TLSUp, IdInv, IdsUnique, IdsGiven, AnswersMatch, At, Answers,
       NoCrossDelivery
  <2> QED  BY Zenon, <1>2, <2>1, <2>2, <2>3 DEF Handshake
<1>3. ASSUME NEW c \in Closers, UserClose(c)
      PROVE  IdInv'
  BY Zenon, <1>3, IdMove DEF UserClose
<1> QED
  BY Zenon, <1>1, <1>2, <1>3, IdCall, IdReader, IdSend, IdClose, IdProcess DEF Next

=============================================================================
