-------------------------- MODULE LdapConnTheorems --------------------------
(***************************************************************************)
(* The last part of the inductive invariant, what outstandingRequests      *)
(* counts, and what the invariant gives, for any number of calls, closers  *)
(* and packets and any capacity of chanMessage.                            *)
(***************************************************************************)
EXTENDS LdapConnProofs, FiniteSetTheorems

\* There are finitely many calls to count.
LEMMA CountedFinite == IsFiniteSet(Counted) /\ Cardinality(Counted) \in Nat
<1>1. Counted \subseteq Calls /\ IsFiniteSet(Calls)
  BY Zenon, ConnAssumption DEF Counted
<1> QED  BY Zenon, <1>1, FS_Subset, FS_CardinalityType

\* The steps that admit no call and finish none.
LEMMA CountKept ==
  ASSUME CountInv, Counted' = Counted, UNCHANGED countVars, closing => closing'
  PROVE  CountInv'
BY Zenon DEF CountInv, CountIsExact, StartTLSAlone, countVars

\* A call is admitted: StartTLS only when nothing is outstanding.
LEMMA CountAdmit ==
  ASSUME IInv, NEW h \in Calls, Admit(h)
  PROVE  CountInv'
<1> USE DEF IInv, TypeOK
<1>1. h \notin Counted /\ Counted' = Counted \cup {h}
  BY ProcNames, ProcFields DEF Admit, Goto, PcTyped, Counted, CloseHolds
<1>2. Cardinality(Counted') = Cardinality(Counted) + 1
  BY Zenon, <1>1, CountedFinite, FS_AddElement
<1>3. CountIsExact'
  BY <1>2, CountedFinite DEF Admit, connVars, ConnTyped, CountInv, CountIsExact
<1>4. StartTLSAlone'
  <2>1. CASE h \in TLSCalls
    <3>1. Cardinality(Counted) = 0
      BY <2>1, CountedFinite DEF Admit, Refused, CountInv, CountIsExact
    <3>2. Counted = {}
      BY Zenon, <3>1, CountedFinite, FS_EmptySet
    <3> QED  BY Zenon, <1>1, <2>1, <3>2 DEF Admit, StartTLSAlone
  <2>2. CASE h \notin TLSCalls
    <3>1. TLSCalls \cap Counted = {}
      BY Zenon DEF Admit, Refused, CountInv, StartTLSAlone
    <3> QED  BY Zenon, <1>1, <2>2, <3>1 DEF StartTLSAlone
  <2> QED  BY Zenon, <2>1, <2>2
<1> QED  BY Zenon, <1>3, <1>4 DEF CountInv

\* A call leaves: it is uncounted, or the connection is closing.
LEMMA CountLeave ==
  ASSUME IInv, NEW h \in Counted, Counted' = Counted \ {h},
         \/ /\ closing' /\ UNCHANGED <<outstandingRequests, isStartingTLS>>
         \/ /\ outstandingRequests' = outstandingRequests - 1
            /\ UNCHANGED closing
  PROVE  CountInv'
<1> USE DEF IInv, TypeOK
<1>1. Cardinality(Counted') = Cardinality(Counted) - 1
  BY Zenon, CountedFinite, FS_RemoveElement
<1>2. CountIsExact'
  BY <1>1, CountedFinite DEF ConnTyped, CountInv, CountIsExact
<1>3. TLSCalls \cap Counted' = {}
  BY Zenon DEF CountInv, StartTLSAlone
<1>4. StartTLSAlone'
  BY Zenon, <1>3 DEF StartTLSAlone
<1> QED  BY Zenon, <1>2, <1>4 DEF CountInv

\* outstandingRequests stays exact and a StartTLS stays alone.
LEMMA CountStep ==
  ASSUME IInv, Next
  PROVE  CountInv'
<1> USE ProcNames, ProcFields
    DEF IInv, TypeOK, PcTyped, Move, CloseHolds, connVars, queueVars, countVars, ctxVars,
        procVars, readerVars
\* A call that moves inside or outside the counted part of its code.
<1>1. ASSUME NEW h \in Calls, NEW l, Goto(Call(h), l), UNCHANGED <<countVars, closing>>,
             h \in Counted <=> l \in {"send", "put", "wait", "handshake", "lock", "finish",
                                      "leave", "uncount"} \cup CloseHolds
      PROVE  CountInv'
  <2>1. Counted' = Counted
    BY ZenonT(60), <1>1 DEF Goto, Counted
  <2> QED  BY Zenon, <1>1, <2>1, CountKept
\* A step of another goroutine.
<1>2. ASSUME \A h \in Calls : pc'[Call(h)] = pc[Call(h)], UNCHANGED countVars,
             closing => closing'
      PROVE  CountInv'
  <2>1. Counted' = Counted
    BY ZenonT(60), <1>2 DEF Counted
  <2> QED  BY Zenon, <1>2, <2>1, CountKept
<1>3. CASE StartAdd \/ SetTimeout \/ NetBreak
  BY Zenon, <1>2, <1>3 DEF StartAdd, SetTimeout, NetBreak
<1>4. ASSUME NEW h \in Calls, CallBegin(h) \/ CallStep(h) \/ TimerFires(h)
      PROVE  CountInv'
  <2>1. CASE CallBegin(h)
    BY Zenon, <1>1, <2>1 DEF CallBegin, Counted
  <2>2. CASE TakeID(h)
    BY Zenon, <1>1, <2>2 DEF TakeID, Counted
  <2>3. CASE TakeNoID(h)
    BY Zenon, <1>1, <2>3 DEF TakeNoID, Counted
  <2>4. CASE EncodeFails(h)
    BY Zenon, <1>1, <2>4 DEF EncodeFails, Counted
  <2>5. CASE CheckClosing(h)
    BY Zenon, <1>1, <2>5 DEF CheckClosing, Counted
  <2>6. CASE Reject(h)
    BY Zenon, <1>1, <2>6 DEF Reject, Counted
  <2>7. CASE Admit(h)
    BY Zenon, <2>7, CountAdmit
  <2>8. CASE ChannelClosed(h)
    BY Zenon, <1>1, <2>8 DEF ChannelClosed, Counted
  <2>9. CASE Finish(h)
    BY Zenon, <1>1, <2>9 DEF Finish, Counted
  <2>10. CASE FinishCheck(h)
    <3>1. CASE closing
      <4>1. h \in Counted /\ Counted' = Counted \ {h}
        BY <2>10, <3>1 DEF FinishCheck, Goto, Counted
      <4> QED  BY Zenon, <2>10, <3>1, <4>1, CountLeave DEF FinishCheck
    <3>2. CASE ~closing
      BY Zenon, <1>1, <2>10, <3>2 DEF FinishCheck, Counted
    <3> QED  BY Zenon, <3>1, <3>2
  <2>11. CASE Uncount(h)
    <3>1. h \in Counted /\ Counted' = Counted \ {h}
      BY <2>11 DEF Uncount, Goto, Counted
    <3> QED  BY Zenon, <2>11, <3>1, CountLeave DEF Uncount
  <2>12. CASE TimerFires(h)
    BY <1>2, <2>12 DEF TimerFires, Goto
  <2> QED
    BY Zenon, <1>4, <2>1, <2>2, <2>3, <2>4, <2>5, <2>6, <2>7, <2>8, <2>9, <2>10, <2>11, <2>12
    DEF CallStep
<1>5. ASSUME NEW h \in TLSCalls, Handshake(h)
      PROVE  CountInv'
  <2>1. CASE TLSRefused(h)
    BY Zenon, <1>1, <2>1 DEF TLSRefused, Counted
  <2>2. CASE TLSFails(h)
    BY Zenon, <1>1, <2>2 DEF TLSFails, Counted
  <2>3. CASE TLSUp(h)
    <3>1. Counted' = Counted
      BY <2>3 DEF TLSUp, Counted
    <3> QED  BY Zenon, <2>3, <3>1, CountKept DEF TLSUp
  <2> QED  BY Zenon, <1>5, <2>1, <2>2, <2>3 DEF Handshake
<1>6. ASSUME NEW x \in ReaderIds, Server(x) \/ ReaderStep(x)
      PROVE  CountInv'
  <2>1. ASSUME NEW m, ReadPacket(x, m)
        PROVE  CountInv'
    <3>1. Goto(Reader(x), "mark") /\ UNCHANGED <<countVars, closing>>
      BY Zenon, <2>1 DEF ReadPacket
    <3>2. \A h \in Calls : pc'[Call(h)] = pc[Call(h)]
      BY Zenon, <3>1, GotoReader
    <3> QED  BY Zenon, <1>2, <3>1, <3>2
  <2>2. CASE ReadBad(x)
    BY Zenon, <1>2, <2>2 DEF ReadBad
  <2>3. CASE ReaderStep(x)
    <3>1. (\E l : Goto(Reader(x), l)) /\ UNCHANGED <<countVars, closing>>
      BY Zenon, <2>3 DEF ReaderStep, ReadError, StoreErr, Mark
    <3>2. \A h \in Calls : pc'[Call(h)] = pc[Call(h)]
      BY Zenon, <3>1, GotoReader
    <3> QED  BY Zenon, <1>2, <3>1, <3>2
  <2> QED
    BY Zenon, <1>6, <2>1, <2>2, <2>3 DEF Server, ReadResponse, ReadUnsolicited, ReadMalformed
<1>7. ASSUME NEW c \in Closers, UserClose(c)
      PROVE  CountInv'
  BY <1>2, <1>7 DEF UserClose, Goto
<1>8. ASSUME NEW p \in Procs, SendStep(p) \/ CloseStep(p)
      PROVE  CountInv'
  <2>1. CASE \A h \in Calls : p # Call(h)
    <3>1. \A h \in Calls : pc'[Call(h)] = pc[Call(h)]
      <4>1. \E l : Goto(p, l)
        BY ZenonT(60), <1>8 DEF SendStep, SendRefused, SendLock, SendPut, CloseStep, CloseLock, CloseQuit,
           CloseConfirmed, CloseWait
      <4> QED  BY ZenonT(60), <2>1, <4>1, GotoOther
    <3>2. UNCHANGED countVars
      BY ZenonT(60), <1>8 DEF SendStep, SendRefused, SendLock, SendPut, CloseStep, CloseLock, CloseQuit,
         CloseConfirmed, CloseWait
    <3>3. CASE CloseLock(p)
      BY Zenon, <1>2, <3>1, <3>2, <3>3 DEF CloseLock
    <3>4. CASE ~CloseLock(p)
      <4>1. UNCHANGED closing
        BY ZenonT(60), <1>8, <3>4 DEF SendStep, SendRefused, SendLock, SendPut, CloseStep, CloseQuit,
           CloseConfirmed, CloseWait
      <4> QED  BY Zenon, <1>2, <3>1, <3>2, <4>1
    <3> QED  BY Zenon, <3>3, <3>4
  <2>2. ASSUME NEW h \in Calls, p = Call(h)
        PROVE  CountInv'
    <3>1. CASE SendStep(p)
      BY ZenonT(60), <1>1, <2>2, <3>1 DEF SendStep, SendRefused, SendLock, SendPut, AfterSend, Counted
    <3>2. CASE CloseLock(p)
      <4>1. Counted' = Counted
        <5>1. pc[Call(h)] = "lock" /\ \E l \in {"wgwait", "quit"} : Goto(Call(h), l)
          BY Zenon, <2>2, <3>2 DEF CloseLock
        <5>2. /\ pc'[Call(h)] \in {"wgwait", "quit"}
              /\ \A k \in Calls : k # h => pc'[Call(k)] = pc[Call(k)]
          BY ZenonT(60), <5>1, GotoCall
        <5> QED  BY ZenonT(60), <5>1, <5>2 DEF Counted
      <4> QED  BY Zenon, <3>2, <4>1, CountKept DEF CloseLock
    <3>3. CASE CloseQuit(p) \/ CloseConfirmed(p) \/ CloseWait(p)
      BY Zenon, <1>1, <2>2, <3>3 DEF CloseQuit, CloseConfirmed, CloseWait, AfterClose, Counted
    <3> QED  BY Zenon, <1>8, <3>1, <3>2, <3>3 DEF CloseStep
  <2> QED  BY Zenon, <2>1, <2>2
<1>9. CASE ProcessStep
  <2>1. ASSUME NEW h \in Calls, Deliver(h)
        PROVE  CountInv'
    <3>1. PICK l \in {"finish", "handshake", "wait"} : Goto(Call(h), l)
      BY Zenon, <2>1 DEF Deliver
    <3> QED  BY Zenon, <1>1, <2>1, <3>1 DEF Deliver, AfterResponse, Counted
  <2>2. CASE WriteReturns
    BY Zenon, <1>2, <2>2, WriteFrame DEF WriteReturns
  <2>3. CASE ProcessQuit \/ ProcessRequest \/ WriteFails \/ ProcessResponse \/ ProcessTimeout
             \/ ProcessFinish \/ ProcessUnknown \/ DrainTell \/ DrainClose
             \/ DrainEnd \/ Drop
    <3>1. UNCHANGED <<pc, countVars, closing>>
      BY Zenon, <2>3 DEF ProcessQuit, ProcessRequest, WriteFails, ProcessResponse, ProcessTimeout,
         ProcessFinish, ProcessUnknown, DrainTell, DrainClose, DrainEnd, Drop,
         Receive, AfterResponse
    <3> QED  BY Zenon, <1>2, <3>1
  <2> QED  BY Zenon, <1>9, <2>1, <2>2, <2>3 DEF ProcessStep
<1> QED
  BY Zenon, <1>3, <1>4, <1>5, <1>6, <1>7, <1>8, <1>9 DEF Next

-----------------------------------------------------------------------------
\* The state Start leaves behind satisfies the inductive invariant.
LEMMA InvInit == Init => IInv
<1> SUFFICES ASSUME Init PROVE IInv
  BY Zenon
<1>1. /\ \A h \in Calls : pc[Call(h)] = "idle" /\ pc[Timer(h)] = "off"
      /\ \A x \in ReaderIds : pc[Reader(x)] \in {"read", "off"}
      /\ \A h \in TLSCalls : pc[Reader(h)] = "off"
  <2>1. \A h \in Calls : Call(h) # Reader(Dialer) /\ Timer(h) # Reader(Dialer)
    BY ZenonT(60), ProcFields
  <2>2. \A h \in TLSCalls : Reader(h) # Reader(Dialer)
    BY ProcFields, ConnAssumption DEF Calls
  <2> QED  BY Zenon, <2>1, <2>2, ProcNames, ProcFields DEF Init
<1>2. /\ chanMessage = <<>> /\ accepted = {} /\ messageContexts = {} /\ written = {}
      /\ ppc = "select" /\ messageID = 1 /\ outstandingRequests = 0
      /\ id = [h \in Calls |-> -1] /\ responses = [h \in Calls |-> "open"]
  BY Zenon DEF Init
<1>3. \A op : At(op) = {}
  BY <1>2 DEF At
<1>4. PacketInv
  BY Zenon, <1>1 DEF PacketInv
<1>5. CallInv
  BY Zenon, <1>1, <1>2 DEF CallInv, CloseHolds
<1>6. OwnerInv
  BY Zenon, <1>1, <1>2, <1>3 DEF OwnerInv, NoUseOfClosed, NoneForgotten, RequestOnce, Queued
<1>7. IdInv
  BY <1>1, <1>2, <1>3 DEF IdInv, IdsUnique, IdsGiven, AnswersMatch, NoCrossDelivery
<1>8. Counted = {}
  BY Zenon, <1>1 DEF Counted, CloseHolds
<1>9. CountInv
  BY <1>2, <1>8, FS_EmptySet DEF CountInv, CountIsExact, StartTLSAlone
<1> QED
  BY Zenon, <1>4, <1>5, <1>6, <1>7, <1>9, TypeInit, ShutdownInit DEF IInv

\* Every step of every goroutine preserves the inductive invariant.
LEMMA InvStep == IInv /\ [Next]_vars => IInv'
<1> SUFFICES ASSUME IInv, [Next]_vars PROVE IInv'
  BY Zenon
<1>1. CASE Next
  <2>1. TypeOK /\ TypeOK' /\ CallInv
    BY Zenon, <1>1, TypeStep DEF IInv
  <2>2. PacketInv' /\ CallInv' /\ IdInv' /\ CountInv'
    BY Zenon, <1>1, PacketStep, CallInvStep, IdStep, CountStep
  <2>3. \A h \in Calls : pc[Timer(h)] = "off" =>
          pc'[Timer(h)] = "off" \/ (WriteReturns /\ sending.to = h)
    BY Zenon, <1>1, <2>1, TimersOff
  <2>4. CASE ProcessStep
    BY Zenon, <2>1, <2>2, <2>3, <2>4, OwnerProcess, ShutdownProcess DEF IInv
  <2>5. ASSUME NEW p \in Procs, SendStep(p) \/ CloseStep(p)
        PROVE  IInv'
    <3>1. TimersKept
      <4>3. ~WriteReturns
        <5>1. UNCHANGED ppc
          BY Zenon, <2>5 DEF SendStep, SendRefused, SendLock, SendPut, CloseStep, CloseLock,
             CloseQuit, CloseConfirmed, CloseWait, Move, procVars
        <5> QED  BY Zenon, <5>1 DEF WriteReturns
      <4> QED  BY Zenon, <2>3, <4>3 DEF TimersKept
    <3> QED
      BY Zenon, <2>1, <2>2, <2>5, <3>1, OwnerSend, OwnerClose, ShutdownSend, ShutdownClose
      DEF IInv
  <2>6. CASE \/ StartAdd \/ SetTimeout \/ NetBreak
             \/ \E h \in Calls : CallBegin(h) \/ CallStep(h) \/ TimerFires(h)
             \/ \E h \in TLSCalls : Handshake(h)
             \/ \E x \in ReaderIds : Server(x) \/ ReaderStep(x)
             \/ \E c \in Closers : UserClose(c)
    <3>1. /\ PcQuiet
          /\ UNCHANGED <<messageMutex, closing, queueClosed, chanMessage, accepted,
                         ppc, sending, messageContexts, responses, written>>
      BY Zenon, <2>1, <2>6, QuietStep
    <3>2. ~WriteReturns
      BY Zenon, <3>1 DEF WriteReturns
    <3>3. TimersKept
      BY Zenon, <2>3, <3>2 DEF TimersKept
    <3>4. OwnerInv' /\ ShutdownInv'
      BY Zenon, <3>1, <3>3, OwnerKept, QuietShutdown DEF IInv, ownerVars
    <3> QED  BY Zenon, <2>1, <2>2, <3>4 DEF IInv
  <2> QED  BY Zenon, <1>1, <2>4, <2>5, <2>6 DEF Next
<1>2. CASE UNCHANGED vars
  <2> USE <1>2 DEF vars, connVars, queueVars, countVars, ctxVars, procVars, readerVars, IInv
  <2>1. TypeOK'
    BY Zenon, TypeStep
  <2>2. ShutdownInv'
    BY ZenonT(60) DEF ShutdownInv, MutexOwner, QuitIsLast, At
  <2>3. PacketInv' /\ CallInv'
    BY Zenon DEF PacketInv, CallInv
  <2>4. OwnerInv'
    BY Zenon, OwnerKept DEF TimersKept, ownerVars
  <2>5. IdInv'
    BY ZenonT(60) DEF IdInv, IdsUnique, IdsGiven, AnswersMatch, At, Answers, NoCrossDelivery
  <2>6. CountInv'
    BY ZenonT(60) DEF CountInv, CountIsExact, StartTLSAlone, Counted
  <2> QED  BY Zenon, <2>1, <2>2, <2>3, <2>4, <2>5, <2>6
<1> QED  BY Zenon, <1>1, <1>2

\* The inductive invariant holds in every behaviour.
THEOREM Invariance == Spec => []IInv
BY InvInit, InvStep, PTL DEF Spec

-----------------------------------------------------------------------------
\* Nothing is ever sent on chanMessage, nor is it closed again, after
\* close(chanMessage).
THEOREM SendSafe == Spec => []NoSendOnClosed
<1>1. IInv => NoSendOnClosed
  BY Zenon DEF IInv, ShutdownInv, NoSendOnClosed
<1> QED  BY <1>1, Invariance, PTL

\* The quit message is the last in chanMessage, so nothing accepted is left
\* unprocessed when processMessages leaves its loop.
THEOREM QuitSafe == Spec => []QuitIsLast
<1>1. IInv => QuitIsLast
  BY Zenon DEF IInv, ShutdownInv
<1> QED  BY <1>1, Invariance, PTL

\* No responses channel is closed twice or sent on after it was closed.
THEOREM CloseSafe == Spec => []NoUseOfClosed
<1>1. IInv => NoUseOfClosed
  BY Zenon DEF IInv, OwnerInv
<1> QED  BY <1>1, Invariance, PTL

\* The processor keeps track of every accepted call until its channel is closed.
THEOREM AllOwned == Spec => []NoneForgotten
<1>1. IInv => NoneForgotten
  BY Zenon DEF IInv, OwnerInv
<1> QED  BY <1>1, Invariance, PTL

\* No call is given the response to another's request.
THEOREM ResponsesMatch == Spec => []NoCrossDelivery
<1>1. IInv => NoCrossDelivery
  BY Zenon DEF IInv, IdInv
<1> QED  BY <1>1, Invariance, PTL

\* outstandingRequests is exact while the connection is open and never below
\* the number of requests under way.
THEOREM CountSafe == Spec => []CountIsExact
<1>1. IInv => CountIsExact
  BY Zenon DEF IInv, CountInv
<1> QED  BY <1>1, Invariance, PTL

\* While a StartTLS is under way no other request is.
THEOREM StartTLSSafe == Spec => []StartTLSAlone
<1>1. IInv => StartTLSAlone
  BY Zenon DEF IInv, CountInv
<1> QED  BY <1>1, Invariance, PTL

\* sendResponse waits only for a call that is receiving or about to close done,
\* unless that call is a StartTLS.
THEOREM ReceiverSafe == Spec => []ReceiverReady
<1>1. IInv => ReceiverReady
  <2> SUFFICES ASSUME IInv, ppc = "send", sending.to \notin TLSCalls
               PROVE  done[sending.to] \/ pc[Call(sending.to)] \in {"wait", "finish"}
    BY Zenon DEF ReceiverReady
  <2>1. sending.to \in accepted /\ sending.to \in Calls
    BY Zenon DEF IInv, OwnerInv, TypeOK, QueueTyped
  <2>2. pc[Call(sending.to)] \in Sent
    BY Zenon, <2>1 DEF IInv, CallInv
  <2> QED  BY Zenon, <2>1, <2>2 DEF IInv, CallInv, Sent
<1> QED  BY <1>1, Invariance, PTL

-----------------------------------------------------------------------------
\* Which steps change what Close does once.
LEMMA CloseFrame ==
  ASSUME Next
  PROVE  \/ UNCHANGED <<started, wgClose, net, queueClosed>>
         \/ StartAdd
         \/ NetBreak
         \/ \E p \in Procs : CloseConfirmed(p)
<1> DEFINE Kept == UNCHANGED <<started, wgClose, net, queueClosed>>
<1> USE DEF connVars, queueVars, Move
<1>1. CASE SetTimeout
  BY Zenon, <1>1 DEF SetTimeout
<1>2. ASSUME NEW p \in Procs, SendStep(p)
      PROVE  Kept
  BY Zenon, <1>2 DEF SendStep, SendRefused, SendLock, SendPut
<1>3. ASSUME NEW p \in Procs, CloseLock(p) \/ CloseQuit(p) \/ CloseWait(p)
      PROVE  Kept
  BY Zenon, <1>3 DEF CloseLock, CloseQuit, CloseWait
<1>4. ASSUME NEW h \in Calls, CallBegin(h) \/ CallStep(h) \/ TimerFires(h)
      PROVE  Kept
  BY Zenon, <1>4 DEF CallBegin, CallStep, TakeID, TakeNoID, EncodeFails, CheckClosing,
     Reject, Admit, ChannelClosed, Finish, FinishCheck, Uncount, TimerFires
<1>5. ASSUME NEW h \in TLSCalls, Handshake(h)
      PROVE  Kept
  BY Zenon, <1>5 DEF Handshake, TLSRefused, TLSFails, TLSUp
<1>6. ASSUME NEW x \in ReaderIds, Server(x) \/ ReaderStep(x)
      PROVE  Kept
  BY Zenon, <1>6 DEF Server, ReadResponse, ReadUnsolicited, ReadMalformed, ReadPacket, ReadBad,
     ReaderStep, ReadError, StoreErr, Mark
<1>7. ASSUME NEW c \in Closers, UserClose(c)
      PROVE  Kept
  BY Zenon, <1>7 DEF UserClose
<1>8. CASE ProcessStep
  BY ZenonT(60), <1>8 DEF ProcessStep, ProcessQuit, ProcessRequest, WriteReturns, WriteFails,
     ProcessResponse, ProcessTimeout, ProcessFinish, ProcessUnknown, DrainTell,
     DrainClose, DrainEnd, Drop, Deliver, Receive, AfterResponse
<1> QED
  BY Zenon, <1>1, <1>2, <1>3, <1>4, <1>5, <1>6, <1>7, <1>8 DEF Next, CloseStep

\* No reader ends unless it stops cleanly.
ReadersKept ==
  \A x \in ReaderIds : pc'[Reader(x)] = "end" /\ ~cleanstop'[x] =>
    pc[Reader(x)] = "end" /\ ~cleanstop[x]

\* A step outside Close keeps the connection as closed as it was.
LEMMA GoneKept ==
  ASSUME GoneInv, ReadersKept, UNCHANGED closing, net = "closed" => net' = "closed",
         \A p \in Procs :
           pc'[p] = pc[p] \/ (pc[p] \notin CloseHolds /\ pc'[p] \notin CloseHolds)
  PROVE  GoneInv'
BY Zenon DEF GoneInv, ReadersKept, CloseHolds

\* No step outside sendProcessMessage and Close ends a reader that does not stop
\* cleanly.
LEMMA ReadersQuiet ==
  ASSUME IInv,
         \/ StartAdd \/ SetTimeout \/ NetBreak
         \/ \E h \in Calls : CallBegin(h) \/ CallStep(h) \/ TimerFires(h)
         \/ \E h \in TLSCalls : Handshake(h)
         \/ \E x \in ReaderIds : Server(x) \/ ReaderStep(x)
         \/ \E c \in Closers : UserClose(c)
  PROVE  ReadersKept
<1> USE DEF Move, connVars, queueVars, countVars, ctxVars, procVars, readerVars
<1>1. PcTyped /\ cleanstop \in [ReaderIds -> BOOLEAN]
  BY Zenon DEF IInv, TypeOK, ReaderTyped
<1>2. CASE StartAdd \/ SetTimeout \/ NetBreak
  BY Zenon, <1>2 DEF StartAdd, SetTimeout, NetBreak, ReadersKept
<1>3. ASSUME NEW h \in Calls, CallBegin(h) \/ CallStep(h) \/ TimerFires(h)
      PROVE  ReadersKept
  <2>1. UNCHANGED cleanstop
    BY Zenon, <1>3 DEF CallBegin, CallStep, TakeID, TakeNoID, EncodeFails, CheckClosing,
       Reject, Admit, ChannelClosed, Finish, FinishCheck, Uncount, TimerFires
  <2>2. \E p \in {Call(h), Timer(h)} : \E l : Goto(p, l)
    BY Zenon, <1>3 DEF CallBegin, CallStep, TakeID, TakeNoID, EncodeFails, CheckClosing,
       Reject, Admit, ChannelClosed, Finish, FinishCheck, Uncount, TimerFires
  <2> QED  BY Zenon, <1>1, <2>1, <2>2, GotoCaller DEF ReadersKept
<1>4. ASSUME NEW h \in TLSCalls, Handshake(h)
      PROVE  ReadersKept
  <2>1. h \in Calls /\ UNCHANGED cleanstop
    BY Zenon, <1>4 DEF Handshake, TLSRefused, TLSFails, TLSUp, Calls
  <2>2. CASE TLSRefused(h) \/ TLSFails(h)
    BY Zenon, <1>1, <2>1, <2>2, GotoCaller DEF TLSRefused, TLSFails, ReadersKept
  <2>3. CASE TLSUp(h)
    <3>1. pc' = [pc EXCEPT ![Call(h)] = "finish", ![Reader(h)] = "read"]
      BY Zenon, <2>3 DEF TLSUp
    <3>2. h \in ReaderIds => pc'[Reader(h)] = "read"
      BY Zenon, <1>1, <3>1, ProcNames DEF PcTyped
    <3> QED  BY Zenon, <1>1, <2>1, <2>3, <3>2, TLSUpFrame DEF ReadersKept
  <2> QED  BY Zenon, <1>4, <2>2, <2>3 DEF Handshake
<1>5. ASSUME NEW x \in ReaderIds, Server(x) \/ ReadError(x) \/ StoreErr(x)
      PROVE  ReadersKept
  <2>1. UNCHANGED cleanstop
    BY Zenon, <1>5 DEF Server, ReadResponse, ReadUnsolicited, ReadMalformed, ReadPacket, ReadBad,
       ReadError, StoreErr
  <2>2. UNCHANGED pc \/ \E l \in {"mark", "lock", "storeErr"} : Goto(Reader(x), l)
    BY Zenon, <1>5 DEF Server, ReadResponse, ReadUnsolicited, ReadMalformed, ReadPacket, ReadBad,
       ReadError, StoreErr
  <2> QED  BY Zenon, <1>1, <2>1, <2>2, GotoReader DEF ReadersKept
<1>6. ASSUME NEW x \in ReaderIds, Mark(x)
      PROVE  ReadersKept
  <2>1. /\ cleanstop'[x] = isStartingTLS
        /\ \A y \in ReaderIds : y # x => cleanstop'[y] = cleanstop[y]
    BY Zenon, <1>1, <1>6 DEF Mark
  <2>2. PICK l \in {"send", "end", "lock"} :
          Goto(Reader(x), l) /\ (l = "end" => isStartingTLS)
    <3>1. CASE packet[x].op # "malformed"
      BY Zenon, <1>6, <3>1 DEF Mark
    <3>2. CASE packet[x].op = "malformed" /\ isStartingTLS
      BY Zenon, <1>6, <3>2 DEF Mark
    <3>3. CASE packet[x].op = "malformed" /\ ~isStartingTLS
      BY Zenon, <1>6, <3>3 DEF Mark
    <3> QED  BY Zenon, <3>1, <3>2, <3>3
  <2> QED  BY Zenon, <1>1, <2>1, <2>2, GotoReader DEF ReadersKept
<1>7. ASSUME NEW c \in Closers, UserClose(c)
      PROVE  ReadersKept
  <2>1. Closer(c) \in Procs /\ \A x \in ReaderIds : Closer(c) # Reader(x)
    BY ProcNames, ProcFields
  <2> QED  BY Zenon, <1>1, <1>7, <2>1, GotoNoReader DEF UserClose, ReadersKept
<1> QED  BY Zenon, <1>2, <1>3, <1>4, <1>5, <1>6, <1>7 DEF ReaderStep

\* Close closes the net.Conn before it returns, or waits for the Close that does.
LEMMA GoneClose ==
  ASSUME IInv, GoneInv, NEW p \in Procs, CloseStep(p)
  PROVE  GoneInv'
<1> USE DEF connVars, queueVars, countVars, ctxVars, procVars, readerVars
<1>1. PcTyped /\ MutexOwner /\ UNCHANGED cleanstop
  BY Zenon DEF IInv, TypeOK, ShutdownInv, CloseStep, CloseLock, CloseQuit, CloseConfirmed, CloseWait
<1>2. ASSUME NEW l, Goto(p, l)
      PROVE  pc'[p] = l /\ \A q \in Procs : q # p => pc'[q] = pc[q]
  BY Zenon, <1>1, <1>2 DEF Goto, PcTyped
<1>3. \A x \in ReaderIds : Reader(x) \in Procs
  BY Zenon, ProcNames
<1>4. CASE CloseLock(p)
  <2>1. closing => net = "closed"
    BY Zenon, <1>1, <1>4, ProcNames DEF CloseLock, GoneInv, MutexOwner, Holding, CloseHolds
  <2>2. \E l : Goto(p, l) /\ l = (IF closing THEN "wgwait" ELSE "quit") /\ UNCHANGED net
    BY Zenon, <1>4 DEF CloseLock
  <2> QED  BY Zenon, <1>1, <1>2, <1>3, <2>1, <2>2 DEF GoneInv
<1>5. CASE CloseQuit(p)
  <2>1. Goto(p, "confirm") /\ UNCHANGED <<net, closing>>
    BY Zenon, <1>5 DEF CloseQuit
  <2> QED  BY Zenon, <1>1, <1>2, <1>3, <2>1 DEF GoneInv
<1>6. CASE CloseConfirmed(p)
  BY Zenon, <1>6 DEF CloseConfirmed, GoneInv
<1>7. CASE CloseWait(p)
  BY Zenon, <1>7 DEF CloseWait, GoneInv
<1> QED  BY Zenon, <1>4, <1>5, <1>6, <1>7 DEF CloseStep

\* Every step keeps what is known of a reader that is gone.
LEMMA GoneStep ==
  ASSUME IInv, GoneInv, Next
  PROVE  GoneInv'
<1> USE DEF connVars, queueVars, countVars, ctxVars, procVars, readerVars
<1>1. PcTyped /\ CallInv /\ TypeOK
  BY Zenon DEF IInv, TypeOK
<1>2. (\A p \in Procs : ~CloseConfirmed(p)) => (net = "closed" => net' = "closed")
  BY Zenon, CloseFrame DEF StartAdd, NetBreak
<1>3. ASSUME NEW p \in Procs, SendStep(p)
      PROVE  GoneInv'
  <2>1. UNCHANGED <<cleanstop, closing, net>>
    BY Zenon, <1>3 DEF SendStep, SendRefused, SendLock, SendPut, Move
  <2>2. PICK l : /\ Goto(p, l) /\ pc[p] \notin CloseHolds /\ l \notin CloseHolds
                 /\ l = "end" => \/ p[1] # "reader" \/ cleanstop[p[2]]
    <3>1. \A ok : AfterSend(p, ok) \notin CloseHolds
      BY Zenon DEF AfterSend, CloseHolds
    <3>2. \A ok : p[1] = "reader" /\ ~cleanstop[p[2]] => AfterSend(p, ok) # "end"
      BY DEF AfterSend
    <3>3. pc[p] \in {"send", "sendFin", "put", "putFin"}
      BY Zenon, <1>3 DEF SendStep, SendRefused, SendLock, SendPut
    <3>4. \E l : Goto(p, l) /\ (l \in {"put", "putFin"} \/ \E ok : l = AfterSend(p, ok))
      BY Zenon, <1>3 DEF SendStep, SendRefused, SendLock, SendPut, Move
    <3> QED  BY Zenon, <3>1, <3>2, <3>3, <3>4 DEF CloseHolds
  <2>3. pc'[p] = l /\ \A q \in Procs : q # p => pc'[q] = pc[q]
    BY Zenon, <1>1, <2>2 DEF Goto, PcTyped
  <2>4. \A x \in ReaderIds : Reader(x) \in Procs /\ Reader(x)[1] = "reader" /\ Reader(x)[2] = x
    BY ProcNames DEF Reader
  <2>5. ASSUME NEW x \in ReaderIds, pc'[Reader(x)] = "end", ~cleanstop'[x]
        PROVE  pc[Reader(x)] = "end" /\ ~cleanstop[x]
    <3>1. CASE Reader(x) = p
      <4>1. p[1] = "reader" /\ p[2] = x
        BY Zenon, <2>4, <3>1
      <4>2. l = "end"
        BY Zenon, <2>3, <2>5, <3>1
      <4> QED  BY Zenon, <2>1, <2>2, <2>5, <4>1, <4>2
    <3>2. CASE Reader(x) # p
      BY Zenon, <2>1, <2>3, <2>4, <2>5, <3>2
    <3> QED  BY Zenon, <3>1, <3>2
  <2>6. ReadersKept
    BY Zenon, <2>5 DEF ReadersKept
  <2> QED  BY Zenon, <2>1, <2>2, <2>3, <2>6, GoneKept
<1>4. CASE ProcessStep
  <2>1. UNCHANGED <<cleanstop, closing, net>>
    BY ZenonT(60), <1>4 DEF ProcessStep, ProcessQuit, ProcessRequest, WriteReturns, WriteFails,
       ProcessResponse, ProcessTimeout, ProcessFinish, ProcessUnknown, DrainTell,
       DrainClose, DrainEnd, Drop, Deliver, Receive, AfterResponse
  <2>2. ASSUME NEW h \in Calls, NEW p \in {Call(h), Timer(h)}, NEW l, Goto(p, l),
               pc[p] \notin CloseHolds, l \notin CloseHolds
        PROVE  GoneInv'
    <3>1. p \in Procs
      BY Zenon, ProcNames
    <3>2. pc'[p] = l /\ \A q \in Procs : q # p => pc'[q] = pc[q]
      BY Zenon, <1>1, <2>2, <3>1 DEF Goto, PcTyped
    <3>3. ReadersKept
      BY Zenon, <1>1, <2>1, <2>2, GotoCaller DEF ReadersKept
    <3> QED  BY Zenon, <2>1, <2>2, <3>2, <3>3, GoneKept
  <2>3. CASE UNCHANGED pc
    BY Zenon, <2>1, <2>3, GoneKept DEF ReadersKept
  <2>4. CASE WriteReturns
    <3>1. sending.to \in Calls /\ pc[Timer(sending.to)] = "off"
      BY Zenon, <2>4 DEF WriteReturns, IInv, OwnerInv, TypeOK, ProcTyped
    <3>2. UNCHANGED pc \/ Goto(Timer(sending.to), "sleep")
      BY Zenon, <2>4 DEF WriteReturns, Goto
    <3> QED  BY Zenon, <2>2, <2>3, <3>1, <3>2 DEF CloseHolds
  <2>5. ASSUME NEW h \in Calls, Deliver(h)
        PROVE  GoneInv'
    <3>1. pc[Call(h)] = "wait" /\ \E l \in {"finish", "handshake", "wait"} : Goto(Call(h), l)
      BY Zenon, <2>5 DEF Deliver
    <3> QED  BY Zenon, <2>2, <3>1 DEF CloseHolds
  <2> QED
    BY Zenon, <1>4, <2>3, <2>4, <2>5 DEF ProcessStep, ProcessQuit, ProcessRequest, WriteFails,
       ProcessResponse, ProcessTimeout, ProcessFinish, ProcessUnknown, DrainTell, DrainClose,
       DrainEnd, Drop
<1>5. CASE \/ StartAdd \/ SetTimeout \/ NetBreak
           \/ \E h \in Calls : CallBegin(h) \/ CallStep(h) \/ TimerFires(h)
           \/ \E h \in TLSCalls : Handshake(h)
           \/ \E x \in ReaderIds : Server(x) \/ ReaderStep(x)
           \/ \E c \in Closers : UserClose(c)
  <2>1. PcQuiet /\ UNCHANGED <<closing, queueClosed>> /\ ReadersKept
    BY Zenon, <1>1, <1>5, QuietStep, ReadersQuiet
  <2>2. CASE \A p \in Procs : ~CloseConfirmed(p)
    BY Zenon, <1>2, <2>1, <2>2, GoneKept DEF PcQuiet, Holding
  <2>3. CASE \E p \in Procs : CloseConfirmed(p)
    BY Zenon, <2>3, GoneClose DEF CloseStep
  <2> QED  BY Zenon, <2>2, <2>3
<1> QED  BY Zenon, <1>3, <1>4, <1>5, GoneClose DEF Next

\* However many goroutines call Close, one of them closes the connection, and a
\* reader that fails leaves it closed.
THEOREM ClosedOnce == Spec => []CloseOnce
<1> DEFINE Count ==
      /\ wgClose = (IF started THEN 1 ELSE 0) - (IF net = "closed" THEN 1 ELSE 0)
      /\ queueClosed <=> net = "closed"
<1> DEFINE CInv == Count /\ GoneInv
<1>1. Init => CInv
  <2> SUFFICES ASSUME Init PROVE CInv
    BY Zenon
  <2>1. ~started /\ ~queueClosed /\ net = "up" /\ wgClose = 0
    BY Zenon DEF Init
  <2>2. Count
    BY <2>1
  <2>3. ~closing /\ \A p \in Procs : pc[p] \in {"read", "idle", "off"}
    BY Zenon DEF Init
  <2>4. GoneInv
    BY Zenon, <2>3, ProcNames DEF GoneInv
  <2> QED  BY Zenon, <2>2, <2>4
<1>2. IInv /\ CInv /\ [Next]_vars => Count'
  <2> SUFFICES ASSUME IInv, CInv, [Next]_vars PROVE Count'
    BY Zenon
  <2>1. CASE UNCHANGED <<started, wgClose, net, queueClosed>>
    BY Zenon, <2>1
  <2>2. CASE StartAdd
    <3>1. started' /\ ~started /\ UNCHANGED <<net, queueClosed>> /\ wgClose' = wgClose + 1
      BY Zenon, <2>2 DEF StartAdd, queueVars
    <3>2. queueClosed' <=> net' = "closed"
      BY Zenon, <3>1
    <3> QED  BY <3>1, <3>2
  <2>3. CASE NetBreak
    BY Zenon, <2>3 DEF NetBreak, queueVars
  <2>4. ASSUME NEW p \in Procs, CloseConfirmed(p)
        PROVE  Count'
    <3>1. ~queueClosed
      BY Zenon, <2>4 DEF CloseConfirmed, IInv, ShutdownInv
    <3>2. /\ queueClosed' /\ net' = "closed" /\ UNCHANGED started
          /\ wgClose' = wgClose - 1
      BY Zenon, <2>4 DEF CloseConfirmed
    <3>3. net # "closed"
      BY Zenon, <3>1
    <3> QED  BY <3>2, <3>3
  <2>5. CASE UNCHANGED vars
    BY Zenon, <2>5 DEF vars, connVars, queueVars
  <2> QED  BY Zenon, <2>1, <2>2, <2>3, <2>4, <2>5, CloseFrame
<1>3. IInv /\ CInv /\ [Next]_vars => GoneInv'
  <2> SUFFICES ASSUME IInv, GoneInv, [Next]_vars PROVE GoneInv'
    BY Zenon
  <2>1. CASE UNCHANGED vars
    BY Zenon, <2>1 DEF vars, connVars, readerVars, GoneInv
  <2> QED  BY Zenon, <2>1, GoneStep
<1>4. CInv => CloseOnce
  BY Zenon DEF CloseOnce, GoneInv
<1> QED  BY <1>1, <1>2, <1>3, <1>4, Invariance, PTL DEF Spec

-----------------------------------------------------------------------------
\* No step accepts a request while the closing flag is set.
THEOREM AcceptSafe == Spec => NoneAcceptedClosing
<1>1. IInv /\ [Next]_vars => [closing => accepted' = accepted]_vars
  <2> SUFFICES ASSUME IInv, Next, closing PROVE accepted' = accepted
    BY Zenon
  <2> USE DEF queueVars, Move
  <2>1. ASSUME NEW p \in Procs, SendStep(p)
        PROVE  accepted' = accepted
    BY Zenon, <2>1 DEF SendStep, SendRefused, SendLock, SendPut, IInv, ShutdownInv
  <2>2. ASSUME NEW p \in Procs, CloseStep(p)
        PROVE  accepted' = accepted
    BY Zenon, <2>2 DEF CloseStep, CloseLock, CloseQuit, CloseConfirmed, CloseWait
  <2>3. CASE ProcessStep
    BY Zenon, <2>3 DEF ProcessStep, ProcessQuit, ProcessRequest, WriteReturns, WriteFails,
       ProcessResponse, ProcessTimeout, ProcessFinish, ProcessUnknown, DrainTell,
       DrainClose, DrainEnd, Drop, Deliver, Receive, AfterResponse
  <2> QED  BY Zenon, <2>1, <2>2, <2>3, QuietStep DEF Next, IInv
<1> QED  BY <1>1, Invariance, PTL DEF Spec, NoneAcceptedClosing

\* The abstract channel of a call, in terms of the connection's state.
Channel == [h \in Calls |-> IF h \in accepted THEN responses[h] ELSE "none"]

\* The processor closes the channel of an accepted call.
LEMMA ServiceClose ==
  ASSUME IInv, NEW h \in accepted, responses[h] = "open", ppc # "stopped",
         ppc' # "stopped", responses' = [responses EXCEPT ![h] = "closed"],
         UNCHANGED <<accepted, closing>>
  PROVE  Service!Next
<1>1. h \in Calls /\ Channel[h] = "open"
  BY Zenon DEF IInv, TypeOK, QueueTyped, Channel
<1>2. Channel' = [Channel EXCEPT ![h] = "closed"]
  BY Zenon, <1>1 DEF IInv, TypeOK, CtxTyped, Channel
<1>3. Service!CloseChannel(h)
  BY Zenon, <1>1, <1>2 DEF Service!CloseChannel, Channel
<1> QED  BY Zenon, <1>1, <1>3 DEF Service!Next

\* Every step of the connection is a step of the service, or none.
LEMMA ServiceStep ==
  ASSUME IInv, Next
  PROVE  Service!Next \/ UNCHANGED Service!vars
<1> USE DEF IInv, TypeOK, Move, connVars, queueVars, ctxVars, procVars
<1>1. ASSUME UNCHANGED <<accepted, responses, closing>>,
             ppc = ppc' \/ (ppc # "stopped" /\ ppc' # "stopped")
      PROVE  UNCHANGED Service!vars
  BY Zenon, <1>1 DEF Service!vars
<1>2. CASE \/ StartAdd \/ SetTimeout \/ NetBreak
           \/ \E h \in Calls : CallBegin(h) \/ CallStep(h) \/ TimerFires(h)
           \/ \E h \in TLSCalls : Handshake(h)
           \/ \E x \in ReaderIds : Server(x) \/ ReaderStep(x)
           \/ \E c \in Closers : UserClose(c)
  BY Zenon, <1>1, <1>2, QuietStep
<1>3. ASSUME NEW p \in Procs, SendStep(p)
      PROVE  Service!Next \/ UNCHANGED Service!vars
  <2>1. CASE SendRefused(p) \/ SendLock(p)
    BY Zenon, <1>1, <2>1 DEF SendRefused, SendLock
  <2>2. CASE SendPut(p) /\ Outgoing(p).op # "request"
    BY Zenon, <1>1, <2>2 DEF SendPut
  <2>3. CASE SendPut(p) /\ Outgoing(p).op = "request"
    <3>1. PICK h \in Calls : p = Call(h) /\ pc[p] = "put"
      BY Zenon, <2>3, OutgoingTyped DEF SendPut
    <3>2. h \notin accepted /\ responses[h] = "open" /\ ~closing
      BY ZenonT(60), <3>1, ProcNames DEF CallInv, Sent, CloseHolds, OwnerInv, ShutdownInv
    <3>3. accepted' = accepted \cup {h} /\ UNCHANGED <<responses, closing, ppc>>
      BY Zenon, <2>3, <3>1, ProcFields DEF SendPut
    <3>4. Channel[h] = "none" /\ Channel' = [Channel EXCEPT ![h] = "open"]
      BY Zenon, <3>2, <3>3 DEF Channel
    <3>5. Service!Accept(h)
      BY Zenon, <3>2, <3>3, <3>4 DEF Service!Accept, Channel
    <3> QED  BY Zenon, <3>5 DEF Service!Next
  <2> QED  BY Zenon, <1>3, <2>1, <2>2, <2>3 DEF SendStep
<1>4. ASSUME NEW p \in Procs, CloseStep(p)
      PROVE  Service!Next \/ UNCHANGED Service!vars
  <2>1. CASE CloseLock(p)
    <3>1. CASE closing
      BY Zenon, <1>1, <2>1, <3>1 DEF CloseLock, FlagsTyped
    <3>2. CASE ~closing
      <4>1. closing' /\ UNCHANGED <<accepted, responses, ppc>>
        BY Zenon, <2>1 DEF CloseLock
      <4>2. Service!StopAccepting
        BY Zenon, <3>2, <4>1 DEF Service!StopAccepting
      <4> QED  BY Zenon, <4>2 DEF Service!Next
    <3> QED  BY Zenon, <3>1, <3>2
  <2>2. CASE CloseQuit(p) \/ CloseConfirmed(p) \/ CloseWait(p)
    BY Zenon, <1>1, <2>2 DEF CloseQuit, CloseConfirmed, CloseWait
  <2> QED  BY Zenon, <1>4, <2>1, <2>2 DEF CloseStep
<1>5. CASE ProcessQuit \/ ProcessRequest \/ WriteReturns \/ WriteFails \/ ProcessResponse
           \/ ProcessTimeout \/ ProcessUnknown \/ DrainTell
  BY Zenon, <1>1, <1>5 DEF ProcessQuit, ProcessRequest, WriteReturns, WriteFails, ProcessResponse,
     ProcessTimeout, ProcessUnknown, DrainTell, Receive, SendResponse
<1>6. CASE ProcessFinish
  <2>1. PICK h \in messageContexts : responses' = [responses EXCEPT ![h] = "closed"]
    BY Zenon, <1>6 DEF ProcessFinish, Registered
  <2>2. h \in accepted /\ responses[h] = "open"
    BY Zenon DEF OwnerInv, NoUseOfClosed
  <2> QED  BY Zenon, <1>6, <2>1, <2>2, ServiceClose DEF ProcessFinish, Receive
<1>7. ASSUME ppc = "send", AfterResponse
      PROVE  Service!Next \/ UNCHANGED Service!vars
  <2>1. CASE sending.then = "select"
    BY Zenon, <1>1, <1>7, <2>1 DEF AfterResponse
  <2>2. CASE sending.then # "select"
    <3>1. sending.to \in accepted /\ responses[sending.to] = "open"
      BY Zenon, <1>7 DEF OwnerInv, NoUseOfClosed
    <3> QED  BY Zenon, <1>7, <2>2, <3>1, ServiceClose DEF AfterResponse
  <2> QED  BY Zenon, <2>1, <2>2
<1>8. CASE DrainClose
  <2>1. PICK h \in messageContexts : responses' = [responses EXCEPT ![h] = "closed"]
    BY Zenon, <1>8 DEF DrainClose
  <2>2. h \in accepted /\ responses[h] = "open"
    BY Zenon DEF OwnerInv, NoUseOfClosed
  <2> QED  BY Zenon, <1>8, <2>1, <2>2, ServiceClose DEF DrainClose
<1>9. CASE DrainEnd
  <2>1. closing /\ chanMessage = <<>> /\ messageContexts = {} /\ ppc = "drain"
    BY Zenon, <1>9 DEF DrainEnd, ShutdownInv, QuitIsLast
  <2>2. \A h \in accepted : responses[h] # "open"
    BY <2>1 DEF OwnerInv, NoneForgotten, Queued, At
  <2>3. \A h \in Calls : Channel[h] # "open"
    BY Zenon, <2>2 DEF Channel
  <2>4. UNCHANGED <<accepted, responses, closing>> /\ ppc' = "stopped"
    BY Zenon, <1>9 DEF DrainEnd
  <2>5. Service!Stop
    BY Zenon, <2>1, <2>3, <2>4 DEF Service!Stop, Channel
  <2> QED  BY Zenon, <2>5 DEF Service!Next
<1> QED
  BY Zenon, <1>2, <1>3, <1>4, <1>5, <1>6, <1>7, <1>8, <1>9 DEF Next, ProcessStep, Deliver, Drop

\* The goroutines implement LdapService: channels are closed exactly once, and
\* the connection stops only when no accepted call waits on an open one.
THEOREM Refinement == Spec => ImplementsService
<1>1. Init => Service!Init
  BY Zenon DEF Init, Service!Init
<1>2. IInv /\ [Next]_vars => [Service!Next]_(Service!vars)
  <2> SUFFICES ASSUME IInv, [Next]_vars PROVE [Service!Next]_(Service!vars)
    BY Zenon
  <2>1. CASE Next
    BY Zenon, <2>1, ServiceStep
  <2>2. CASE UNCHANGED vars
    BY Zenon, <2>2 DEF vars, connVars, queueVars, ctxVars, procVars, Service!vars
  <2> QED  BY Zenon, <2>1, <2>2
<1> QED  BY <1>1, <1>2, Invariance, PTL DEF Spec, ImplementsService, Service!Spec

-----------------------------------------------------------------------------
(***************************************************************************)
(* StartTLS and the readers, which have an invariant of their own.         *)
(***************************************************************************)
\* A call whose request has not entered chanMessage has no response.
LEMMA NotAnswered ==
  ASSUME IInv, ReaderInv, NEW t \in Calls \ accepted
  PROVE  ~Answered(t)
<1>1. t \notin written /\ t # NoCall
  BY Zenon, ConnAssumption DEF IInv, OwnerInv
<1>2. ppc = "send" => sending.to \in accepted
  BY Zenon DEF IInv, OwnerInv
<1> QED  BY Zenon, <1>1, <1>2 DEF ReaderInv, Answered

\* A step that starts no reader, marks nothing and gives no call a response.
LEMMA ReaderKept ==
  ASSUME IInv, ReaderInv, InFlight' \subseteq InFlight, Reading' \subseteq Reading,
         written \subseteq written',
         \A x \in ReaderIds : cleanstop'[x] => pc'[Reader(x)] \in {"send", "put", "end"},
         \A x \in ReaderIds : pc'[Reader(x)] = "mark" =>
           pc[Reader(x)] = "mark" /\ packet'[x] = packet[x],
         \A t \in TLSCalls : pc'[Call(t)] = "handshake" =>
           pc[Call(t)] = "handshake" \/ (pc[Call(t)] = "wait" /\ Answered(t)),
         \A t \in TLSCalls : pc'[Call(t)] = "wait" => pc[Call(t)] = "wait" \/ t \notin accepted,
         ppc' = "send" /\ ~sending'.err => Answered(sending'.to)
  PROVE  ReaderInv'
<1>1. (\A m \in InFlight : m.call \in written \cup {NoCall})'
  BY Zenon DEF ReaderInv
<1>2. (\A x \in ReaderIds : pc[Reader(x)] = "mark" => packet[x].call \in written \cup {NoCall})'
  BY Zenon DEF ReaderInv
<1>3. (\A x, y \in Reading : x = y)'
  BY Zenon DEF ReaderInv
<1>4. \A t : Answered(t)' => Answered(t)
  BY Zenon DEF Answered
<1>5. ASSUME NEW t \in TLSCalls,
             pc'[Call(t)] = "handshake" \/ (pc'[Call(t)] = "wait" /\ Answered(t)')
      PROVE  Reading' = {}
  <2>1. pc[Call(t)] = "handshake" \/ (pc[Call(t)] = "wait" /\ Answered(t))
    BY Zenon, <1>4, <1>5, NotAnswered, ProcNames
  <2> QED  BY Zenon, <2>1 DEF ReaderInv
<1> QED  BY Zenon, <1>1, <1>2, <1>3, <1>5 DEF ReaderInv

\* What follows from the readers' labels alone.
LEMMA ReaderLabelsKept ==
  ASSUME PcTyped, UNCHANGED <<packet, cleanstop, chanMessage>>,
         \A x \in ReaderIds :
           \/ pc'[Reader(x)] = pc[Reader(x)]
           \/ pc[Reader(x)] = "send" /\ pc'[Reader(x)] = "put"
           \/ pc'[Reader(x)] \notin {"read", "mark", "send", "put"}
  PROVE  InFlight' \subseteq InFlight /\ Reading' \subseteq Reading
<1>1. At("response")' = At("response")
  BY Zenon DEF At
<1>2. \A x \in ReaderIds : pc'[Reader(x)] \in {"send", "put"} => pc[Reader(x)] \in {"send", "put"}
  BY Zenon
<1>3. InFlight' \subseteq InFlight
  BY Zenon, <1>1, <1>2 DEF InFlight
<1>4. Reading' \subseteq Reading
  BY Zenon DEF Reading
<1> QED  BY Zenon, <1>3, <1>4

\* A goroutine moves and nothing that the readers' invariant is about changes.
LEMMA ReaderMove ==
  ASSUME IInv, ReaderInv, UNCHANGED <<packet, cleanstop, chanMessage, written, ppc, sending>>,
         \A x \in ReaderIds :
           \/ pc'[Reader(x)] = pc[Reader(x)]
           \/ pc[Reader(x)] = "send" /\ pc'[Reader(x)] = "put"
           \/ pc'[Reader(x)] \notin {"read", "mark", "send", "put"} /\ ~cleanstop[x]
           \/ pc'[Reader(x)] = "end",
         \A t \in TLSCalls :
           \/ pc'[Call(t)] = pc[Call(t)]
           \/ pc'[Call(t)] \notin {"wait", "handshake"}
           \/ pc'[Call(t)] = "wait" /\ t \notin accepted
  PROVE  ReaderInv'
<1>1. InFlight' \subseteq InFlight /\ Reading' \subseteq Reading
  BY Zenon, ReaderLabelsKept DEF IInv, TypeOK
<1>2. \A x \in ReaderIds : cleanstop'[x] => pc'[Reader(x)] \in {"send", "put", "end"}
  BY Zenon DEF ReaderInv
<1>3. \A x \in ReaderIds : pc'[Reader(x)] = "mark" =>
        pc[Reader(x)] = "mark" /\ packet'[x] = packet[x]
  BY Zenon
<1>4. ppc' = "send" /\ ~sending'.err => Answered(sending'.to)
  BY Zenon DEF Answered
<1> QED  BY Zenon, <1>1, <1>2, <1>3, <1>4, ReaderKept

\* Calls, timers, Close and a handshake that fails.
LEMMA ReaderCalls ==
  ASSUME IInv, ReaderInv,
         \/ \E h \in Calls : CallBegin(h) \/ CallStep(h) \/ TimerFires(h)
         \/ \E h \in TLSCalls : TLSRefused(h) \/ TLSFails(h)
         \/ \E c \in Closers : UserClose(c)
  PROVE  ReaderInv'
<1> DEFINE Quiet == UNCHANGED <<packet, cleanstop, chanMessage, written, ppc, sending>>
<1> USE DEF Move, connVars, queueVars, countVars, ctxVars, procVars, readerVars
<1>1. PcTyped
  BY Zenon DEF IInv, TypeOK
<1>2. ASSUME NEW h \in Calls, NEW l, l \notin {"wait", "handshake"}, Goto(Call(h), l), Quiet
      PROVE  ReaderInv'
  <2>1. \A t \in Calls : pc'[Call(t)] = pc[Call(t)] \/ pc'[Call(t)] \notin {"wait", "handshake"}
    BY Zenon, <1>1, <1>2, GotoCall
  <2>2. \A x \in ReaderIds : pc'[Reader(x)] = pc[Reader(x)]
    BY Zenon, <1>1, <1>2, GotoCall
  <2> QED  BY Zenon, <1>2, <2>1, <2>2, ReaderMove, ProcNames
<1>3. ASSUME NEW h \in Calls, CallBegin(h) \/ CallStep(h)
      PROVE  ReaderInv'
  <2>1. Quiet
    BY Zenon, <1>3 DEF CallBegin, CallStep, TakeID, TakeNoID, EncodeFails, CheckClosing,
       Reject, Admit, ChannelClosed, Finish, FinishCheck, Uncount
  <2>2. \E l : l \notin {"wait", "handshake"} /\ Goto(Call(h), l)
    BY Zenon, <1>3 DEF CallBegin, CallStep, TakeID, TakeNoID, EncodeFails, CheckClosing,
       Reject, Admit, ChannelClosed, Finish, FinishCheck, Uncount
  <2> QED  BY Zenon, <1>2, <2>1, <2>2
<1>4. ASSUME NEW h \in Calls, TimerFires(h)
      PROVE  ReaderInv'
  <2>1. Goto(Timer(h), "send") /\ Quiet
    BY Zenon, <1>4 DEF TimerFires
  <2>2. /\ Timer(h) \in Procs /\ \A k : Call(k) # Timer(h)
        /\ \A x : Reader(x) # Timer(h)
    BY ProcNames, ProcFields
  <2>3. /\ \A t \in TLSCalls : pc'[Call(t)] = pc[Call(t)]
        /\ \A x \in ReaderIds : pc'[Reader(x)] = pc[Reader(x)]
    BY Zenon, <1>1, <2>1, <2>2, GotoOther, GotoNoReader, ProcNames
  <2> QED  BY Zenon, <2>1, <2>3, ReaderMove
<1>5. ASSUME NEW h \in TLSCalls, TLSRefused(h) \/ TLSFails(h)
      PROVE  ReaderInv'
  <2>1. Quiet /\ \E l : l \notin {"wait", "handshake"} /\ Goto(Call(h), l)
    BY Zenon, <1>5 DEF TLSRefused, TLSFails
  <2> QED  BY Zenon, <1>2, <2>1, ProcNames
<1>6. ASSUME NEW c \in Closers, UserClose(c)
      PROVE  ReaderInv'
  <2>1. Goto(Closer(c), "lock") /\ Quiet
    BY Zenon, <1>6 DEF UserClose
  <2>2. /\ Closer(c) \in Procs /\ \A k : Call(k) # Closer(c)
        /\ \A x : Reader(x) # Closer(c)
    BY ProcNames, ProcFields
  <2>3. /\ \A t \in TLSCalls : pc'[Call(t)] = pc[Call(t)]
        /\ \A x \in ReaderIds : pc'[Reader(x)] = pc[Reader(x)]
    BY Zenon, <1>1, <2>1, <2>2, GotoOther, GotoNoReader, ProcNames
  <2> QED  BY Zenon, <2>1, <2>3, ReaderMove
<1> QED  BY Zenon, <1>3, <1>4, <1>5, <1>6

\* Whoever queues a message or is refused: a reader goes on only if it is not to
\* stop, and a call that begins to wait has no response yet.
LEMMA ReaderSend ==
  ASSUME IInv, ReaderInv, NEW p \in Procs, SendStep(p)
  PROVE  ReaderInv'
<1> USE DEF Move, connVars, queueVars, countVars, ctxVars, procVars, readerVars
<1>1. PcTyped /\ QueueTyped
  BY Zenon DEF IInv, TypeOK
<1> DEFINE Fits(l) == l # "handshake" /\ (l = "wait" => p[1] = "call" /\ pc[p] \in {"send", "put"})
           CallOk(t) == \/ pc'[Call(t)] = pc[Call(t)]
                        \/ pc'[Call(t)] \notin {"wait", "handshake"}
                        \/ pc'[Call(t)] = "wait" /\ t \notin accepted
<1>2. ASSUME NEW l, Goto(p, l), Fits(l), NEW t \in TLSCalls
      PROVE  CallOk(t)
  <2>1. CASE p = Call(t)
    <3>1. pc'[p] = l
      BY Zenon, <1>1, <1>2, GotoOne
    <3>2. l = "wait" => t \notin accepted
      BY Zenon, <1>2, <2>1, ProcNames DEF IInv, CallInv, Sent, CloseHolds
    <3> QED  BY Zenon, <1>2, <2>1, <3>1, <3>2
  <2>2. CASE p # Call(t)
    BY Zenon, <1>1, <1>2, <2>2, GotoOne, ProcNames
  <2> QED  BY Zenon, <2>1, <2>2
<1>3. ASSUME NEW l, Goto(p, l), NEW x \in ReaderIds, p # Reader(x)
      PROVE  pc'[Reader(x)] = pc[Reader(x)]
  BY Zenon, <1>1, <1>3, GotoOne, ProcNames
<1>4. ASSUME NEW x \in ReaderIds, p = Reader(x)
      PROVE  pc[p] \in {"send", "put"} /\ (SendPut(p) => pc[p] = "put")
             /\ \A ok \in BOOLEAN : AfterSend(p, ok) =
                  IF cleanstop[x] THEN "end" ELSE IF ok THEN "read" ELSE "lock"
  <2>1. pc[p] \in ReaderLabels
    BY Zenon, <1>1, <1>4, Labelled
  <2>2. pc[p] \in {"send", "put"}
    BY Zenon, <2>1 DEF SendStep, SendRefused, SendLock, SendPut, ReaderLabels
  <2>3. SendPut(p) => pc[p] = "put"
    BY Zenon, <2>2 DEF SendPut
  <2>4. p[1] = "reader" /\ p[2] = x
    BY Zenon, <1>4, ProcFields
  <2>5. \A ok \in BOOLEAN : AfterSend(p, ok) =
                  IF cleanstop[x] THEN "end" ELSE IF ok THEN "read" ELSE "lock"
    BY Zenon, <2>4 DEF AfterSend
  <2> QED  BY Zenon, <2>2, <2>3, <2>5
<1>5. Fits(AfterSend(p, TRUE)) /\ Fits(AfterSend(p, FALSE))
  BY Zenon DEF AfterSend
<1>6. CASE SendRefused(p)
  <2>1. /\ Goto(p, AfterSend(p, FALSE))
        /\ UNCHANGED <<packet, cleanstop, chanMessage, written, ppc, sending>>
        /\ pc[p] \in {"send", "sendFin"}
    BY Zenon, <1>6 DEF SendRefused
  <2>2. ASSUME NEW x \in ReaderIds
        PROVE  \/ pc'[Reader(x)] = pc[Reader(x)]
               \/ pc'[Reader(x)] \notin {"read", "mark", "send", "put"} /\ ~cleanstop[x]
               \/ pc'[Reader(x)] = "end"
    <3>1. CASE p = Reader(x)
      BY Zenon, <1>1, <1>4, <2>1, <3>1, GotoOne
    <3>2. CASE p # Reader(x)
      BY Zenon, <1>3, <2>1, <3>2
    <3> QED  BY Zenon, <3>1, <3>2
  <2>3. \A t \in TLSCalls : CallOk(t)
    BY Zenon, <1>2, <1>5, <2>1
  <2> QED  BY Zenon, <2>1, <2>2, <2>3, ReaderMove
<1>7. CASE SendLock(p)
  <2>1. /\ Goto(p, IF pc[p] = "send" THEN "put" ELSE "putFin")
        /\ UNCHANGED <<packet, cleanstop, chanMessage, written, ppc, sending>>
        /\ pc[p] \in {"send", "sendFin"}
    BY Zenon, <1>7 DEF SendLock
  <2>2. ASSUME NEW x \in ReaderIds
        PROVE  \/ pc'[Reader(x)] = pc[Reader(x)]
               \/ pc[Reader(x)] = "send" /\ pc'[Reader(x)] = "put"
    <3>1. CASE p = Reader(x)
      BY Zenon, <1>1, <1>4, <2>1, <3>1, GotoOne
    <3>2. CASE p # Reader(x)
      BY Zenon, <1>3, <2>1, <3>2
    <3> QED  BY Zenon, <3>1, <3>2
  <2>3. \A t \in TLSCalls : CallOk(t)
    BY Zenon, <1>2, <2>1
  <2> QED  BY Zenon, <2>1, <2>2, <2>3, ReaderMove
<1>8. CASE SendPut(p)
  <2> DEFINE m == Outgoing(p)
  <2>1. /\ Goto(p, AfterSend(p, TRUE)) /\ chanMessage' = Append(chanMessage, m)
        /\ UNCHANGED <<packet, cleanstop, written, ppc, sending>>
        /\ pc[p] \in {"put", "putFin"}
    BY Zenon, <1>8 DEF SendPut
  <2>2. m \in Message
    BY ZenonT(60), <1>1, <2>1, OutgoingTyped DEF IInv, TypeOK
  <2>3. m.op = "response" => \E x \in ReaderIds : p = Reader(x) /\ pc[p] = "put" /\ m = packet[x]
    <3>1. CASE \E h \in Calls : p = Call(h) \/ p = Timer(h)
      BY <2>1, <3>1, ProcFields DEF Outgoing, Msg
    <3>2. CASE \E x \in ReaderIds : p = Reader(x)
      <4>1. PICK x \in ReaderIds : p = Reader(x)
        BY Zenon, <3>2
      <4>2. Outgoing(p) = packet[x]
        BY Zenon, <4>1, ProcFields DEF Outgoing
      <4>3. pc[p] = "put"
        BY Zenon, <1>4, <1>8, <4>1
      <4> QED  BY Zenon, <4>1, <4>2, <4>3
    <3>3. CASE \E c \in Closers : p = Closer(c)
      BY Zenon, <1>1, <2>1, <3>3, QuietLabels
    <3> QED  BY Zenon, <3>1, <3>2, <3>3, ProcNames
  <2>4. ASSUME NEW x \in ReaderIds
        PROVE  /\ pc'[Reader(x)] # "mark" \/ pc[Reader(x)] = "mark"
               /\ pc'[Reader(x)] \in {"send", "put"} => pc[Reader(x)] = pc'[Reader(x)]
               /\ cleanstop[x] => pc'[Reader(x)] \in {"send", "put", "end"}
               /\ x \in Reading' => x \in Reading
    <3>1. CASE p = Reader(x)
      <4>1. pc'[p] = IF cleanstop[x] THEN "end" ELSE "read"
        BY Zenon, <1>1, <1>4, <2>1, <3>1, GotoOne
      <4>2. pc[p] = "put"
        BY Zenon, <1>4, <1>8, <3>1
      <4> QED  BY Zenon, <2>1, <3>1, <4>1, <4>2 DEF Reading
    <3>2. CASE p # Reader(x)
      <4>1. pc'[Reader(x)] = pc[Reader(x)]
        BY Zenon, <1>3, <2>1, <3>2
      <4> QED  BY Zenon, <2>1, <4>1 DEF ReaderInv, Reading
    <3> QED  BY Zenon, <3>1, <3>2
  <2>5. InFlight' \subseteq InFlight
    <3>1. ASSUME NEW i \in At("response")'
          PROVE  chanMessage'[i] \in InFlight
      <4>1. CASE i \in At("response")
        <5>1. chanMessage'[i] = chanMessage[i]
          BY Zenon, <1>1, <2>1, <2>2, <4>1, AppendAt
        <5> QED  BY Zenon, <4>1, <5>1 DEF InFlight
      <4>2. CASE i \notin At("response")
        <5>1. m.op = "response" /\ chanMessage'[i] = m
          BY ZenonT(60), <1>1, <2>1, <2>2, <4>2, AppendAt
        <5> QED  BY Zenon, <2>3, <5>1 DEF InFlight
      <4> QED  BY Zenon, <4>1, <4>2
    <3>2. ASSUME NEW x \in ReaderIds, pc'[Reader(x)] \in {"send", "put"}
          PROVE  packet'[x] \in InFlight
      BY Zenon, <2>1, <2>4, <3>2 DEF InFlight
    <3> QED  BY Zenon, <3>1, <3>2 DEF InFlight
  <2>6. Reading' \subseteq Reading
    BY Zenon, <2>4 DEF Reading
  <2>7. \A t \in TLSCalls : CallOk(t)
    BY Zenon, <1>2, <1>5, <2>1
  <2>8. ppc' = "send" /\ ~sending'.err => Answered(sending'.to)
    BY Zenon, <2>1 DEF Answered
  <2> QED  BY Zenon, <2>1, <2>4, <2>5, <2>6, <2>7, <2>8, ReaderKept
<1> QED  BY Zenon, <1>6, <1>7, <1>8 DEF SendStep

\* Close: a reader that calls it reads no more.
LEMMA ReaderClose ==
  ASSUME IInv, ReaderInv, NEW p \in Procs, CloseStep(p)
  PROVE  ReaderInv'
<1> USE DEF connVars, queueVars, countVars, ctxVars, procVars, readerVars
<1>1. PcTyped /\ QueueTyped
  BY Zenon DEF IInv, TypeOK
<1>2. pc[p] \in {"lock", "quit", "confirm", "wgwait"}
  BY Zenon DEF CloseStep, CloseLock, CloseQuit, CloseConfirmed, CloseWait
<1>3. PICK l \in {"quit", "confirm", "wgwait", "finish", "end"} : Goto(p, l)
  BY Zenon DEF CloseStep, CloseLock, CloseQuit, CloseConfirmed, CloseWait, AfterClose
<1>4. pc'[p] = l /\ \A q \in Procs : q # p => pc'[q] = pc[q]
  BY Zenon, <1>1, <1>3, GotoOne
<1>5. \A t \in TLSCalls : \/ pc'[Call(t)] = pc[Call(t)]
                          \/ pc'[Call(t)] \notin {"wait", "handshake"}
  BY Zenon, <1>4, ProcNames
<1>6. ASSUME NEW x \in ReaderIds
      PROVE  \/ pc'[Reader(x)] = pc[Reader(x)]
             \/ pc'[Reader(x)] \notin {"read", "mark", "send", "put"} /\ ~cleanstop[x]
  BY Zenon, <1>2, <1>4, ProcNames DEF ReaderInv
<1>7. CASE CloseLock(p) \/ CloseConfirmed(p) \/ CloseWait(p)
  <2>1. UNCHANGED <<packet, cleanstop, chanMessage, written, ppc, sending>>
    BY Zenon, <1>7 DEF CloseLock, CloseConfirmed, CloseWait
  <2> QED  BY Zenon, <1>5, <1>6, <2>1, ReaderMove
<1>8. CASE CloseQuit(p)
  <2>1. /\ chanMessage' = Append(chanMessage, Quit)
        /\ UNCHANGED <<packet, cleanstop, written, ppc, sending>>
    BY Zenon, <1>8 DEF CloseQuit
  <2>2. Quit \in Message /\ Quit.op # "response"
    BY DEF Quit, Msg, Message, Ops
  <2>3. At("response")' = At("response") /\ \A i \in At("response") : chanMessage'[i] = chanMessage[i]
    BY Zenon, <1>1, <2>1, <2>2, AppendAt
  <2>4. \A x \in ReaderIds : pc'[Reader(x)] \in {"send", "put"} => pc[Reader(x)] = pc'[Reader(x)]
    BY Zenon, <1>6
  <2>5. InFlight' \subseteq InFlight
    BY Zenon, <2>1, <2>3, <2>4 DEF InFlight
  <2>6. Reading' \subseteq Reading
    BY Zenon, <1>6, <2>1 DEF Reading
  <2>7. /\ \A x \in ReaderIds : cleanstop'[x] => pc'[Reader(x)] \in {"send", "put", "end"}
        /\ \A x \in ReaderIds : pc'[Reader(x)] = "mark" =>
             pc[Reader(x)] = "mark" /\ packet'[x] = packet[x]
    BY Zenon, <1>6, <2>1 DEF ReaderInv
  <2>8. ppc' = "send" /\ ~sending'.err => Answered(sending'.to)
    BY Zenon, <2>1 DEF Answered
  <2> QED  BY Zenon, <1>5, <2>1, <2>5, <2>6, <2>7, <2>8, ReaderKept
<1> QED  BY Zenon, <1>7, <1>8 DEF CloseStep

\* A handshake that succeeds: nobody reads, and the reader it starts does.
LEMMA ReaderUp ==
  ASSUME IInv, ReaderInv, NEW h \in TLSCalls, TLSUp(h)
  PROVE  ReaderInv'
<1> USE DEF connVars, queueVars, countVars, ctxVars, procVars, readerVars
<1>1. PcTyped /\ h \in Calls /\ h \in ReaderIds
  BY Zenon, ProcNames DEF IInv, TypeOK
<1>2. pc[Call(h)] = "handshake" /\ Reading = {}
  BY Zenon DEF TLSUp, ReaderInv
<1>3. UNCHANGED <<packet, cleanstop, chanMessage, written, ppc, sending>>
  BY Zenon DEF TLSUp
<1>4. /\ pc'[Call(h)] = "finish"
      /\ \A k \in Calls : k # h => pc'[Call(k)] = pc[Call(k)]
      /\ \A k \in ReaderIds : k # h => pc'[Reader(k)] = pc[Reader(k)]
  BY Zenon, <1>1, TLSUpFrame
<1>5. pc'[Reader(h)] = "read"
  BY Zenon, <1>1, ProcNames DEF TLSUp, PcTyped
<1>6. pc[Reader(h)] = "off" /\ ~cleanstop[h]
  BY Zenon, <1>1, <1>2 DEF IInv, CallInv, ReaderInv
<1>7. InFlight' \subseteq InFlight
  <2>1. At("response")' = At("response")
    BY Zenon, <1>3 DEF At
  <2>2. \A x \in ReaderIds : pc'[Reader(x)] \in {"send", "put"} => pc[Reader(x)] = pc'[Reader(x)]
    BY Zenon, <1>4, <1>5
  <2> QED  BY Zenon, <1>3, <2>1, <2>2 DEF InFlight
<1>8. Reading' \subseteq {h}
  BY Zenon, <1>2, <1>3, <1>4 DEF Reading
<1>9. ASSUME NEW t \in TLSCalls
      PROVE  pc'[Call(t)] \notin {"wait", "handshake"}
  <2>1. h \in Counted
    BY Zenon, <1>1, <1>2 DEF Counted
  <2>3. Counted = {h}
    BY Zenon, <2>1 DEF IInv, CountInv, StartTLSAlone
  <2>4. pc[Call(t)] \in {"wait", "handshake"} => t \in Counted
    BY Zenon, ProcNames DEF Counted
  <2>2. t # h => pc[Call(t)] \notin {"wait", "handshake"}
    BY Zenon, <2>3, <2>4
  <2> QED  BY Zenon, <1>4, <2>2, ProcNames
<1>10. (\A x \in ReaderIds : cleanstop[x] => pc[Reader(x)] \in {"send", "put", "end"})'
  BY Zenon, <1>3, <1>4, <1>6 DEF ReaderInv
<1>11. (\A x \in ReaderIds : pc[Reader(x)] = "mark" => packet[x].call \in written \cup {NoCall})'
  BY Zenon, <1>3, <1>4, <1>5 DEF ReaderInv
<1>12. (\A m \in InFlight : m.call \in written \cup {NoCall})'
  BY Zenon, <1>3, <1>7 DEF ReaderInv
<1> QED  BY Zenon, <1>8, <1>9, <1>10, <1>11, <1>12 DEF ReaderInv

\* A packet that a reader has read answers a request that was written, or none.
LEMMA ReaderReads ==
  ASSUME IInv, ReaderInv, NEW x \in ReaderIds, Server(x)
  PROVE  ReaderInv'
<1> USE DEF connVars, queueVars, countVars, ctxVars, procVars, readerVars
<1>1. PcTyped /\ packet \in [ReaderIds -> Packet]
  BY Zenon DEF IInv, TypeOK, ReaderTyped
<1>2. ASSUME NEW m, ReadPacket(x, m), m.call \in written \cup {NoCall}
      PROVE  ReaderInv'
  <2>1. /\ pc[Reader(x)] = "read" /\ Goto(Reader(x), "mark")
        /\ packet' = [packet EXCEPT ![x] = m]
        /\ UNCHANGED <<cleanstop, chanMessage, written, ppc, sending>>
    BY Zenon, <1>2 DEF ReadPacket
  <2>2. /\ pc'[Reader(x)] = "mark"
        /\ \A y \in ReaderIds : y # x => pc'[Reader(y)] = pc[Reader(y)]
        /\ \A k \in Calls : pc'[Call(k)] = pc[Call(k)]
    BY Zenon, <1>1, <2>1, GotoReader
  <2>3. packet'[x] = m /\ \A y \in ReaderIds : y # x => packet'[y] = packet[y]
    BY Zenon, <1>1, <2>1
  <2>4. InFlight' \subseteq InFlight
    <3>1. At("response")' = At("response")
      BY Zenon, <2>1 DEF At
    <3>2. \A y \in ReaderIds : pc'[Reader(y)] \in {"send", "put"} =>
            pc[Reader(y)] = pc'[Reader(y)] /\ packet'[y] = packet[y]
      BY Zenon, <2>2, <2>3
    <3> QED  BY ZenonT(60), <2>1, <3>1, <3>2 DEF InFlight
  <2>5. Reading' \subseteq Reading
    BY Zenon, <2>1, <2>2 DEF Reading
  <2>6. \A t : Answered(t)' => Answered(t)
    BY Zenon, <2>1, <2>4 DEF Answered
  <2>7. \A t \in TLSCalls :
          pc'[Call(t)] = "handshake" \/ (pc'[Call(t)] = "wait" /\ Answered(t)') => Reading' = {}
    BY Zenon, <2>2, <2>5, <2>6, ProcNames DEF ReaderInv
  <2>8. (\A y \in ReaderIds : cleanstop[y] => pc[Reader(y)] \in {"send", "put", "end"})'
    BY Zenon, <2>1, <2>2 DEF ReaderInv
  <2>9. (\A y \in ReaderIds : pc[Reader(y)] = "mark" => packet[y].call \in written \cup {NoCall})'
    BY Zenon, <1>2, <2>1, <2>2, <2>3 DEF ReaderInv
  <2>10. (\A n \in InFlight : n.call \in written \cup {NoCall})'
    BY Zenon, <2>1, <2>4 DEF ReaderInv
  <2>11. (\A y, z \in Reading : y = z)'
    BY Zenon, <2>5 DEF ReaderInv
  <2> QED  BY Zenon, <2>7, <2>8, <2>9, <2>10, <2>11 DEF ReaderInv
<1>3. CASE ReadResponse(x)
  BY Zenon, <1>2, <1>3 DEF ReadResponse, Msg
<1>4. CASE ReadUnsolicited(x) \/ ReadMalformed(x)
  BY Zenon, <1>2, <1>4 DEF ReadUnsolicited, ReadMalformed, Malformed, Msg
<1>5. CASE ReadBad(x)
  BY Zenon, <1>5, ReaderMove DEF ReadBad
<1> QED  BY Zenon, <1>3, <1>4, <1>5 DEF Server

\* A reader that fails, and one that marks the packet it has read: the one that
\* marks a packet while StartTLS waits stops.
LEMMA ReaderMarks ==
  ASSUME IInv, ReaderInv, NEW x \in ReaderIds, ReaderStep(x)
  PROVE  ReaderInv'
<1> USE DEF Move, connVars, queueVars, countVars, ctxVars, procVars, readerVars
<1>1. PcTyped /\ cleanstop \in [ReaderIds -> BOOLEAN]
  BY Zenon DEF IInv, TypeOK, ReaderTyped
<1>2. ~cleanstop[x]
  BY Zenon DEF ReaderStep, ReadError, StoreErr, Mark, ReaderInv
<1>3. CASE ReadError(x) \/ StoreErr(x)
  <2>1. \E l \in {"lock", "storeErr"} : Goto(Reader(x), l)
    BY Zenon, <1>3 DEF ReadError, StoreErr
  <2>2. UNCHANGED <<packet, cleanstop, chanMessage, written, ppc, sending>>
    BY Zenon, <1>3 DEF ReadError, StoreErr
  <2>3. /\ \A k \in Calls : pc'[Call(k)] = pc[Call(k)]
        /\ \A y \in ReaderIds : y # x => pc'[Reader(y)] = pc[Reader(y)]
        /\ pc'[Reader(x)] \notin {"read", "mark", "send", "put"}
    BY Zenon, <1>1, <2>1, GotoReader
  <2> QED  BY Zenon, <1>2, <2>2, <2>3, ReaderMove, ProcNames
<1>4. CASE Mark(x)
  <2>1. /\ pc[Reader(x)] = "mark" /\ cleanstop' = [cleanstop EXCEPT ![x] = isStartingTLS]
        /\ UNCHANGED <<packet, chanMessage, written, ppc, sending>>
    BY Zenon, <1>4 DEF Mark
  <2>2. PICK l \in {"send", "end", "lock"} : Goto(Reader(x), l) /\ (isStartingTLS => l # "lock")
    <3>1. CASE packet[x].op # "malformed"
      BY Zenon, <1>4, <3>1 DEF Mark
    <3>2. CASE packet[x].op = "malformed" /\ isStartingTLS
      BY Zenon, <1>4, <3>2 DEF Mark
    <3>3. CASE packet[x].op = "malformed" /\ ~isStartingTLS
      BY Zenon, <1>4, <3>3 DEF Mark
    <3> QED  BY Zenon, <3>1, <3>2, <3>3
  <2>3. /\ pc'[Reader(x)] = l
        /\ \A y \in ReaderIds : y # x => pc'[Reader(y)] = pc[Reader(y)]
        /\ \A k \in Calls : pc'[Call(k)] = pc[Call(k)]
    BY Zenon, <1>1, <2>2, GotoReader
  <2>4. cleanstop'[x] = isStartingTLS /\ \A y \in ReaderIds : y # x => cleanstop'[y] = cleanstop[y]
    BY Zenon, <1>1, <2>1
  <2>5. x \in Reading /\ Reading \subseteq {x}
    BY Zenon, <1>2, <2>1 DEF Reading, ReaderInv
  <2>6. Reading' \subseteq Reading
    BY Zenon, <2>3, <2>4, <2>5 DEF Reading
  <2>7. InFlight' \subseteq InFlight \cup {packet[x]}
    <3>1. At("response")' = At("response")
      BY Zenon, <2>1 DEF At
    <3>2. \A y \in ReaderIds : y # x /\ pc'[Reader(y)] \in {"send", "put"} =>
            pc[Reader(y)] = pc'[Reader(y)]
      BY Zenon, <2>3
    <3>3. {chanMessage'[i] : i \in At("response")'} \subseteq InFlight
      BY Zenon, <2>1, <3>1 DEF InFlight
    <3>4. \A y \in ReaderIds : pc'[Reader(y)] \in {"send", "put"} =>
            packet'[y] \in InFlight \cup {packet[x]}
      BY Zenon, <2>1, <3>2 DEF InFlight
    <3> QED  BY Zenon, <3>3, <3>4 DEF InFlight
  <2>8. (\A m \in InFlight : m.call \in written \cup {NoCall})'
    BY Zenon, <2>1, <2>7 DEF ReaderInv
  <2>9. (\A y \in ReaderIds : pc[Reader(y)] = "mark" => packet[y].call \in written \cup {NoCall})'
    BY Zenon, <2>1, <2>2, <2>3 DEF ReaderInv
  <2>10. (\A y \in ReaderIds : cleanstop[y] => pc[Reader(y)] \in {"send", "put", "end"})'
    BY Zenon, <2>2, <2>3, <2>4 DEF ReaderInv
  <2>11. (\A y, z \in Reading : y = z)'
    BY Zenon, <2>6 DEF ReaderInv
  <2>12. ASSUME NEW t \in TLSCalls, pc'[Call(t)] \in {"handshake", "wait"}
         PROVE  Reading' = {}
    <3>1. pc[Call(t)] = "wait"
      BY Zenon, <2>3, <2>5, <2>12, ProcNames DEF ReaderInv
    <3>2. t \in Counted
      BY Zenon, <3>1, ProcNames DEF Counted
    <3>3. isStartingTLS
      BY Zenon, <3>2 DEF IInv, CountInv, StartTLSAlone
    <3>4. x \notin Reading'
      BY Zenon, <2>4, <3>3 DEF Reading
    <3> QED  BY Zenon, <2>5, <2>6, <3>4
  <2> QED  BY Zenon, <2>8, <2>9, <2>10, <2>11, <2>12 DEF ReaderInv
<1> QED  BY Zenon, <1>3, <1>4 DEF ReaderStep

\* The processor hands a response to the call whose request it answers; a StartTLS
\* that gets one begins its handshake when nobody reads any more.
LEMMA ReaderProcess ==
  ASSUME IInv, ReaderInv, ProcessStep
  PROVE  ReaderInv'
<1> USE DEF connVars, queueVars, countVars, ctxVars, procVars, readerVars
<1>1. PcTyped /\ QueueTyped
  BY Zenon DEF IInv, TypeOK
<1>2. UNCHANGED <<packet, cleanstop>> /\ written \subseteq written'
  BY ZenonT(60) DEF ProcessStep, ProcessQuit, ProcessRequest, WriteReturns, WriteFails, ProcessResponse,
     ProcessTimeout, ProcessFinish, ProcessUnknown, DrainTell, DrainClose, DrainEnd,
     Drop, Deliver, Receive, AfterResponse
<1>3. UNCHANGED chanMessage \/ (chanMessage # <<>> /\ chanMessage' = Tail(chanMessage))
  BY ZenonT(60) DEF ProcessStep, ProcessQuit, ProcessRequest, WriteReturns, WriteFails, ProcessResponse,
     ProcessTimeout, ProcessFinish, ProcessUnknown, DrainTell, DrainClose, DrainEnd,
     Drop, Deliver, Receive, AfterResponse
<1>4. ASSUME \A x \in ReaderIds : pc'[Reader(x)] = pc[Reader(x)],
             \A t \in TLSCalls : pc'[Call(t)] = "handshake" =>
               pc[Call(t)] = "handshake" \/ (pc[Call(t)] = "wait" /\ Answered(t)),
             \A t \in TLSCalls : pc'[Call(t)] = "wait" => pc[Call(t)] = "wait",
             ppc' = "send" /\ ~sending'.err => Answered(sending'.to)
      PROVE  ReaderInv'
  <2>1. ASSUME NEW i \in At("response")'
        PROVE  chanMessage'[i] \in InFlight
    <3>1. \E j \in At("response") : chanMessage'[i] = chanMessage[j]
      <4>1. CASE UNCHANGED chanMessage
        BY Zenon, <4>1 DEF At
      <4>2. CASE chanMessage # <<>> /\ chanMessage' = Tail(chanMessage)
        BY ZenonT(60), <1>1, <4>2, TailAt
      <4> QED  BY Zenon, <1>3, <4>1, <4>2
    <3> QED  BY Zenon, <3>1 DEF InFlight
  <2>2. InFlight' \subseteq InFlight
    BY Zenon, <1>2, <1>4, <2>1 DEF InFlight
  <2>3. Reading' \subseteq Reading
    BY Zenon, <1>2, <1>4 DEF Reading
  <2>4. /\ \A x \in ReaderIds : cleanstop'[x] => pc'[Reader(x)] \in {"send", "put", "end"}
        /\ \A x \in ReaderIds : pc'[Reader(x)] = "mark" =>
             pc[Reader(x)] = "mark" /\ packet'[x] = packet[x]
    BY Zenon, <1>2, <1>4 DEF ReaderInv
  <2> QED  BY Zenon, <1>2, <1>4, <2>2, <2>3, <2>4, ReaderKept
<1>5. CASE \/ ProcessQuit \/ ProcessRequest \/ WriteFails \/ ProcessTimeout \/ ProcessFinish
           \/ ProcessUnknown \/ DrainTell \/ DrainClose \/ DrainEnd \/ Drop
  <2>1. UNCHANGED pc
    BY Zenon, <1>5 DEF ProcessQuit, ProcessRequest, WriteFails, ProcessTimeout, ProcessFinish,
       ProcessUnknown, DrainTell, DrainClose, DrainEnd, Drop
  <2>2. ppc' = "send" => sending'.err
    <3>1. CASE WriteFails \/ ProcessTimeout \/ DrainTell
      <4>1. PICK h, then : SendResponse(h, TRUE, h, FALSE, then)
        BY Zenon, <3>1 DEF WriteFails, ProcessTimeout, DrainTell
      <4> QED  BY Zenon, <4>1 DEF SendResponse
    <3>2. CASE \/ ProcessQuit \/ ProcessRequest \/ ProcessFinish \/ ProcessUnknown
               \/ DrainClose \/ DrainEnd \/ Drop
      BY Zenon, <3>2 DEF ProcessQuit, ProcessRequest, ProcessFinish, ProcessUnknown, DrainClose,
         DrainEnd, Drop, Receive, AfterResponse
    <3> QED  BY Zenon, <1>5, <3>1, <3>2
  <2> QED  BY Zenon, <1>4, <2>1, <2>2
<1>6. CASE WriteReturns
  <2>1. ppc' # "send"
    BY Zenon, <1>6 DEF WriteReturns
  <2> QED  BY Zenon, <1>1, <1>4, <1>6, <2>1, WriteFrame, ProcNames
<1>7. CASE ProcessResponse
  <2> DEFINE m == Head(chanMessage)
  <2>1. /\ UNCHANGED pc /\ chanMessage # <<>> /\ m.op = "response"
        /\ ppc' = "send"
    BY Zenon, <1>7 DEF ProcessResponse, Receive, SendResponse
  <2>5. PICK h : SendResponse(h, FALSE, m.call, m.more, "select")
    BY Zenon, <1>7 DEF ProcessResponse
  <2>6. sending'.answers = m.call
    BY Zenon, <2>5 DEF SendResponse
  <2>2. sending'.answers = sending'.to
    BY Zenon, <2>1, IdProcess DEF IdInv, NoCrossDelivery
  <2>3. m \in InFlight
    <3>1. 1 \in At("response") /\ m = chanMessage[1]
      BY <1>1, <2>1 DEF At, QueueTyped
    <3> QED  BY Zenon, <3>1 DEF InFlight
  <2>4. Answered(sending'.to)
    BY Zenon, <2>2, <2>3, <2>6 DEF Answered
  <2> QED  BY Zenon, <1>4, <2>1, <2>4
<1>8. ASSUME NEW h \in Calls, Deliver(h)
      PROVE  ReaderInv'
  <2>1. /\ ppc = "send" /\ sending.to = h /\ pc[Call(h)] = "wait" /\ ppc' # "send"
    BY Zenon, <1>8 DEF Deliver, AfterResponse
  <2>2. PICK l \in {"finish", "handshake", "wait"} : Goto(Call(h), l)
    BY Zenon, <1>8 DEF Deliver
  <2>5. sending.err => l # "handshake"
    <3> SUFFICES ASSUME sending.err PROVE l # "handshake"
      BY Zenon
    <3>1. Goto(Call(h), "finish")
      BY Zenon, <1>8 DEF Deliver
    <3>2. pc'[Call(h)] = l /\ pc'[Call(h)] = "finish"
      BY Zenon, <1>1, <2>2, <3>1, GotoCall
    <3> QED  BY Zenon, <3>2
  <2>3. /\ \A x \in ReaderIds : pc'[Reader(x)] = pc[Reader(x)]
        /\ \A k \in Calls : k # h => pc'[Call(k)] = pc[Call(k)]
        /\ pc'[Call(h)] = "handshake" => ~sending.err
    BY Zenon, <1>1, <2>2, <2>5, GotoCall
  <2>4. pc'[Call(h)] = "handshake" => Answered(h)
    BY Zenon, <2>1, <2>3 DEF Answered
  <2> QED  BY Zenon, <1>4, <2>1, <2>3, <2>4, ProcNames
<1> QED  BY Zenon, <1>5, <1>6, <1>7, <1>8 DEF ProcessStep

\* During a TLS handshake nobody reads the connection.
THEOREM HandshakeSafe == Spec => []HandshakeAlone
<1>1. Init => ReaderInv
  <2> SUFFICES ASSUME Init PROVE ReaderInv
    BY Zenon
  <2>1. /\ \A h \in Calls : pc[Call(h)] = "idle"
        /\ \A h \in TLSCalls : pc[Reader(h)] = "off"
        /\ pc[Reader(Dialer)] = "read"
    <3>1. \A h \in Calls : Call(h) # Reader(Dialer)
      BY ZenonT(60), ProcFields
    <3>2. \A h \in TLSCalls : Reader(h) # Reader(Dialer)
      BY ProcFields, ConnAssumption DEF Calls
    <3> QED  BY Zenon, <3>1, <3>2, ProcNames, ProcFields DEF Init
  <2>2. /\ chanMessage = <<>> /\ ppc = "select"
        /\ cleanstop = [x \in ReaderIds |-> FALSE]
    BY Zenon DEF Init
  <2>3. At("response") = {}
    BY <2>2 DEF At
  <2>4. \A x \in ReaderIds : pc[Reader(x)] \in {"read", "off"} /\ ~cleanstop[x]
    BY Zenon, <2>1, <2>2 DEF ReaderIds
  <2>5. InFlight = {}
    BY Zenon, <2>3, <2>4 DEF InFlight
  <2>6. Reading \subseteq {Dialer}
    BY Zenon, <2>1 DEF Reading, ReaderIds
  <2> QED  BY Zenon, <2>1, <2>2, <2>4, <2>5, <2>6, ProcNames DEF ReaderInv
<1>2. IInv /\ ReaderInv /\ [Next]_vars => ReaderInv'
  <2> SUFFICES ASSUME IInv, ReaderInv, [Next]_vars PROVE ReaderInv'
    BY Zenon
  <2>1. CASE StartAdd \/ SetTimeout \/ NetBreak \/ UNCHANGED vars
    <3>1. UNCHANGED <<pc, packet, cleanstop, chanMessage, written, ppc, sending>>
      BY Zenon, <2>1 DEF StartAdd, SetTimeout, NetBreak, vars, connVars, queueVars, countVars,
         ctxVars, procVars, readerVars
    <3> QED  BY Zenon, <3>1, ReaderMove
  <2>2. ASSUME NEW h \in TLSCalls, Handshake(h)
        PROVE  ReaderInv'
    BY Zenon, <2>2, ReaderUp, ReaderCalls DEF Handshake
  <2>3. ASSUME NEW x \in ReaderIds, Server(x) \/ ReaderStep(x)
        PROVE  ReaderInv'
    BY Zenon, <2>3, ReaderReads, ReaderMarks
  <2>4. ASSUME NEW p \in Procs, SendStep(p) \/ CloseStep(p)
        PROVE  ReaderInv'
    BY Zenon, <2>4, ReaderSend, ReaderClose
  <2> QED  BY Zenon, <2>1, <2>2, <2>3, <2>4, ReaderCalls, ReaderProcess DEF Next
<1>3. ReaderInv => HandshakeAlone
  <2> SUFFICES ASSUME ReaderInv PROVE Cardinality(Reading) <= 1
    BY Zenon DEF ReaderInv, HandshakeAlone
  <2>1. CASE Reading = {}
    BY <2>1, FS_EmptySet
  <2>2. ASSUME NEW x \in Reading
        PROVE  Cardinality(Reading) <= 1
    <3>1. Reading = {x}
      BY Zenon DEF ReaderInv
    <3> QED  BY <3>1, FS_Singleton
  <2> QED  BY Zenon, <2>1, <2>2
<1> QED  BY <1>1, <1>2, <1>3, Invariance, PTL DEF Spec

=============================================================================
