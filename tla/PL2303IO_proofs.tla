-------------------------- MODULE PL2303IO_proofs --------------------------
(***************************************************************************)
(* Proofs about the I/O path, for every set of requests, every length and  *)
(* every way of aborting unless a theorem says otherwise.                  *)
(***************************************************************************)
EXTENDS PL2303IO, SequenceTheorems, FiniteSetTheorems, TLAPS

\* Taking an element out of a sequence leaves a sequence over the same set.
LEMMA WithoutType ==
    ASSUME NEW S, NEW s \in Seq(S), NEW r
    PROVE  Without(s, r) \in Seq(S)
<1>1. CASE ~Contains(s, r)
    BY <1>1 DEF Without
<1>2. CASE Contains(s, r)
    <2> DEFINE i == CHOOSE j \in 1..Len(s) : s[j] = r
    <2>1. i \in 1..Len(s)
        BY <1>2 DEF Contains
    <2>2. SubSeq(s, 1, i - 1) \in Seq(S) /\ SubSeq(s, i + 1, Len(s)) \in Seq(S)
        <3> HIDE DEF i
        <3>1. \A k \in 1..Len(s) : s[k] \in S
            BY ElementOfSeq
        <3> QED
            BY <2>1, <3>1, SubSeqProperties
    <2>3. Without(s, r) = SubSeq(s, 1, i - 1) \o SubSeq(s, i + 1, Len(s))
        BY <1>2 DEF Without, RemoveAt
    <2> QED
        BY <2>2, <2>3
<1> QED
    BY <1>1, <1>2

-----------------------------------------------------------------------------
\* Sending the data of a write keeps the types of all it changes.
LEMMA SendWriteTypes ==
    ASSUME TransfersOK, GhostsOK, NEW r \in Req, SendWrite(r),
           UNCHANGED <<rOffset, rActual, werr>>
    PROVE  TransfersOK' /\ GhostsOK'
<1>1. accepted' \in Seq(Req)
    BY WithoutType DEF SendWrite, GhostsOK
<1>2. xfer' \in [Req -> {"none", "flight", "ok", "failed"}] /\ fault' \in {"none", "sent while in use"}
    BY DEF SendWrite, GhostsOK, SendFault
<1>3. usb' \in [Transfers -> {"idle", "flight", "replied"}] /\ wio' \in Req
    BY DEF SendWrite, TransfersOK
<1> QED
    BY <1>1, <1>2, <1>3 DEF TransfersOK, GhostsOK

\* Types and buffer bounds need each other: io_Actual of a request is a
\* difference of the two ends of the buffer.
TypeInv == TypeOK /\ BufferBounds

\* Client steps but PutMsg change neither ports nor signals; every other step
\* that does appends or removes one element.
LEMMA PortsStep ==
    ASSUME TypeInv, [Next]_vars
    PROVE  PortsOK'
<1> USE DEF listVars, workerVars, usbVars, clientVars, ghostVars, AtWork, TakeUsb, PortsOK
<1>0. /\ PortsOK /\ io \in Req \cup {Free}
      /\ (pc \in {"dispatch", "rcopy", "wsend"} => io \in Req)
    BY DEF TypeInv, TypeOK, WorkerOK
<1>1. ASSUME NEW r \in Req, Client(r)
      PROVE  PortsOK'
    <2>1. /\ unitPort' \in {unitPort, Append(unitPort, r)}
          /\ signals' \in {signals, signals \cup {"unit"}}
          /\ UNCHANGED <<readRequests, writeRequests, usbPort, stackPort>>
        BY <1>1 DEF Client, BeginQueued, BeginReturn, BeginImmediate, Collect
    <2>2. Append(unitPort, r) \in Seq(Req)
        BY <1>0, AppendProperties
    <2> QED
        BY <1>0, <2>1, <2>2
<1>2. ASSUME NEW r \in Req, Aborter(r)
      PROVE  PortsOK'
    <2>1. CASE AbortRead(r) \/ AbortWriteTail(r) \/ AbortWriteListed(r)
        <3>1. /\ readRequests' \in {readRequests, Without(readRequests, r)}
              /\ writeRequests' \in {writeRequests, Without(writeRequests, r)}
              /\ UNCHANGED <<unitPort, usbPort, stackPort, signals>>
            BY <2>1 DEF AbortRead, AbortWriteTail, AbortWriteListed
        <3>2. /\ Without(readRequests, r) \in Seq(Req)
              /\ Without(writeRequests, r) \in Seq(Req)
            BY <1>0, WithoutType
        <3> QED
            BY <1>0, <3>1, <3>2
    <2>2. CASE AbortWaitIO(r)
        <3>1. usbPort' \in {usbPort, Without(usbPort, "W")}
            BY <2>2 DEF AbortWaitIO
        <3>2. usbPort' \in Seq(Transfers)
            BY <1>0, <3>1, WithoutType
        <3> QED
            BY <1>0, <2>2, <3>2 DEF AbortWaitIO
    <2>3. CASE AbortLock(r) \/ AbortMissing(r) \/ AbortReply(r) \/ AbortOther(r)
        BY <1>0, <2>3 DEF AbortLock, AbortMissing, AbortReply, AbortOther
    <2> QED
        BY <1>2, <2>1, <2>2, <2>3 DEF Aborter
<1>3. CASE Host
    <2>0. /\ \A x \in Transfers : Append(usbPort, x) \in Seq(Transfers)
          /\ \A n \in Notes : Append(stackPort, n) \in Seq(Notes)
          /\ "R" \in Transfers /\ "W" \in Transfers /\ "I" \in Transfers
        BY <1>0, AppendProperties DEF Transfers
    <2>1. usbPort' \in Seq(Transfers)
        BY <1>0, <1>3, <2>0
           DEF Host, UsbReadDone, UsbWriteDone, UsbInterruptDone, StackNotify, Expunge
    <2>2. stackPort' \in Seq(Notes)
        BY <1>0, <1>3, <2>0
           DEF Host, UsbReadDone, UsbWriteDone, UsbInterruptDone, StackNotify, Expunge
    <2>3. /\ signals' \in SUBSET {"unit", "usb", "stack", "single"}
          /\ UNCHANGED <<unitPort, readRequests, writeRequests>>
        BY <1>0, <1>3
           DEF Host, UsbReadDone, UsbWriteDone, UsbInterruptDone, StackNotify, Expunge
    <2> QED
        BY <1>0, <2>1, <2>2, <2>3
<1>4. CASE TakeRequest \/ TakeNotification \/ ReadReplied \/ InterruptReplied \/ WaitSignal
    <2>1. /\ unitPort' = unitPort \/ (unitPort # <<>> /\ unitPort' = Tail(unitPort))
          /\ usbPort' = usbPort \/ (usbPort # <<>> /\ usbPort' = Tail(usbPort))
          /\ stackPort' = stackPort \/ (stackPort # <<>> /\ stackPort' = Tail(stackPort))
          /\ signals' \in {signals, {}}
          /\ UNCHANGED <<readRequests, writeRequests>>
        BY <1>4 DEF TakeRequest, TakeNotification, ReadReplied, InterruptReplied, WaitSignal
    <2>2. unitPort' \in Seq(Req)
        BY <1>0, <2>1, HeadTailProperties
    <2>3. usbPort' \in Seq(Transfers)
        BY <1>0, <2>1, HeadTailProperties
    <2>4. stackPort' \in Seq(Notes)
        BY <1>0, <2>1, HeadTailProperties
    <2> QED
        BY <1>0, <2>1, <2>2, <2>3, <2>4
<1>5. CASE ReadBuffered \/ ReadSubmit \/ WriteAccept
    <2>1. io \in Req /\ <<io>> \in Seq(Req)
        BY <1>0, <1>5 DEF ReadBuffered, ReadSubmit, WriteAccept
    <2>2. readRequests' \in {readRequests, <<io>>, Append(readRequests, io)}
          /\ writeRequests' \in {writeRequests, Append(writeRequests, io)}
          /\ UNCHANGED <<unitPort, usbPort, stackPort, signals>>
        BY <1>5 DEF ReadBuffered, ReadSubmit, WriteAccept, ListWrite
    <2>3. Append(readRequests, io) \in Seq(Req) /\ Append(writeRequests, io) \in Seq(Req)
        BY <1>0, <2>1, AppendProperties
    <2> QED
        BY <1>0, <2>1, <2>2, <2>3
<1>6. CASE ReadServe
    BY <1>0, <1>6, WithoutType DEF ReadServe, ReadsAfter
<1>7. CASE WriteReplied
    <2>1. /\ usbPort # <<>> /\ usbPort' = Tail(usbPort)
          /\ \/ writeRequests' = writeRequests
             \/ writeRequests # <<>> /\ writeRequests' = Tail(writeRequests)
          /\ UNCHANGED <<unitPort, readRequests, stackPort, signals>>
        BY <1>7 DEF WriteReplied
    <2> QED
        BY <1>0, <2>1, HeadTailProperties
<1>8. CASE UseFreedBase \/ UnitPortEmpty \/ AnswerAtOnce \/ UsbPortDone \/ ReadHead
           \/ ReadPart \/ WriteNext \/ WriteSend \/ LoopEnd
    BY <1>0, <1>8 DEF UseFreedBase, UnitPortEmpty, AnswerAtOnce, UsbPortDone, ReadHead,
       ReadPart, WriteNext, WriteSend, LoopEnd
<1>9. CASE UNCHANGED vars
    BY <1>0, <1>9 DEF vars
<1> QED
    BY <1>1, <1>2, <1>3, <1>4, <1>5, <1>6, <1>7, <1>8, <1>9 DEF Next, Worker, Stopped

\* The worker's own variables, the mutex and "expunged".
LEMMA WorkerStep ==
    ASSUME TypeInv, [Next]_vars
    PROVE  WorkerOK'
<1> USE DEF listVars, workerVars, usbVars, clientVars, ghostVars, AtWork, TakeUsb, WorkerOK
<1>0. /\ WorkerOK /\ unitPort \in Seq(Req) /\ readRequests \in Seq(Req)
      /\ writeRequests \in Seq(Req)
    BY DEF TypeInv, TypeOK, PortsOK
<1>1. ASSUME NEW r \in Req, Client(r) \/ Aborter(r)
      PROVE  WorkerOK'
    <2>1. UNCHANGED <<pc, io, woken, detached, expunged>> /\ mutex' \in {mutex, Free, r}
        BY <1>1 DEF Client, BeginQueued, BeginReturn, BeginImmediate, Collect,
           Aborter, AbortLock, AbortRead, AbortWriteTail, AbortWaitIO, AbortWriteListed,
           AbortMissing, AbortReply, AbortOther
    <2> QED
        BY <1>0, <2>1
<1>2. CASE Host
    BY <1>0, <1>2 DEF Host, UsbReadDone, UsbWriteDone, UsbInterruptDone, StackNotify, Expunge
<1>3. CASE TakeRequest \/ ReadHead \/ WriteNext
    <2>1. /\ unitPort # <<>> => Head(unitPort) \in Req
          /\ readRequests # <<>> => Head(readRequests) \in Req
          /\ writeRequests # <<>> => Head(writeRequests) \in Req
        BY <1>0, HeadTailProperties
    <2> QED
        BY <1>0, <1>3, <2>1 DEF TakeRequest, ReadHead, WriteNext
<1>4. CASE UnitPortEmpty \/ ReadBuffered \/ ReadSubmit \/ WriteAccept \/ AnswerAtOnce
           \/ WaitSignal \/ UsbPortDone \/ UseFreedBase
    BY <1>0, <1>4 DEF UnitPortEmpty, ReadBuffered, ReadSubmit, WriteAccept, AnswerAtOnce,
       WaitSignal, UsbPortDone, UseFreedBase
<1>5. CASE ReadReplied \/ ReadServe \/ ReadPart \/ WriteReplied \/ WriteSend
           \/ InterruptReplied \/ TakeNotification \/ LoopEnd
    BY <1>0, <1>5 DEF ReadReplied, ReadServe, ReadPart, WriteReplied, WriteSend,
       InterruptReplied, TakeNotification, LoopEnd
<1>6. CASE UNCHANGED vars
    BY <1>0, <1>6 DEF vars
<1> QED
    BY <1>1, <1>2, <1>3, <1>4, <1>5, <1>6 DEF Next, Worker, Stopped

\* The transfers and the buffer.  Its bounds need the types and the other way
\* round: what a request is given is the difference of the buffer's two ends.
LEMMA TransfersStep ==
    ASSUME TypeInv, [Next]_vars
    PROVE  TransfersOK' /\ BufferBounds'
<1> USE DEF listVars, workerVars, usbVars, clientVars, ghostVars, AtWork, TakeUsb,
            TransfersOK, BufferBounds
<1>0. /\ TransfersOK /\ BufferBounds /\ "R" \in Transfers /\ "W" \in Transfers
      /\ "I" \in Transfers
      /\ writeRequests \in Seq(Req) /\ (pc \in {"dispatch", "rcopy", "wsend"} => io \in Req)
      /\ \A r \in Req : len[r] \in Nat /\ act[r] \in Nat
    BY DEF TypeInv, TypeOK, PortsOK, WorkerOK, RequestsOK, Transfers
<1>1. ASSUME NEW r \in Req, Client(r)
      PROVE  TransfersOK' /\ BufferBounds'
    BY <1>0, <1>1 DEF Client, BeginQueued, BeginReturn, BeginImmediate, Collect
<1>2. ASSUME NEW r \in Req, Aborter(r)
      PROVE  TransfersOK' /\ BufferBounds'
    BY <1>0, <1>2 DEF Aborter, AbortLock, AbortRead, AbortWriteTail, AbortWaitIO,
       AbortWriteListed, AbortMissing, AbortReply, AbortOther
<1>3. CASE Host
    <2>1. ASSUME NEW n \in 0..MaxPacket, UsbReadDone(n)
          PROVE  TransfersOK' /\ BufferBounds'
        BY <1>0, <2>1, PacketAssumption DEF UsbReadDone
    <2>2. CASE UsbInterruptDone \/ \E e \in {"ok", "usb"} : UsbWriteDone(e)
        BY <1>0, <2>2 DEF UsbInterruptDone, UsbWriteDone
    <2>3. CASE Expunge \/ \E n \in Notes : StackNotify(n)
        BY <1>0, <2>3 DEF Expunge, StackNotify
    <2> QED
        BY <1>3, <2>1, <2>2, <2>3 DEF Host
<1>4. CASE ReadBuffered \/ ReadSubmit
    BY <1>0, <1>4 DEF ReadBuffered, ReadSubmit, RequestInput, InputLeft
<1>5. CASE WriteAccept \/ WriteSend
    BY <1>0, <1>5 DEF WriteAccept, WriteSend, SendWrite
<1>6. CASE ReadReplied
    BY <1>0, <1>6 DEF ReadReplied, NothingRead
<1>7. CASE ReadServe
    <2>1. io \in Req /\ len[io] \in Nat
        BY <1>0, <1>7 DEF ReadServe
    <2>2. \/ rOffset' = 0 /\ rActual' = 0 /\ usb' = [usb EXCEPT !["R"] = "flight"]
             /\ pc' = "usb"
          \/ rOffset' = rOffset + len[io] /\ UNCHANGED <<rActual, usb>>
             /\ pc' = IF rOffset' < rActual THEN "rhead" ELSE "usb"
        BY <1>7 DEF ReadServe, RequestInput
    <2>3. /\ fault = "none" /\ pc = "rcopy" /\ len[io] - act[io] <= rActual - rOffset
          /\ fault' = "none" => ~(act[io] > 0)
          /\ UNCHANGED <<wio, werr>>
        BY <1>7 DEF ReadServe
    <2>4. rOffset < rActual /\ usb["R"] # "flight" /\ act[io] \in Nat
        BY <1>0, <2>1, <2>3
    <2>5. fault' = "none" => len[io] <= rActual - rOffset
        BY <2>1, <2>3, <2>4
    <2>6. TransfersOK'
        BY <1>0, <2>1, <2>2, <2>3
    <2>7. BufferBounds'
        BY <1>0, <2>1, <2>2, <2>4, <2>5
    <2> QED
        BY <2>6, <2>7
<1>8. CASE ReadPart
    <2>1. \/ rOffset' = 0 /\ rActual' = 0 /\ usb' = [usb EXCEPT !["R"] = "flight"]
          \/ rOffset' = rActual /\ UNCHANGED <<rActual, usb>>
        BY <1>8 DEF ReadPart, RequestInput
    <2>2. fault = "none" /\ pc = "rcopy" /\ pc' = "usb" /\ UNCHANGED <<wio, werr>>
        BY <1>8 DEF ReadPart
    <2> QED
        BY <1>0, <2>1, <2>2
<1>9. CASE WriteReplied \/ InterruptReplied
    BY <1>0, <1>9 DEF WriteReplied, InterruptReplied
<1>10. CASE UseFreedBase \/ TakeRequest \/ UnitPortEmpty \/ AnswerAtOnce \/ WaitSignal
            \/ UsbPortDone \/ ReadHead \/ WriteNext \/ TakeNotification \/ LoopEnd
    BY <1>0, <1>10 DEF UseFreedBase, TakeRequest, UnitPortEmpty, AnswerAtOnce, WaitSignal,
       UsbPortDone, ReadHead, WriteNext, TakeNotification, LoopEnd
<1>11. CASE UNCHANGED vars
    BY <1>0, <1>11 DEF vars
<1> QED
    BY <1>1, <1>2, <1>3, <1>4, <1>5, <1>6, <1>7, <1>8, <1>9, <1>10, <1>11
       DEF Next, Worker, Stopped

\* The clients and the fields of their requests.
LEMMA RequestsStep ==
    ASSUME TypeInv, [Next]_vars
    PROVE  RequestsOK'
<1> USE DEF listVars, workerVars, usbVars, clientVars, ghostVars, AtWork, TakeUsb,
            RequestsOK
<1>0. /\ RequestsOK /\ TransfersOK /\ BufferBounds
      /\ unitPort \in Seq(Req) /\ writeRequests \in Seq(Req)
      /\ (pc \in {"dispatch", "rcopy", "wsend"} => io \in Req)
    BY DEF TypeInv, TypeOK, PortsOK, WorkerOK
<1>1. ASSUME NEW r \in Req, Client(r)
      PROVE  RequestsOK'
    <2>1. ASSUME NEW c \in Commands, NEW n \in Nat, NEW q \in BOOLEAN, BeginQueued(r, c, n, q)
          PROVE  RequestsOK'
        BY <1>0, <2>1 DEF BeginQueued
    <2>2. ASSUME NEW c \in Immediate, NEW q \in BOOLEAN, NEW e \in {"ok", "bad"}, BeginImmediate(r, c, q, e)
          PROVE  RequestsOK'
        BY <1>0, <2>2 DEF BeginImmediate, Commands, Immediate, Errors
    <2>3. CASE BeginReturn(r)
        BY <1>0, <2>3 DEF BeginReturn
    <2>4. CASE Collect(r)
        BY <1>0, <2>4 DEF Collect, Commands, Errors
    <2>5. /\ {"read", "write", "params", "other"} \subseteq Commands
          /\ ReadLengths \subseteq Nat /\ 0 \in Nat /\ Quicks \subseteq BOOLEAN
        BY LengthAssumption, UseAssumption DEF Commands, Reads, Writes
    <2> QED
        BY <1>1, <2>1, <2>2, <2>3, <2>4, <2>5 DEF Client
<1>2. ASSUME NEW r \in Req, Aborter(r)
      PROVE  RequestsOK'
    BY <1>0, <1>2 DEF Aborter, AbortLock, AbortRead, AbortWriteTail, AbortWaitIO,
       AbortWriteListed, AbortMissing, AbortReply, AbortOther, Errors
<1>3. CASE Host
    BY <1>0, <1>3 DEF Host, UsbReadDone, UsbWriteDone, UsbInterruptDone, StackNotify, Expunge
<1>4. CASE TakeRequest
    BY <1>0, <1>4, HeadTailProperties DEF TakeRequest
<1>5. CASE ReadBuffered
    <2>1. \/ act' = [act EXCEPT ![io] = len[io]] /\ err' = [err EXCEPT ![io] = "ok"]
             /\ replied' = [replied EXCEPT ![io] = TRUE]
          \/ act' = [act EXCEPT ![io] = rActual - rOffset] /\ UNCHANGED <<err, replied>>
        BY <1>5 DEF ReadBuffered
    <2>2. io \in Req /\ len[io] \in Nat /\ rActual - rOffset \in Nat
        BY <1>0, <1>5 DEF ReadBuffered, InputLeft, TransfersOK
    <2>3. UNCHANGED <<client, abort, cmd, len, quick>>
        BY <1>5 DEF ReadBuffered
    <2> QED
        BY <1>0, <2>1, <2>2, <2>3 DEF Errors
<1>6. CASE AnswerAtOnce
    BY <1>0, <1>6 DEF AnswerAtOnce, Errors
<1>7. CASE ReadServe
    BY <1>0, <1>7 DEF ReadServe, TransfersOK, Errors
<1>8. CASE ReadPart
    <2>0. fault = "none" /\ pc = "rcopy"
        BY <1>8 DEF ReadPart
    <2>1. rActual - rOffset \in Nat
        BY <1>0, <2>0 DEF TransfersOK, BufferBounds
    <2>2. act' = [act EXCEPT ![io] = rActual - rOffset]
          /\ UNCHANGED <<client, abort, cmd, len, err, quick, replied>>
        BY <1>8 DEF ReadPart
    <2> QED
        BY <1>0, <2>1, <2>2
<1>9. CASE WriteReplied
    <2>1. \/ UNCHANGED <<err, replied>>
          \/ /\ writeRequests # <<>>
             /\ err' = [err EXCEPT ![Head(writeRequests)] = werr]
             /\ replied' = [replied EXCEPT ![Head(writeRequests)] = TRUE]
        BY <1>9 DEF WriteReplied, WriteResult
    <2>2. UNCHANGED <<client, abort, cmd, len, act, quick>>
        BY <1>9 DEF WriteReplied
    <2>3. writeRequests # <<>> => Head(writeRequests) \in Req
        BY <1>0, HeadTailProperties
    <2>4. werr \in Errors
        BY <1>0 DEF TransfersOK, Errors
    <2>5. act' \in [Req -> Nat] /\ err' \in [Req -> Errors] /\ replied' \in [Req -> BOOLEAN]
        BY <1>0, <2>1, <2>2, <2>3, <2>4
    <2> QED
        BY <1>0, <2>2, <2>5
<1>10. CASE UseFreedBase \/ UnitPortEmpty \/ ReadSubmit \/ WriteAccept \/ WaitSignal
            \/ UsbPortDone \/ ReadReplied \/ ReadHead \/ WriteNext \/ WriteSend \/ InterruptReplied
            \/ TakeNotification \/ LoopEnd
    BY <1>0, <1>10 DEF UseFreedBase, UnitPortEmpty, ReadSubmit, WriteAccept, WaitSignal,
       UsbPortDone, ReadReplied, ReadHead, WriteNext, WriteSend, InterruptReplied, TakeNotification,
       LoopEnd
<1>11. CASE UNCHANGED vars
    BY <1>0, <1>11 DEF vars
<1> QED
    BY <1>1, <1>2, <1>3, <1>4, <1>5, <1>6, <1>7, <1>8, <1>9, <1>10, <1>11
       DEF Next, Worker, Stopped

\* The ghosts.
LEMMA GhostsStep ==
    ASSUME TypeInv, [Next]_vars
    PROVE  GhostsOK'
<1> USE DEF listVars, workerVars, usbVars, clientVars, ghostVars, AtWork, TakeUsb, GhostsOK
<1>0. /\ GhostsOK /\ (pc \in {"dispatch", "rcopy", "wsend"} => io \in Req)
      /\ writeRequests \in Seq(Req)
    BY DEF TypeInv, TypeOK, PortsOK, WorkerOK
<1>1. ASSUME NEW r \in Req, Client(r)
      PROVE  GhostsOK'
    <2>1. /\ accepted' \in {accepted, Append(accepted, r), Without(accepted, r)}
          /\ xfer' \in {xfer, [xfer EXCEPT ![r] = "none"]}
          /\ UNCHANGED fault
        BY <1>1 DEF Client, BeginQueued, BeginReturn, BeginImmediate, Collect
    <2>2. Append(accepted, r) \in Seq(Req) /\ Without(accepted, r) \in Seq(Req)
        BY <1>0, AppendProperties, WithoutType
    <2> QED
        BY <1>0, <2>1, <2>2
<1>2. ASSUME NEW r \in Req, Aborter(r)
      PROVE  GhostsOK'
    BY <1>0, <1>2 DEF Aborter, AbortLock, AbortRead, AbortWriteTail, AbortWaitIO,
       AbortWriteListed, AbortMissing, AbortReply, AbortOther, AbortFault, ReplyFault
<1>3. CASE Host
    BY <1>0, <1>3 DEF Host, UsbReadDone, UsbWriteDone, UsbInterruptDone, StackNotify, Expunge
<1>4. CASE ReadBuffered \/ ReadSubmit \/ AnswerAtOnce \/ UseFreedBase
    BY <1>0, <1>4 DEF ReadBuffered, ReadSubmit, AnswerAtOnce, UseFreedBase, ReplyFault, SendFault
<1>5. CASE WriteAccept \/ WriteSend
    <2>1. \/ UNCHANGED <<accepted, xfer, fault>>
          \/ \E r \in Req : /\ accepted' = Without(accepted, r)
                            /\ xfer' = [xfer EXCEPT ![r] = "flight"]
                            /\ fault' \in {"none", "sent while in use"}
        BY <1>0, <1>5 DEF WriteAccept, WriteSend, SendWrite, SendFault
    <2>2. \A r \in Req : Without(accepted, r) \in Seq(Req)
        BY <1>0, WithoutType
    <2> QED
        BY <1>0, <2>1, <2>2
<1>6. CASE ReadServe \/ ReadPart \/ WriteReplied \/ ReadReplied \/ InterruptReplied
    BY <1>0, <1>6 DEF ReadServe, ReadPart, WriteReplied, ReadReplied, InterruptReplied,
       SendFault, ResendFault
<1>7. CASE TakeRequest \/ UnitPortEmpty \/ WaitSignal \/ UsbPortDone \/ ReadHead
           \/ WriteNext \/ TakeNotification \/ LoopEnd
    BY <1>0, <1>7 DEF TakeRequest, UnitPortEmpty, WaitSignal, UsbPortDone, ReadHead,
       WriteNext, TakeNotification, LoopEnd
<1>8. CASE UNCHANGED vars
    BY <1>0, <1>8 DEF vars
<1> QED
    BY <1>1, <1>2, <1>3, <1>4, <1>5, <1>6, <1>7, <1>8 DEF Next, Worker, Stopped

\* The state stays well typed in every step of clients, USB stack and worker.
LEMMA TypeStep ==
    ASSUME TypeInv, [Next]_vars
    PROVE  TypeInv'
    BY PortsStep, WorkerStep, TransfersStep, RequestsStep, GhostsStep DEF TypeInv, TypeOK

LEMMA TypeInit == Init => TypeInv
<1> SUFFICES ASSUME Init PROVE TypeInv
    OBVIOUS
<1>1. PortsOK
    BY DEF Init, PortsOK
<1>2. WorkerOK
    BY DEF Init, WorkerOK
<1>3. TransfersOK
    BY DEF Init, TransfersOK
<1>4. RequestsOK
    BY DEF Init, RequestsOK, Commands, Errors
<1>5. GhostsOK
    BY DEF Init, GhostsOK
<1>6. BufferBounds
    BY DEF Init, BufferBounds, Transfers
<1> QED
    BY <1>1, <1>2, <1>3, <1>4, <1>5, <1>6 DEF TypeInv, TypeOK

LEMMA TypeAlways == Spec => []TypeInv
    BY TypeInit, TypeStep, PTL DEF Spec

\* Every state of the I/O path is well typed, whatever clients, aborts, lengths
\* and notifications there are.
THEOREM TypeCorrect == Spec => []TypeOK
<1>1. TypeInv => TypeOK
    BY DEF TypeInv
<1> QED
    BY <1>1, TypeAlways, PTL

\* ReadUsbIO's offset stays within the bytes received, also when reads are
\* aborted: the worker never reads the input buffer past its end.
THEOREM BufferBoundsHold == Spec => []BufferBounds
<1>1. TypeInv => BufferBounds
    BY DEF TypeInv
<1> QED
    BY <1>1, TypeAlways, PTL

-----------------------------------------------------------------------------
(***************************************************************************)
(* No lost wakeup.  A message in a port leaves a trace until the worker    *)
(* looks at the port: the signal, or, once Wait has cleared it, the copy   *)
(* in "woken" while the worker is still before the loop over that port.    *)
(***************************************************************************)
UnitTrace == unitPort # <<>> => "unit" \in signals \/ pc # "wait"
UsbTrace ==
    usbPort # <<>> =>
        \/ "usb" \in signals
        \/ pc = "exit"
        \/ "usb" \in woken /\ pc \in {"usb", "rhead", "rcopy", "wnext", "wsend"}
StackTrace ==
    stackPort # <<>> =>
        \/ "stack" \in signals
        \/ pc = "exit"
        \/ "stack" \in woken /\ pc \in {"usb", "rhead", "rcopy", "wnext", "wsend", "notify"}
Traces == UnitTrace /\ UsbTrace /\ StackTrace

\* Every step keeps the traces.
LEMMA TraceStep ==
    ASSUME TypeInv, Traces, [Next]_vars
    PROVE  Traces'
<1> USE DEF listVars, workerVars, usbVars, clientVars, ghostVars, AtWork, TakeUsb,
            PortServed, Traces, UnitTrace, UsbTrace, StackTrace
<1>1. ASSUME NEW r \in Req, Client(r)
      PROVE  Traces'
    BY <1>1 DEF Client, BeginQueued, BeginReturn, BeginImmediate, Collect
<1>2. ASSUME NEW r \in Req, Aborter(r)
      PROVE  Traces'
    <2>1. usbPort' \in {usbPort, Without(usbPort, "W")}
          /\ UNCHANGED <<unitPort, stackPort, signals, pc, woken>>
        BY <1>2 DEF Aborter, AbortLock, AbortRead, AbortWriteTail, AbortWaitIO,
           AbortWriteListed, AbortMissing, AbortReply, AbortOther
    <2>2. Without(<<>>, "W") = <<>>
        BY DEF Without, Contains
    <2> QED
        BY <2>1, <2>2
<1>3. CASE Host
    BY <1>3 DEF Host, UsbReadDone, UsbWriteDone, UsbInterruptDone, StackNotify, Expunge
<1>4. CASE TakeRequest \/ UnitPortEmpty \/ ReadBuffered \/ ReadSubmit \/ WriteAccept
           \/ AnswerAtOnce \/ WaitSignal \/ UseFreedBase
    BY <1>4 DEF TakeRequest, UnitPortEmpty, ReadBuffered, ReadSubmit, WriteAccept,
       AnswerAtOnce, WaitSignal, UseFreedBase
<1>5. CASE UsbPortDone \/ ReadReplied \/ ReadHead \/ ReadServe \/ ReadPart
           \/ WriteReplied \/ WriteNext \/ WriteSend \/ InterruptReplied
    BY <1>5 DEF UsbPortDone, ReadReplied, ReadHead, ReadServe, ReadPart,
       WriteReplied, WriteNext, WriteSend, InterruptReplied
<1>6. CASE TakeNotification \/ LoopEnd
    BY <1>6 DEF TakeNotification, LoopEnd
<1>7. CASE UNCHANGED vars
    BY <1>7 DEF vars
<1> QED
    BY <1>1, <1>2, <1>3, <1>4, <1>5, <1>6, <1>7 DEF Next, Worker, Stopped

\* The worker never waits while a port holds a message whose signal is not set.
THEOREM NoWakeupLost == Spec => []NoLostWakeup
<1>1. Init => Traces
    BY DEF Init, Traces, UnitTrace, UsbTrace, StackTrace
<1>2. TypeInv /\ Traces /\ [Next]_vars => Traces'
    BY TraceStep
<1>3. Traces => NoLostWakeup
    BY DEF Traces, UnitTrace, UsbTrace, StackTrace, NoLostWakeup
<1> QED
    BY <1>1, <1>2, <1>3, TypeAlways, PTL DEF Spec

-----------------------------------------------------------------------------
\* Appending what is not in a sequence, and taking its head.

LEMMA AppendToSet ==
    ASSUME NEW S, NEW s \in Seq(S), NEW x
    PROVE  ToSet(Append(s, x)) = ToSet(s) \cup {x}
<1>1. /\ DOMAIN s = 1..Len(s) /\ Len(s) \in Nat
      /\ DOMAIN Append(s, x) = 1..(Len(s) + 1)
      /\ \A i \in 1..Len(s) : Append(s, x)[i] = s[i]
      /\ Append(s, x)[Len(s) + 1] = x
    OBVIOUS
<1> QED
    BY <1>1 DEF ToSet

LEMMA AppendKeepsInjective ==
    ASSUME NEW S, NEW s \in Seq(S), NEW x, IsInjective(s), x \notin ToSet(s)
    PROVE  IsInjective(Append(s, x))
<1> DEFINE t == Append(s, x)
<1>1. /\ DOMAIN s = 1..Len(s) /\ Len(s) \in Nat
      /\ DOMAIN t = 1..(Len(s) + 1)
      /\ \A i \in 1..Len(s) : t[i] = s[i]
      /\ t[Len(s) + 1] = x
    OBVIOUS
<1>2. \A i \in 1..(Len(s) + 1) : i \in 1..Len(s) \/ i = Len(s) + 1
    BY <1>1
<1>3. \A i \in 1..Len(s) : s[i] # x
    BY <1>1 DEF ToSet
<1> HIDE DEF t
<1>4. \A i, j \in DOMAIN t : t[i] = t[j] => i = j
    BY <1>1, <1>2, <1>3 DEF IsInjective
<1> QED
    BY <1>4 DEF t, IsInjective

LEMMA TailToSet ==
    ASSUME NEW S, NEW s \in Seq(S), s # <<>>, IsInjective(s)
    PROVE  /\ Head(s) \in ToSet(s)
           /\ ToSet(Tail(s)) = ToSet(s) \ {Head(s)}
           /\ IsInjective(Tail(s))
<1>1. /\ DOMAIN s = 1..Len(s) /\ Len(s) \in Nat \ {0}
      /\ DOMAIN Tail(s) = 1..(Len(s) - 1)
      /\ \A i \in 1..(Len(s) - 1) : Tail(s)[i] = s[i + 1]
      /\ Head(s) = s[1]
    OBVIOUS
<1>2. \A x \in ToSet(s) \ {Head(s)} : \E i \in 1..(Len(s) - 1) : x = s[i + 1]
    <2> SUFFICES ASSUME NEW j \in 1..Len(s), s[j] # s[1]
                 PROVE  \E i \in 1..(Len(s) - 1) : s[j] = s[i + 1]
        BY <1>1 DEF ToSet
    <2>1. j - 1 \in 1..(Len(s) - 1) /\ (j - 1) + 1 = j
        BY <1>1
    <2> QED
        BY <2>1
<1>3. \A i \in 1..(Len(s) - 1) : s[i + 1] \in ToSet(s) \ {Head(s)}
    BY <1>1 DEF ToSet, IsInjective
<1>4. ToSet(Tail(s)) = ToSet(s) \ {Head(s)}
    <2>1. ToSet(Tail(s)) = {s[i + 1] : i \in 1..(Len(s) - 1)}
        BY <1>1 DEF ToSet
    <2> QED
        BY <1>2, <1>3, <2>1
<1>5. IsInjective(Tail(s))
    BY <1>1 DEF IsInjective
<1>6. Head(s) \in ToSet(s)
    BY <1>1 DEF ToSet
<1> QED
    BY <1>4, <1>5, <1>6

LEMMA ContainsToSet ==
    ASSUME NEW S, NEW s \in Seq(S), NEW x
    PROVE  Contains(s, x) <=> x \in ToSet(s)
    BY DEF Contains, ToSet

LEMMA SmallToSet ==
    ASSUME NEW x
    PROVE  /\ ToSet(<<>>) = {} /\ IsInjective(<<>>)
           /\ ToSet(<<x>>) = {x} /\ IsInjective(<<x>>)
           /\ Without(<<x>>, x) = <<>>
<1>1. ToSet(<<>>) = {} /\ IsInjective(<<>>)
    BY DEF ToSet, IsInjective
<1>2. ToSet(<<x>>) = {x} /\ IsInjective(<<x>>)
    BY DEF ToSet, IsInjective
<1>3. Contains(<<x>>, x) /\ (CHOOSE i \in 1..Len(<<x>>) : <<x>>[i] = x) = 1
    BY DEF Contains
<1>4. SubSeq(<<x>>, 1, 0) = <<>> /\ SubSeq(<<x>>, 2, 1) = <<>>
    OBVIOUS
<1>5. Without(<<x>>, x) = <<>> \o <<>>
    BY <1>3, <1>4 DEF Without, RemoveAt
<1> QED
    BY <1>1, <1>2, <1>5

\* Taking out an element that is there once.
LEMMA WithoutToSet ==
    ASSUME NEW S, NEW s \in Seq(S), NEW x, IsInjective(s)
    PROVE  ToSet(Without(s, x)) = ToSet(s) \ {x} /\ IsInjective(Without(s, x))
<1>1. CASE x \notin ToSet(s)
    BY <1>1, ContainsToSet DEF Without
<1>2. CASE x \in ToSet(s)
    <2> DEFINE n == Len(s)
               i == CHOOSE k \in 1..Len(s) : s[k] = x
               t == Without(s, x)
    <2>1. n \in Nat /\ DOMAIN s = 1..n /\ (\A k \in 1..n : s[k] \in S)
        BY ElementOfSeq
    <2>2. i \in 1..n /\ s[i] = x
        BY <1>2, <2>1 DEF ToSet
    <2>3. t = SubSeq(s, 1, i - 1) \o SubSeq(s, i + 1, n)
        BY <1>2, ContainsToSet DEF Without, RemoveAt
    <2> HIDE DEF i, t
    <2>4. /\ SubSeq(s, 1, i - 1) \in Seq(S) /\ Len(SubSeq(s, 1, i - 1)) = i - 1
          /\ \A k \in 1..(i - 1) : SubSeq(s, 1, i - 1)[k] = s[k]
          /\ SubSeq(s, i + 1, n) \in Seq(S) /\ Len(SubSeq(s, i + 1, n)) = n - i
          /\ \A k \in 1..(n - i) : SubSeq(s, i + 1, n)[k] = s[i + k]
        BY <2>1, <2>2
    <2>5. /\ DOMAIN t = 1..(n - 1)
          /\ \A k \in 1..(n - 1) : t[k] = IF k < i THEN s[k] ELSE s[k + 1]
        <3> HIDE DEF n
        <3>1. t \in Seq(S) /\ Len(t) = n - 1
            BY <2>1, <2>2, <2>3, <2>4, ConcatProperties
        <3>2. ASSUME NEW k \in 1..(n - 1)
              PROVE  t[k] = IF k < i THEN s[k] ELSE s[k + 1]
            <4>1. CASE k < i
                BY <2>1, <2>2, <2>3, <2>4, <4>1, ConcatProperties
            <4>2. CASE ~(k < i)
                <5>1. k - (i - 1) \in 1..(n - i) /\ i + (k - (i - 1)) = k + 1
                    BY <2>1, <2>2, <4>2
                <5>2. t[k] = SubSeq(s, i + 1, n)[k - (i - 1)]
                    <6>1. (i - 1) + (n - i) = n - 1 /\ ~(k <= i - 1)
                        BY <2>1, <2>2, <4>2
                    <6> DEFINE a == SubSeq(s, 1, i - 1)
                               b == SubSeq(s, i + 1, n)
                    <6>2. /\ a \in Seq(S) /\ b \in Seq(S) /\ Len(a) = i - 1
                          /\ Len(b) = n - i /\ t = a \o b
                        BY <2>3, <2>4
                    <6> HIDE DEF a, b
                    <6>3. (a \o b)[k] = IF k <= Len(a) THEN a[k] ELSE b[k - Len(a)]
                        BY <6>1, <6>2, ConcatProperties
                    <6> QED
                        BY <6>1, <6>2, <6>3 DEF b
                <5> QED
                    BY <2>4, <4>2, <5>1, <5>2
            <4> QED
                BY <4>1, <4>2
        <3> QED
            BY <3>1, <3>2, LenProperties
    <2> HIDE DEF n
    <2>6. IsInjective(t)
        <3> SUFFICES ASSUME NEW j \in 1..(n - 1), NEW k \in 1..(n - 1), t[j] = t[k]
                     PROVE  j = k
            BY <2>5 DEF IsInjective
        <3>1. j \in 1..n /\ j + 1 \in 1..n /\ k \in 1..n /\ k + 1 \in 1..n
            BY <2>1
        <3>2. \A l, m \in 1..n : s[l] = s[m] => l = m
            BY <2>1 DEF IsInjective
        <3>3. CASE j < i /\ k < i
            BY <2>5, <3>1, <3>2, <3>3
        <3>4. CASE j < i /\ ~(k < i)
            <4>1. s[j] = s[k + 1] /\ j # k + 1
                BY <2>2, <2>5, <3>4
            <4> QED
                BY <3>1, <3>2, <4>1
        <3>5. CASE ~(j < i) /\ k < i
            <4>1. s[j + 1] = s[k] /\ j + 1 # k
                BY <2>2, <2>5, <3>5
            <4> QED
                BY <3>1, <3>2, <4>1
        <3>6. CASE ~(j < i) /\ ~(k < i)
            <4>1. s[j + 1] = s[k + 1]
                BY <2>5, <3>6
            <4>2. j + 1 = k + 1
                BY <3>1, <3>2, <4>1
            <4> QED
                BY <4>2
        <3> QED
            BY <3>3, <3>4, <3>5, <3>6
    <2>7. ToSet(t) \subseteq ToSet(s) \ {x}
        <3> SUFFICES ASSUME NEW k \in 1..(n - 1)
                     PROVE  t[k] \in ToSet(s) \ {x}
            BY <2>5 DEF ToSet
        <3>1. k \in 1..n /\ k + 1 \in 1..n
            BY <2>1
        <3> QED
            BY <2>1, <2>2, <2>5, <3>1 DEF IsInjective, ToSet
    <2>8. ToSet(s) \ {x} \subseteq ToSet(t)
        <3> SUFFICES ASSUME NEW k \in 1..n, s[k] # x
                     PROVE  s[k] \in ToSet(t)
            BY <2>1 DEF ToSet
        <3>1. k # i
            BY <2>2
        <3>2. CASE k < i
            <4>1. k \in 1..(n - 1) /\ t[k] = s[k]
                BY <2>1, <2>2, <2>5, <3>2
            <4> QED
                BY <2>5, <4>1 DEF ToSet
        <3>3. CASE ~(k < i)
            <4>1. k - 1 \in 1..(n - 1) /\ ~(k - 1 < i) /\ (k - 1) + 1 = k
                BY <2>1, <2>2, <3>1, <3>3
            <4>2. t[k - 1] = s[k]
                BY <2>5, <4>1
            <4> QED
                BY <2>5, <4>1, <4>2 DEF ToSet
        <3> QED
            BY <3>2, <3>3
    <2> QED
        BY <2>6, <2>7, <2>8 DEF t
<1> QED
    BY <1>1, <1>2

\* Where a sequence holds an element, and that without repetitions it is one place.
At(tag, s, x) == {<<tag, i>> : i \in {j \in 1..Len(s) : s[j] = x}}

LEMMA OneIndex ==
    ASSUME NEW S, NEW s \in Seq(S), NEW x, NEW tag, IsInjective(s)
    PROVE  IF x \in ToSet(s) THEN \E p : At(tag, s, x) = {p} ELSE At(tag, s, x) = {}
<1>1. x \notin ToSet(s) => At(tag, s, x) = {}
    BY DEF ToSet, At
<1>2. ASSUME x \in ToSet(s)
      PROVE  \E p : At(tag, s, x) = {p}
    <2>1. PICK i \in 1..Len(s) : s[i] = x
        BY <1>2 DEF ToSet
    <2>2. {j \in 1..Len(s) : s[j] = x} = {i}
        BY <2>1 DEF IsInjective
    <2>3. At(tag, s, x) = {<<tag, i>>}
        BY <2>2 DEF At
    <2> QED
        BY <2>3
<1> QED
    BY <1>1, <1>2

-----------------------------------------------------------------------------
(***************************************************************************)
(* Custody, whoever aborts whatever: up to the first misuse of exec a      *)
(* pending request lies in exactly one place of the driver, or its AbortIO *)
(* has taken it out.                                                       *)
(***************************************************************************)

\* A request the driver owes an answer.
Pending(r) == client[r] # "idle" /\ ~replied[r] /\ cmd[r] \notin Immediate
Hand == IF pc = "dispatch" THEN {io} ELSE {}
\* Its AbortIO has taken the request out of a list and is about to answer it.
TakenOut(r) == abort[r] \in {"waitio", "found"}

InPlaces(r) ==
    \/ r \in ToSet(unitPort) \/ r \in ToSet(readRequests)
    \/ r \in ToSet(writeRequests) \/ r \in Hand
InOnePlace(r) ==
    /\ r \in ToSet(unitPort) =>
          r \notin ToSet(readRequests) /\ r \notin ToSet(writeRequests) /\ r \notin Hand
    /\ r \in ToSet(readRequests) => r \notin ToSet(writeRequests) /\ r \notin Hand
    /\ r \in ToSet(writeRequests) => r \notin Hand

\* The pending requests are those that lie somewhere, each in one place, there
\* once, but for those an AbortIO holds.
Placed ==
    /\ IsInjective(unitPort) /\ IsInjective(readRequests) /\ IsInjective(writeRequests)
    /\ \A r \in Req : (InPlaces(r) <=> Pending(r) /\ ~TakenOut(r)) /\ InOnePlace(r)

\* What lies in a list belongs there.
Sorted ==
    /\ \A r \in Req : r \in ToSet(readRequests) => cmd[r] = "read"
    /\ \A r \in Req : r \in ToSet(writeRequests) => cmd[r] = "write"

\* Only a finished request keeps IOF_QUICK, only requests that have left BeginIO
\* are aborted, and AbortIO searches for reads and writes only.
Marked ==
    /\ \A r \in Req : client[r] = "out" /\ quick[r] => cmd[r] \in Immediate
    /\ \A r \in Req : InPlaces(r) => cmd[r] \notin Immediate
    /\ \A r \in Req : abort[r] # "none" => client[r] = "out"
    /\ \A r \in Req : abort[r] \in {"search", "waitio", "found", "missing"} =>
                         cmd[r] \in Reads \cup Writes

HeldInv == TypeInv /\ Marked /\ (fault = "none" => Placed /\ Sorted)

\* The program does nothing after a misuse.
LEMMA FaultStops ==
    ASSUME [Next]_vars, fault # "none"
    PROVE  UNCHANGED vars
<1>1. ASSUME NEW r \in Req, Client(r) \/ Aborter(r)
      PROVE  FALSE
    BY <1>1 DEF Client, BeginQueued, BeginReturn, BeginImmediate, Collect, Aborter,
       AbortLock, AbortRead, AbortWriteTail, AbortWaitIO, AbortWriteListed, AbortMissing,
       AbortReply, AbortOther
<1>2. ~Host
    BY DEF Host, UsbReadDone, UsbWriteDone, UsbInterruptDone, StackNotify, Expunge
<1>3. ~Worker
    BY DEF Worker, UseFreedBase, TakeRequest, UnitPortEmpty, ReadBuffered, ReadSubmit,
       WriteAccept, AnswerAtOnce, WaitSignal, UsbPortDone, ReadReplied, ReadHead, ReadServe,
       ReadPart, WriteReplied, WriteNext, WriteSend, InterruptReplied, TakeNotification, LoopEnd,
       AtWork, TakeUsb
<1> QED
    BY <1>1, <1>2, <1>3 DEF Next, Stopped

\* The variables of HeldInv have their types, and Contains is membership.
LEMMA HeldTypes ==
    ASSUME TypeInv
    PROVE  /\ unitPort \in Seq(Req) /\ readRequests \in Seq(Req) /\ writeRequests \in Seq(Req)
           /\ client \in [Req -> {"idle", "putting", "out"}] /\ cmd \in [Req -> Commands]
           /\ replied \in [Req -> BOOLEAN] /\ quick \in [Req -> BOOLEAN]
           /\ abort \in [Req -> {"none", "search", "waitio", "found", "missing", "done"}]
           /\ \A r \in Req : Contains(unitPort, r) <=> r \in ToSet(unitPort)
           /\ \A r \in Req : Contains(readRequests, r) <=> r \in ToSet(readRequests)
           /\ \A r \in Req : Contains(writeRequests, r) <=> r \in ToSet(writeRequests)
           /\ writeRequests # <<>> => Head(writeRequests) \in Req
           /\ unitPort # <<>> => Head(unitPort) \in Req
           /\ (pc \in {"dispatch", "rcopy", "wsend"} => io \in Req)
<1>1. /\ unitPort \in Seq(Req) /\ readRequests \in Seq(Req) /\ writeRequests \in Seq(Req)
      /\ client \in [Req -> {"idle", "putting", "out"}] /\ cmd \in [Req -> Commands]
      /\ replied \in [Req -> BOOLEAN] /\ quick \in [Req -> BOOLEAN]
      /\ abort \in [Req -> {"none", "search", "waitio", "found", "missing", "done"}]
      /\ (pc \in {"dispatch", "rcopy", "wsend"} => io \in Req)
    BY DEF TypeInv, TypeOK, PortsOK, RequestsOK, WorkerOK
<1>2. \A r \in Req : Contains(unitPort, r) <=> r \in ToSet(unitPort)
    BY <1>1, ContainsToSet
<1>3. \A r \in Req : Contains(readRequests, r) <=> r \in ToSet(readRequests)
    BY <1>1, ContainsToSet
<1>4. \A r \in Req : Contains(writeRequests, r) <=> r \in ToSet(writeRequests)
    BY <1>1, ContainsToSet
<1> QED
    BY <1>1, <1>2, <1>3, <1>4, HeadTailProperties

\* A request in hand is pending and in no list.
LEMMA HandFacts ==
    ASSUME TypeInv, Placed, pc = "dispatch"
    PROVE  /\ io \in Req /\ io \in Hand /\ InPlaces(io) /\ Pending(io) /\ ~TakenOut(io)
           /\ io \notin ToSet(unitPort) /\ io \notin ToSet(readRequests)
           /\ io \notin ToSet(writeRequests) /\ ReplyFault(io) = "none"
<1>1. io \in Req /\ io \in Hand /\ InPlaces(io)
    BY HeldTypes DEF Hand, InPlaces
<1>2. /\ io \notin ToSet(unitPort) /\ io \notin ToSet(readRequests)
      /\ io \notin ToSet(writeRequests) /\ Pending(io) /\ ~TakenOut(io)
    BY <1>1 DEF Placed, InOnePlace
<1>3. ~Linked(io)
    BY <1>1, <1>2, HeldTypes DEF Linked
<1> QED
    BY <1>1, <1>2, <1>3 DEF ReplyFault, Pending

\* A list loses its head, or the request that is taken out.
LEMMA ListsShrink ==
    ASSUME TypeInv, Placed
    PROVE  /\ unitPort # <<>> => /\ Head(unitPort) \in ToSet(unitPort)
                                 /\ ToSet(Tail(unitPort)) = ToSet(unitPort) \ {Head(unitPort)}
                                 /\ IsInjective(Tail(unitPort))
           /\ writeRequests # <<>> =>
                 /\ Head(writeRequests) \in ToSet(writeRequests)
                 /\ ToSet(Tail(writeRequests)) = ToSet(writeRequests) \ {Head(writeRequests)}
                 /\ IsInjective(Tail(writeRequests))
           /\ \A r : /\ ToSet(Without(readRequests, r)) = ToSet(readRequests) \ {r}
                     /\ IsInjective(Without(readRequests, r))
                     /\ ToSet(Without(writeRequests, r)) = ToSet(writeRequests) \ {r}
                     /\ IsInjective(Without(writeRequests, r))
<1>1. /\ unitPort \in Seq(Req) /\ readRequests \in Seq(Req) /\ writeRequests \in Seq(Req)
      /\ IsInjective(unitPort) /\ IsInjective(readRequests) /\ IsInjective(writeRequests)
    BY HeldTypes DEF Placed
<1>2. unitPort # <<>> => /\ Head(unitPort) \in ToSet(unitPort)
                         /\ ToSet(Tail(unitPort)) = ToSet(unitPort) \ {Head(unitPort)}
                         /\ IsInjective(Tail(unitPort))
    BY <1>1, TailToSet
<1>3. writeRequests # <<>> =>
         /\ Head(writeRequests) \in ToSet(writeRequests)
         /\ ToSet(Tail(writeRequests)) = ToSet(writeRequests) \ {Head(writeRequests)}
         /\ IsInjective(Tail(writeRequests))
    BY <1>1, TailToSet
<1>4. \A r : ToSet(Without(readRequests, r)) = ToSet(readRequests) \ {r}
             /\ IsInjective(Without(readRequests, r))
    BY <1>1, WithoutToSet
<1>5. \A r : ToSet(Without(writeRequests, r)) = ToSet(writeRequests) \ {r}
             /\ IsInjective(Without(writeRequests, r))
    BY <1>1, WithoutToSet
<1> QED
    BY <1>2, <1>3, <1>4, <1>5

\* An AbortIO that answers its request without a misuse finds it nowhere.
LEMMA AbortHarmless ==
    ASSUME TypeInv, Placed, NEW r \in Req, AbortFault(r) = "none"
    PROVE  ~replied[r] /\ ~InPlaces(r)
<1>1. ~replied[r]
    BY DEF AbortFault, ReplyFault
<1>2. ~(pc = "dispatch" /\ io = r) /\ ~Linked(r)
    BY <1>1 DEF AbortFault, ReplyFault, InHand
<1> QED
    BY <1>1, <1>2, HeldTypes DEF InPlaces, Hand, Linked

\* The step misuses nothing, or nobody aborts and what the worker copies to is
\* listed.
Regular ==
    \/ fault' = "none"
    \/ (\A r \in Req : ~Aborter(r)) /\ (pc = "rcopy" => io \in ToSet(readRequests))

\* A request goes from the unit port to the worker's hand, from there to a list
\* or to its client, from the list to its client or to its AbortIO: one place at
\* a time.
LEMMA PlacedStep ==
    ASSUME TypeInv, Marked, Placed, Sorted, [Next]_vars, Regular
    PROVE  Placed'
<1> USE DEF AtWork, TakeUsb, listVars, workerVars, usbVars, clientVars, ghostVars,
            InPlaces, InOnePlace, Hand, Pending, TakenOut
<1> DEFINE U == ToSet(unitPort)
           R == ToSet(readRequests)
           W == ToSet(writeRequests)
<1>0. /\ unitPort \in Seq(Req) /\ readRequests \in Seq(Req) /\ writeRequests \in Seq(Req)
      /\ client \in [Req -> {"idle", "putting", "out"}] /\ cmd \in [Req -> Commands]
      /\ replied \in [Req -> BOOLEAN] /\ quick \in [Req -> BOOLEAN]
      /\ abort \in [Req -> {"none", "search", "waitio", "found", "missing", "done"}]
    BY HeldTypes
\* The requests stay where they are.
<1>1. ASSUME UNCHANGED <<unitPort, readRequests, writeRequests>>, Hand' = Hand,
             \A r \in Req : Pending(r)' = Pending(r) /\ TakenOut(r)' = TakenOut(r)
      PROVE  Placed'
    BY <1>1 DEF Placed
<1>2. ASSUME NEW r \in Req, Client(r)
      PROVE  Placed'
    <2>1. CASE BeginReturn(r)
        BY <1>0, <1>1, <2>1 DEF BeginReturn
    <2>2. CASE Collect(r) \/ (\E c \in Immediate, q \in Quicks, e \in {"ok", "bad"} : BeginImmediate(r, c, q, e))
        <3>1. ~Pending(r) /\ ~Pending(r)'
            BY <1>0, <2>2 DEF Collect, BeginImmediate, Marked
        <3>2. ~TakenOut(r) /\ ~TakenOut(r)' /\ \A s \in Req : s # r => TakenOut(s)' = TakenOut(s)
            BY <1>0, <2>2 DEF Collect, BeginImmediate, Marked
        <3>3. \A s \in Req : s # r => Pending(s)' = Pending(s)
            BY <1>0, <2>2 DEF Collect, BeginImmediate
        <3>4. UNCHANGED <<unitPort, readRequests, writeRequests, pc, io>>
            BY <2>2 DEF Collect, BeginImmediate
        <3> QED
            BY <1>1, <3>1, <3>2, <3>3, <3>4
    <2>3. ASSUME NEW c \in {"read", "write", "params", "other"}, NEW n, NEW q,
                 BeginQueued(r, c, n, q)
          PROVE  Placed'
        <3>1. r \notin U /\ r \notin R /\ r \notin W /\ r \notin Hand
            BY <1>0, <2>3 DEF BeginQueued, Placed
        <3>2. ToSet(unitPort') = U \cup {r} /\ IsInjective(unitPort')
            BY <1>0, <2>3, <3>1, AppendToSet, AppendKeepsInjective DEF BeginQueued, Placed
        <3>3. Pending(r)' /\ (\A s \in Req : s # r => Pending(s)' = Pending(s))
            BY <1>0, <2>3 DEF BeginQueued, Immediate
        <3>4. UNCHANGED <<readRequests, writeRequests, pc, io, abort>> /\ ~TakenOut(r)
            BY <1>0, <2>3 DEF BeginQueued, Marked
        <3> QED
            BY <1>0, <3>1, <3>2, <3>3, <3>4 DEF Placed
    <2> QED
        BY <1>2, <2>1, <2>2, <2>3 DEF Client
<1>3. ASSUME NEW r \in Req, Aborter(r)
      PROVE  Placed'
    <2>0. fault' = "none"
        BY <1>3 DEF Regular
    <2>1. CASE AbortLock(r) \/ AbortWaitIO(r) \/ AbortMissing(r)
        <3>1. /\ UNCHANGED <<unitPort, readRequests, writeRequests, pc, io, client, cmd, replied>>
              /\ TakenOut(r)' = TakenOut(r) /\ \A s \in Req : s # r => abort'[s] = abort[s]
            <4>1. CASE AbortLock(r)
                BY <1>0, <4>1 DEF AbortLock
            <4>2. CASE AbortWaitIO(r)
                <5>1. /\ UNCHANGED <<unitPort, readRequests, writeRequests, pc, io, client, cmd, replied>>
                      /\ abort' = [abort EXCEPT ![r] = "found"] /\ abort[r] = "waitio"
                    BY <4>2 DEF AbortWaitIO
                <5> QED
                    BY <1>0, <5>1
            <4>3. CASE AbortMissing(r)
                BY <1>0, <4>3 DEF AbortMissing
            <4> QED
                BY <2>1, <4>1, <4>2, <4>3
        <3> QED
            BY <1>1, <3>1
    <2>2. CASE AbortRead(r)
        <3>1. r \in R /\ ToSet(readRequests') = R \ {r} /\ IsInjective(readRequests')
            BY <2>2, HeldTypes, ListsShrink DEF AbortRead
        <3>2. /\ UNCHANGED <<unitPort, writeRequests, pc, io, client, cmd, replied>>
              /\ abort' = [abort EXCEPT ![r] = "found"]
            BY <2>2 DEF AbortRead
        <3> QED
            BY <1>0, <3>1, <3>2 DEF Placed
    <2>3. CASE AbortWriteTail(r) \/ AbortWriteListed(r)
        <3>1. r \in W
            <4>1. CASE AbortWriteListed(r)
                BY <4>1, HeldTypes DEF AbortWriteListed
            <4>2. CASE AbortWriteTail(r)
                <5>1. writeRequests # <<>> /\ writeRequests[Len(writeRequests)] = r
                    BY <4>2 DEF AbortWriteTail, Last
                <5>2. Len(writeRequests) \in DOMAIN writeRequests
                    BY <1>0, <5>1
                <5> QED
                    BY <5>1, <5>2 DEF ToSet
            <4> QED
                BY <2>3, <4>1, <4>2
        <3>2. ToSet(writeRequests') = W \ {r} /\ IsInjective(writeRequests')
            BY <2>3, ListsShrink DEF AbortWriteTail, AbortWriteListed
        <3>3. /\ UNCHANGED <<unitPort, readRequests, pc, io, client, cmd, replied>>
              /\ \A s \in Req : s # r => abort'[s] = abort[s]
              /\ TakenOut(r)'
            BY <1>0, <2>3 DEF AbortWriteTail, AbortWriteListed
        <3> QED
            BY <1>0, <3>1, <3>2, <3>3 DEF Placed
    <2>4. CASE AbortReply(r) \/ AbortOther(r)
        <3>1. ~InPlaces(r)
            BY <2>0, <2>4, AbortHarmless DEF AbortReply, AbortOther
        <3>2. /\ UNCHANGED <<unitPort, readRequests, writeRequests, pc, io, client, cmd>>
              /\ replied' = [replied EXCEPT ![r] = TRUE]
              /\ \A s \in Req : s # r => abort'[s] = abort[s]
            BY <1>0, <2>4 DEF AbortReply, AbortOther
        <3> QED
            BY <1>0, <3>1, <3>2 DEF Placed
    <2> QED
        BY <1>3, <2>1, <2>2, <2>3, <2>4 DEF Aborter
<1>4. CASE Host
    BY <1>1, <1>4 DEF Host, UsbReadDone, UsbWriteDone, UsbInterruptDone, StackNotify, Expunge
<1>5. CASE TakeRequest
    <2>1. Head(unitPort) \in U /\ ToSet(unitPort') = U \ {Head(unitPort)} /\ IsInjective(unitPort')
        BY <1>5, ListsShrink DEF TakeRequest
    <2> QED
        BY <1>5, <2>1 DEF TakeRequest, Placed
\* The request in hand goes to its client.
<1>6. ASSUME pc = "dispatch", pc' = "drain", replied' = [replied EXCEPT ![io] = TRUE],
             UNCHANGED <<unitPort, readRequests, writeRequests, client, cmd, abort>>
      PROVE  Placed'
    BY <1>0, <1>6, HandFacts DEF Placed
<1>7. CASE AnswerAtOnce
    BY <1>6, <1>7 DEF AnswerAtOnce
\* The request in hand is listed.
<1>8. ASSUME pc = "dispatch", pc' = "drain",
             \/ readRequests' = Append(readRequests, io) /\ UNCHANGED writeRequests
             \/ writeRequests' = Append(writeRequests, io) /\ UNCHANGED readRequests,
             UNCHANGED <<unitPort, client, cmd, replied, abort>>
      PROVE  Placed'
    <2>1. /\ io \in Req /\ Hand = {io} /\ io \notin U /\ io \notin R /\ io \notin W
          /\ Hand' = {}
        BY <1>8, HandFacts
    <2>2. CASE readRequests' = Append(readRequests, io) /\ UNCHANGED writeRequests
        <3>1. ToSet(readRequests') = R \cup {io} /\ IsInjective(readRequests')
            BY <1>0, <2>1, <2>2, AppendToSet, AppendKeepsInjective DEF Placed
        <3> QED
            BY <1>8, <2>1, <2>2, <3>1 DEF Placed
    <2>3. CASE writeRequests' = Append(writeRequests, io) /\ UNCHANGED readRequests
        <3>1. ToSet(writeRequests') = W \cup {io} /\ IsInjective(writeRequests')
            BY <1>0, <2>1, <2>3, AppendToSet, AppendKeepsInjective DEF Placed
        <3> QED
            BY <1>8, <2>1, <2>3, <3>1 DEF Placed
    <2> QED
        BY <1>8, <2>2, <2>3
<1>9. CASE ReadBuffered
    <2>1. CASE len[io] <= rActual - rOffset
        BY <1>6, <1>9, <2>1 DEF ReadBuffered
    <2>2. CASE ~(len[io] <= rActual - rOffset)
        <3>1. readRequests = <<>> /\ readRequests' = <<io>>
            BY <1>9, <2>2 DEF ReadBuffered
        <3>2. Append(<<>>, io) = <<io>>
            OBVIOUS
        <3> QED
            BY <1>8, <1>9, <2>2, <3>1, <3>2 DEF ReadBuffered
    <2> QED
        BY <2>1, <2>2
<1>10. CASE ReadSubmit
    BY <1>8, <1>10 DEF ReadSubmit
<1>11. CASE WriteAccept
    BY <1>8, <1>11 DEF WriteAccept, ListWrite
<1>12. CASE ReadServe
    <2>1. io \in Req /\ io \in R
        <3>1. pc = "rcopy" /\ io \in Req
            BY <1>12, HeldTypes DEF ReadServe
        <3>2. fault' = "none" => Contains(readRequests, io)
            <4> SUFFICES ASSUME fault' = "none", ~Contains(readRequests, io) PROVE FALSE
                OBVIOUS
            <4>1. act[io] \in Nat
                BY <3>1 DEF TypeInv, TypeOK, RequestsOK
            <4>2. CASE act[io] > 0
                BY <1>12, <4>2 DEF ReadServe
            <4>3. CASE act[io] = 0
                BY <1>12, <4>3 DEF ReadServe
            <4> QED
                BY <4>1, <4>2, <4>3
        <3> QED
            BY <3>1, <3>2, HeldTypes DEF Regular
    <2>2. ToSet(readRequests') = R \ {io} /\ IsInjective(readRequests')
        BY <1>12, ListsShrink DEF ReadServe, ReadsAfter
    <2>3. /\ UNCHANGED <<unitPort, writeRequests, client, cmd, abort>>
          /\ pc = "rcopy" /\ pc' # "dispatch"
          /\ replied' = [replied EXCEPT ![io] = TRUE]
        BY <1>12 DEF ReadServe
    <2> QED
        BY <1>0, <2>1, <2>2, <2>3 DEF Placed
<1>13. CASE WriteReplied
    <2>1. CASE writeRequests = <<>>
        BY <1>1, <1>13, <2>1 DEF WriteReplied
    <2>2. CASE writeRequests # <<>>
        <3> DEFINE h == Head(writeRequests)
        <3>1. h \in Req /\ h \in W /\ ToSet(writeRequests') = W \ {h} /\ IsInjective(writeRequests')
            BY <1>13, <2>2, HeldTypes, ListsShrink DEF WriteReplied
        <3>2. /\ UNCHANGED <<unitPort, readRequests, client, cmd, abort>>
              /\ pc # "dispatch" /\ pc' # "dispatch"
              /\ replied' = [replied EXCEPT ![h] = TRUE]
            BY <1>13, <2>2 DEF WriteReplied
        <3> HIDE DEF h
        <3> QED
            BY <1>0, <3>1, <3>2 DEF Placed
    <2> QED
        BY <2>1, <2>2
<1>14. CASE UseFreedBase \/ UnitPortEmpty \/ WaitSignal \/ UsbPortDone \/ ReadReplied \/ ReadHead
            \/ ReadPart \/ WriteNext \/ WriteSend \/ InterruptReplied \/ TakeNotification \/ LoopEnd
    <2>1. /\ UNCHANGED <<unitPort, readRequests, writeRequests, client, cmd, replied, abort>>
          /\ Hand' = Hand
        BY <1>14 DEF UseFreedBase, UnitPortEmpty, WaitSignal, UsbPortDone, ReadReplied, ReadHead,
           ReadPart, WriteNext, WriteSend, InterruptReplied, TakeNotification, LoopEnd
    <2> QED
        BY <1>1, <2>1
<1>15. CASE UNCHANGED vars
    BY <1>1, <1>15 DEF vars
<1> QED
    BY <1>2, <1>3, <1>4, <1>5, <1>7, <1>9, <1>10, <1>11, <1>12, <1>13, <1>14, <1>15
       DEF Next, Worker, Stopped

\* The request in hand is listed by its command.
LEMMA SortedStep ==
    ASSUME TypeInv, Marked, Placed, Sorted, [Next]_vars
    PROVE  Sorted'
<1> USE DEF AtWork, TakeUsb, listVars, workerVars, usbVars, clientVars, ghostVars, Sorted
<1>0. /\ readRequests \in Seq(Req) /\ writeRequests \in Seq(Req)
      /\ client \in [Req -> {"idle", "putting", "out"}] /\ cmd \in [Req -> Commands]
    BY HeldTypes
\* The lists lose requests or stay, and the requests keep their commands.
<1>1. ASSUME \A r \in Req : r \in ToSet(readRequests') => r \in ToSet(readRequests),
             \A r \in Req : r \in ToSet(writeRequests') => r \in ToSet(writeRequests),
             UNCHANGED cmd
      PROVE  Sorted'
    BY <1>1
<1>2. ASSUME NEW r \in Req, Client(r)
      PROVE  Sorted'
    <2>1. /\ UNCHANGED <<readRequests, writeRequests>>
          /\ \A s \in Req : s # r => cmd'[s] = cmd[s]
        BY <1>0, <1>2 DEF Client, BeginQueued, BeginReturn, BeginImmediate, Collect
    <2>2. CASE BeginReturn(r)
        BY <1>1, <2>2 DEF BeginReturn
    <2>3. CASE ~BeginReturn(r)
        <3>1. ~Pending(r)
            BY <1>0, <1>2, <2>3 DEF Client, BeginQueued, BeginImmediate, Collect, Pending, Marked
        <3>2. r \notin ToSet(readRequests) /\ r \notin ToSet(writeRequests)
            BY <3>1 DEF Placed, InPlaces
        <3> QED
            BY <2>1, <3>2
    <2> QED
        BY <2>2, <2>3
<1>3. ASSUME NEW r \in Req, Aborter(r)
      PROVE  Sorted'
    <2>1. /\ UNCHANGED cmd
          /\ readRequests' \in {readRequests, Without(readRequests, r)}
          /\ writeRequests' \in {writeRequests, Without(writeRequests, r)}
        BY <1>3 DEF Aborter, AbortLock, AbortRead, AbortWriteTail, AbortWaitIO,
           AbortWriteListed, AbortMissing, AbortReply, AbortOther
    <2> QED
        BY <1>1, <2>1, ListsShrink
<1>4. CASE Host
    BY <1>1, <1>4 DEF Host, UsbReadDone, UsbWriteDone, UsbInterruptDone, StackNotify, Expunge
<1>5. CASE ReadSubmit
    <2>1. io \in Req /\ ToSet(readRequests') = ToSet(readRequests) \cup {io}
        BY <1>0, <1>5, HeldTypes, AppendToSet DEF ReadSubmit
    <2> QED
        BY <1>5, <2>1 DEF ReadSubmit
<1>6. CASE ReadBuffered
    <2>1. readRequests' \in {readRequests, <<io>>} /\ UNCHANGED <<writeRequests, cmd>>
          /\ cmd[io] = "read"
        BY <1>6 DEF ReadBuffered
    <2> QED
        BY <2>1, SmallToSet
<1>7. CASE WriteAccept
    <2>1. io \in Req /\ ToSet(writeRequests') = ToSet(writeRequests) \cup {io}
        BY <1>0, <1>7, HeldTypes, AppendToSet DEF WriteAccept, ListWrite
    <2> QED
        BY <1>7, <2>1 DEF WriteAccept
<1>8. CASE ReadServe
    BY <1>1, <1>8, ListsShrink DEF ReadServe, ReadsAfter
<1>9. CASE WriteReplied
    <2>1. CASE writeRequests = <<>>
        BY <1>1, <1>9, <2>1 DEF WriteReplied
    <2>2. CASE writeRequests # <<>>
        BY <1>1, <1>9, <2>2, ListsShrink DEF WriteReplied
    <2> QED
        BY <2>1, <2>2
<1>10. CASE UseFreedBase \/ TakeRequest \/ UnitPortEmpty \/ AnswerAtOnce \/ WaitSignal
           \/ UsbPortDone \/ ReadReplied \/ ReadHead \/ ReadPart \/ WriteNext \/ WriteSend
           \/ InterruptReplied \/ TakeNotification \/ LoopEnd
    BY <1>1, <1>10 DEF UseFreedBase, TakeRequest, UnitPortEmpty, AnswerAtOnce, WaitSignal,
       UsbPortDone, ReadReplied, ReadHead, ReadPart, WriteNext, WriteSend, InterruptReplied,
       TakeNotification, LoopEnd
<1>11. CASE UNCHANGED vars
    BY <1>1, <1>11 DEF vars
<1> QED
    BY <1>2, <1>3, <1>4, <1>5, <1>6, <1>7, <1>8, <1>9, <1>10, <1>11
       DEF Next, Worker, Stopped

\* Also a step that misuses exec brings no request into the driver but the one
\* that BeginIO puts.
LEMMA PlacesFrom ==
    ASSUME TypeInv, Placed, [Next]_vars, NEW r \in Req, InPlaces(r)'
    PROVE  InPlaces(r) \/ (client[r] = "idle" /\ cmd'[r] \notin Immediate)
<1> USE DEF AtWork, TakeUsb, listVars, workerVars, usbVars, clientVars, ghostVars,
            InPlaces, Hand
<1>0. /\ unitPort \in Seq(Req) /\ readRequests \in Seq(Req) /\ writeRequests \in Seq(Req)
      /\ client \in [Req -> {"idle", "putting", "out"}] /\ cmd \in [Req -> Commands]
    BY HeldTypes
<1>1. CASE UNCHANGED <<unitPort, readRequests, writeRequests>> /\ Hand' \subseteq Hand
    BY <1>1
<1>2. ASSUME NEW s \in Req, Client(s)
      PROVE  InPlaces(r) \/ (client[r] = "idle" /\ cmd'[r] \notin Immediate)
    <2>1. ASSUME NEW c \in {"read", "write", "params", "other"}, NEW n, NEW q,
                 BeginQueued(s, c, n, q)
          PROVE  InPlaces(r) \/ (client[r] = "idle" /\ cmd'[r] \notin Immediate)
        <3>1. ToSet(unitPort') = ToSet(unitPort) \cup {s}
            BY <1>0, <2>1, AppendToSet DEF BeginQueued
        <3> QED
            BY <1>0, <2>1, <3>1 DEF BeginQueued, Immediate
    <2>2. CASE BeginReturn(s) \/ Collect(s)
               \/ (\E c \in Immediate, q \in Quicks, e \in {"ok", "bad"} : BeginImmediate(s, c, q, e))
        BY <1>1, <2>2 DEF BeginReturn, Collect, BeginImmediate
    <2> QED
        BY <1>2, <2>1, <2>2 DEF Client
<1>3. ASSUME NEW s \in Req, Aborter(s)
      PROVE  InPlaces(r)
    <2>1. /\ UNCHANGED <<unitPort, pc, io>>
          /\ readRequests' \in {readRequests, Without(readRequests, s)}
          /\ writeRequests' \in {writeRequests, Without(writeRequests, s)}
        BY <1>3 DEF Aborter, AbortLock, AbortRead, AbortWriteTail, AbortWaitIO,
           AbortWriteListed, AbortMissing, AbortReply, AbortOther
    <2> QED
        BY <2>1, ListsShrink
<1>4. CASE Host
    BY <1>1, <1>4 DEF Host, UsbReadDone, UsbWriteDone, UsbInterruptDone, StackNotify, Expunge
<1>5. CASE TakeRequest
    BY <1>5, ListsShrink DEF TakeRequest
<1>6. CASE ReadBuffered \/ ReadSubmit \/ WriteAccept
    <2>1. io \in Req /\ Hand = {io} /\ Hand' = {} /\ UNCHANGED unitPort
        BY <1>6, HeldTypes DEF ReadBuffered, ReadSubmit, WriteAccept
    <2>2. /\ readRequests' \in {readRequests, <<io>>, Append(readRequests, io)}
          /\ writeRequests' \in {writeRequests, Append(writeRequests, io)}
        BY <1>6 DEF ReadBuffered, ReadSubmit, WriteAccept, ListWrite
    <2>3. /\ ToSet(<<io>>) = {io}
          /\ ToSet(Append(readRequests, io)) = ToSet(readRequests) \cup {io}
          /\ ToSet(Append(writeRequests, io)) = ToSet(writeRequests) \cup {io}
        BY <1>0, <2>1, SmallToSet, AppendToSet
    <2> QED
        BY <2>1, <2>2, <2>3
<1>7. CASE ReadServe
    BY <1>7, ListsShrink DEF ReadServe, ReadsAfter
<1>8. CASE WriteReplied
    <2>1. CASE writeRequests = <<>>
        BY <1>1, <1>8, <2>1 DEF WriteReplied
    <2>2. CASE writeRequests # <<>>
        BY <1>8, <2>2, ListsShrink DEF WriteReplied
    <2> QED
        BY <2>1, <2>2
<1>9. CASE UseFreedBase \/ UnitPortEmpty \/ AnswerAtOnce \/ WaitSignal
           \/ UsbPortDone \/ ReadReplied \/ ReadHead \/ ReadPart \/ WriteNext \/ WriteSend
           \/ InterruptReplied \/ TakeNotification \/ LoopEnd
    BY <1>1, <1>9 DEF UseFreedBase, UnitPortEmpty, AnswerAtOnce, WaitSignal,
       UsbPortDone, ReadReplied, ReadHead, ReadPart, WriteNext, WriteSend, InterruptReplied,
       TakeNotification, LoopEnd
<1>10. CASE UNCHANGED vars
    BY <1>1, <1>10 DEF vars
<1> QED
    BY <1>2, <1>3, <1>4, <1>5, <1>6, <1>7, <1>8, <1>9, <1>10
       DEF Next, Worker, Stopped

LEMMA MarkedStep ==
    ASSUME HeldInv, [Next]_vars
    PROVE  Marked'
<1> USE DEF AtWork, TakeUsb, listVars, workerVars, usbVars, clientVars, ghostVars
<1>0. /\ TypeInv /\ Marked
      /\ client \in [Req -> {"idle", "putting", "out"}] /\ cmd \in [Req -> Commands]
      /\ quick \in [Req -> BOOLEAN]
      /\ abort \in [Req -> {"none", "search", "waitio", "found", "missing", "done"}]
    BY HeldTypes DEF HeldInv
<1>1. CASE fault # "none"
    <2>1. UNCHANGED vars
        BY <1>1, FaultStops
    <2> QED
        BY <1>0, <2>1 DEF vars, Marked, InPlaces, Hand
<1>2. CASE fault = "none"
    <2>0. Placed
        BY <1>2 DEF HeldInv
    \* The clients' side of their requests stays, or that of one of them changes.
    <2>1. CASE UNCHANGED <<client, cmd, quick, abort>>
        <3>1. \A r \in Req : InPlaces(r)' => cmd'[r] \notin Immediate
            BY <1>0, <2>0, <2>1, PlacesFrom DEF Marked
        <3> QED
            BY <1>0, <2>1, <3>1 DEF Marked
    <2>2. ASSUME NEW r \in Req, Client(r)
          PROVE  Marked'
        <3>1. \A s \in Req : s # r =>
                 client'[s] = client[s] /\ cmd'[s] = cmd[s] /\ quick'[s] = quick[s]
                 /\ abort'[s] = abort[s]
            BY <1>0, <2>2 DEF Client, BeginQueued, BeginReturn, BeginImmediate, Collect
        <3>2. /\ client'[r] = "out" /\ quick'[r] => cmd'[r] \in Immediate
              /\ abort'[r] # "none" => client'[r] = "out"
              /\ abort'[r] \in {"search", "waitio", "found", "missing"} =>
                    cmd'[r] = cmd[r] /\ abort'[r] = abort[r]
            <4>1. CASE BeginReturn(r)
                BY <1>0, <4>1 DEF BeginReturn, Marked
            <4>2. CASE Collect(r)
                BY <1>0, <4>2 DEF Collect
            <4>3. CASE client[r] = "idle" /\ UNCHANGED abort
                <5>1. abort[r] = "none"
                    BY <1>0, <4>3 DEF Marked
                <5>2. client'[r] = "out" => cmd'[r] \in Immediate
                    BY <1>0, <2>2, <4>3 DEF Client, BeginQueued, BeginReturn, BeginImmediate, Collect
                <5> QED
                    BY <4>3, <5>1, <5>2
            <4> QED
                BY <2>2, <4>1, <4>2, <4>3 DEF Client, BeginQueued, BeginImmediate
        <3>3. cmd'[r] = cmd[r] \/ cmd'[r] \notin Immediate \/ client[r] = "idle"
            BY <1>0, <2>2 DEF Client, BeginQueued, BeginReturn, BeginImmediate, Collect,
               Immediate
        <3>4. client[r] = "idle" => ~InPlaces(r)
            BY <2>0 DEF Placed, Pending
        <3>5. \A s \in Req : InPlaces(s)' => cmd'[s] \notin Immediate
            BY <1>0, <2>0, <3>1, <3>3, <3>4, PlacesFrom DEF Marked
        <3> QED
            BY <1>0, <3>1, <3>2, <3>5 DEF Marked
    <2>3. ASSUME NEW r \in Req, Aborter(r)
          PROVE  Marked'
        <3>1. /\ UNCHANGED <<client, cmd, quick>>
              /\ \A s \in Req : s # r => abort'[s] = abort[s]
              /\ client[r] = "out"
              /\ abort'[r] = "done" \/ cmd[r] \in Reads \cup Writes
            BY <1>0, <2>3 DEF Aborter, AbortLock, AbortRead, AbortWriteTail, AbortWaitIO,
               AbortWriteListed, AbortMissing, AbortReply, AbortOther, Marked
        <3>2. \A s \in Req : InPlaces(s)' => cmd'[s] \notin Immediate
            <4> SUFFICES ASSUME NEW s \in Req, InPlaces(s)'
                         PROVE  cmd'[s] \notin Immediate
                OBVIOUS
            <4>1. InPlaces(s) \/ (client[s] = "idle" /\ cmd'[s] \notin Immediate)
                BY <1>0, <2>0, PlacesFrom
            <4> QED
                BY <1>0, <3>1, <4>1 DEF Marked
        <3> QED
            BY <1>0, <3>1, <3>2 DEF Marked
    <2>4. CASE Host
        BY <2>1, <2>4 DEF Host, UsbReadDone, UsbWriteDone, UsbInterruptDone, StackNotify, Expunge
    <2>5. CASE Worker
        BY <2>1, <2>5 DEF Worker, UseFreedBase, TakeRequest, UnitPortEmpty, ReadBuffered,
           ReadSubmit, WriteAccept, AnswerAtOnce, WaitSignal, UsbPortDone, ReadReplied,
           ReadHead, ReadServe, ReadPart, WriteReplied, WriteNext, WriteSend, InterruptReplied,
           TakeNotification, LoopEnd
    <2>6. CASE UNCHANGED vars
        BY <2>1, <2>6 DEF vars
    <2> QED
        BY <2>2, <2>3, <2>4, <2>5, <2>6 DEF Next, Stopped
<1> QED
    BY <1>1, <1>2

LEMMA HeldStep ==
    ASSUME HeldInv, [Next]_vars
    PROVE  HeldInv'
<1>1. TypeInv' /\ Marked'
    BY TypeStep, MarkedStep DEF HeldInv
<1>2. ASSUME fault' = "none"
      PROVE  Placed' /\ Sorted'
    <2>1. fault = "none"
        BY <1>2, FaultStops DEF vars
    <2> QED
        BY <1>2, <2>1, PlacedStep, SortedStep DEF HeldInv, Regular
<1> QED
    BY <1>1, <1>2 DEF HeldInv

LEMMA PlacedInit ==
    ASSUME Init
    PROVE  Marked /\ Placed /\ Sorted
<1>1. /\ unitPort = <<>> /\ readRequests = <<>> /\ writeRequests = <<>> /\ pc = "drain"
      /\ \A r \in Req : client[r] = "idle" /\ abort[r] = "none"
    BY DEF Init
<1>2. \A r : ~InPlaces(r)
    BY <1>1, SmallToSet DEF InPlaces, Hand
<1> QED
    BY <1>1, <1>2, SmallToSet DEF Marked, Placed, Sorted, Pending, InPlaces, InOnePlace

LEMMA HeldAlways == Spec => []HeldInv
<1>1. Init => HeldInv
    BY TypeInit, PlacedInit DEF HeldInv
<1>2. HeldInv /\ [Next]_vars => HeldInv'
    BY HeldStep
<1> QED
    BY <1>1, <1>2, PTL DEF Spec

\* From PutMsg to ReplyMsg a request lies in exactly one place of the driver:
\* none is lost and none is in two lists, until its AbortIO takes it out.
THEOREM CustodyKept == Spec => []Custody
<1>1. HeldInv => Custody
    <2> SUFFICES ASSUME TypeInv, Placed, NEW r \in Req
                 PROVE  Cardinality(Custodians(r)) =
                           IF /\ client[r] # "idle" /\ ~replied[r] /\ cmd[r] \notin Immediate
                              /\ abort[r] \notin {"waitio", "found"}
                             THEN 1 ELSE 0
        BY DEF Custody, HeldInv
    <2> DEFINE U == At("port", unitPort, r)
               R == At("read", readRequests, r)
               W == At("write", writeRequests, r)
               H == {<<"hand", 0>> : h \in {p \in {pc} : p = "dispatch" /\ io = r}}
    <2>1. /\ unitPort \in Seq(Req) /\ readRequests \in Seq(Req) /\ writeRequests \in Seq(Req)
          /\ IsInjective(unitPort) /\ IsInjective(readRequests) /\ IsInjective(writeRequests)
          /\ InPlaces(r) <=> Pending(r) /\ ~TakenOut(r)
          /\ InOnePlace(r)
        BY HeldTypes DEF Placed
    <2>2. IF r \in ToSet(unitPort) THEN \E p : U = {p} ELSE U = {}
        BY <2>1, OneIndex
    <2>3. IF r \in ToSet(readRequests) THEN \E p : R = {p} ELSE R = {}
        BY <2>1, OneIndex
    <2>4. IF r \in ToSet(writeRequests) THEN \E p : W = {p} ELSE W = {}
        BY <2>1, OneIndex
    <2>5. IF r \in Hand THEN H = {<<"hand", 0>>} ELSE H = {}
        BY DEF Hand
    <2>6. Custodians(r) = U \cup R \cup W \cup H
        BY DEF Custodians, At
    <2> HIDE DEF U, R, W, H
    <2>7. IF InPlaces(r) THEN \E p : Custodians(r) = {p} ELSE Custodians(r) = {}
        <3>1. CASE r \in ToSet(unitPort)
            BY <2>1, <2>2, <2>3, <2>4, <2>5, <2>6, <3>1 DEF InPlaces, InOnePlace
        <3>2. CASE r \in ToSet(readRequests)
            BY <2>1, <2>2, <2>3, <2>4, <2>5, <2>6, <3>2 DEF InPlaces, InOnePlace
        <3>3. CASE r \in ToSet(writeRequests)
            BY <2>1, <2>2, <2>3, <2>4, <2>5, <2>6, <3>3 DEF InPlaces, InOnePlace
        <3>4. CASE r \in Hand
            BY <2>1, <2>2, <2>3, <2>4, <2>5, <2>6, <3>4 DEF InPlaces, InOnePlace
        <3>5. CASE ~InPlaces(r)
            BY <2>2, <2>3, <2>4, <2>5, <2>6, <3>5 DEF InPlaces
        <3> QED
            BY <3>1, <3>2, <3>3, <3>4, <3>5 DEF InPlaces
    <2>8. IF InPlaces(r) THEN Cardinality(Custodians(r)) = 1 ELSE Cardinality(Custodians(r)) = 0
        BY <2>7, FS_Singleton, FS_EmptySet
    <2> QED
        BY <2>1, <2>8 DEF Pending, TakenOut
<1> QED
    BY <1>1, HeldAlways, PTL

\* DoIO may rely on IOF_QUICK: when BeginIO leaves it set, the request is in no
\* list and not in the worker's hand, not even after a misuse.
THEOREM QuickIsDone == Spec => []QuickMeansDone
<1>1. HeldInv => QuickMeansDone
    <2> SUFFICES ASSUME HeldInv, NEW r \in Req, client[r] = "out", quick[r]
                 PROVE  ~Linked(r) /\ ~(pc = "dispatch" /\ io = r)
        BY DEF QuickMeansDone
    <2>1. ~InPlaces(r)
        BY DEF HeldInv, Marked
    <2> QED
        BY <2>1, HeldTypes DEF HeldInv, InPlaces, Hand, Linked
<1> QED
    BY <1>1, HeldAlways, PTL

-----------------------------------------------------------------------------
(***************************************************************************)
(* Answers.                                                                *)
(***************************************************************************)

\* Unless the step is a misuse, the worker writes into pending requests only and
\* AbortIO answers none that is answered: a result stays until the client takes
\* it back.
THEOREM AnswersFinal == Spec => ReplyIsFinal
<1> USE DEF AtWork, TakeUsb, listVars, workerVars, usbVars, clientVars, ghostVars
<1>1. ASSUME HeldInv, [Next]_vars, fault' = "none", NEW r \in Req,
             replied[r], client[r] # "idle", client'[r] # "idle"
      PROVE  act'[r] = act[r] /\ err'[r] = err[r] /\ replied'[r]
    <2> DEFINE Goal == act'[r] = act[r] /\ err'[r] = err[r] /\ replied'[r]
    <2>0. /\ TypeInv /\ Placed /\ ~InPlaces(r)
          /\ act \in [Req -> Nat] /\ err \in [Req -> Errors] /\ replied \in [Req -> BOOLEAN]
          /\ unitPort \in Seq(Req) /\ client \in [Req -> {"idle", "putting", "out"}]
        <3>1. fault = "none"
            BY <1>1, FaultStops DEF vars
        <3> QED
            BY <1>1, <3>1 DEF HeldInv, Placed, Pending, TypeInv, TypeOK, RequestsOK, PortsOK
    <2>1. CASE UNCHANGED <<act, err, replied>>
        BY <1>1, <2>0, <2>1
    <2>2. act' \in [Req -> Nat] /\ err' \in [Req -> Errors] /\ replied' \in [Req -> BOOLEAN]
        BY <1>1, <2>0, TypeStep DEF TypeInv, TypeOK, RequestsOK
    \* Only the fields of a request s other than r change.
    <2>3. ASSUME NEW s \in Req, s # r,
                 \A t \in Req : t # s => act'[t] = act[t] /\ err'[t] = err[t]
                                         /\ replied'[t] = replied[t]
          PROVE  Goal
        BY <1>1, <2>0, <2>2, <2>3
    <2>4. ASSUME NEW s \in Req, Client(s)
          PROVE  Goal
        BY <1>1, <2>0, <2>4 DEF Client, BeginQueued, BeginReturn, BeginImmediate, Collect
    <2>5. ASSUME NEW s \in Req, Aborter(s)
          PROVE  Goal
        <3>1. CASE AbortReply(s) \/ AbortOther(s)
            <4>1. AbortFault(s) = "none"
                BY <1>1, <3>1 DEF AbortReply, AbortOther
            <4>2. s # r
                BY <1>1, <2>0, <4>1, AbortHarmless
            <4>3. \A t \in Req : t # s => act'[t] = act[t] /\ err'[t] = err[t]
                                          /\ replied'[t] = replied[t]
                BY <2>0, <3>1 DEF AbortReply, AbortOther
            <4> QED
                BY <2>3, <4>2, <4>3
        <3>2. CASE ~(AbortReply(s) \/ AbortOther(s))
            <4>1. UNCHANGED <<act, err, replied>>
                BY <2>5, <3>2 DEF Aborter, AbortLock, AbortRead, AbortWriteTail, AbortWaitIO,
                   AbortWriteListed, AbortMissing
            <4> QED
                BY <2>1, <4>1
        <3> QED
            BY <3>1, <3>2
    <2>6. CASE ReadBuffered \/ AnswerAtOnce
        <3>1. io \in Req /\ io # r
            BY <2>0, <2>6, HandFacts DEF ReadBuffered, AnswerAtOnce
        <3> QED
            BY <2>0, <2>2, <2>3, <2>6, <3>1 DEF ReadBuffered, AnswerAtOnce
    <2>7. CASE ReadServe
        <3>1. io \in Req /\ pc = "rcopy"
            BY <2>0, <2>7, HeldTypes DEF ReadServe
        <3>2. Contains(readRequests, io)
            <4> SUFFICES ASSUME ~Contains(readRequests, io) PROVE FALSE
                OBVIOUS
            <4>1. act[io] \in Nat
                BY <2>0, <3>1
            <4>2. CASE act[io] > 0
                BY <1>1, <2>7, <4>2 DEF ReadServe
            <4>3. CASE act[io] = 0
                BY <1>1, <2>7, <4>3 DEF ReadServe
            <4> QED
                BY <4>1, <4>2, <4>3
        <3>3. io # r
            BY <2>0, <3>1, <3>2, HeldTypes DEF InPlaces
        <3>4. \A t \in Req : t # io => act'[t] = act[t] /\ err'[t] = err[t]
                                       /\ replied'[t] = replied[t]
            BY <2>0, <2>7 DEF ReadServe
        <3> QED
            BY <2>3, <3>1, <3>3, <3>4
    <2>8. CASE ReadPart
        <3>1. io \in Req /\ Contains(readRequests, io)
            BY <1>1, <2>0, <2>8, HeldTypes DEF ReadPart
        <3>2. io # r
            BY <2>0, <3>1, HeldTypes DEF InPlaces
        <3>3. \A t \in Req : t # io => act'[t] = act[t] /\ err'[t] = err[t]
                                       /\ replied'[t] = replied[t]
            BY <2>0, <2>8 DEF ReadPart
        <3> QED
            BY <2>3, <3>1, <3>2, <3>3
    <2>9. CASE WriteReplied
        <3>1. CASE writeRequests = <<>>
            BY <1>1, <2>9, <3>1 DEF WriteReplied
        <3>2. CASE writeRequests # <<>>
            <4>1. Head(writeRequests) \in Req /\ Head(writeRequests) # r
                BY <2>0, <3>2, HeldTypes, ListsShrink DEF InPlaces
            <4> QED
                BY <2>0, <2>3, <2>9, <3>2, <4>1 DEF WriteReplied
        <3> QED
            BY <3>1, <3>2
    <2>10. CASE TakeRequest
        <3>1. Head(unitPort) \in Req /\ Head(unitPort) # r
            BY <2>0, <2>10, HeldTypes, ListsShrink DEF TakeRequest, InPlaces
        <3> QED
            BY <2>0, <2>3, <2>10, <3>1 DEF TakeRequest
    <2>11. CASE Host
        BY <2>1, <2>11
           DEF Host, UsbReadDone, UsbWriteDone, UsbInterruptDone, StackNotify, Expunge
    <2>12. CASE UseFreedBase \/ UnitPortEmpty \/ ReadSubmit \/ WriteAccept \/ WaitSignal
                \/ UsbPortDone \/ ReadReplied \/ ReadHead \/ WriteNext \/ WriteSend \/ InterruptReplied
                \/ TakeNotification \/ LoopEnd
        BY <2>1, <2>12 DEF UseFreedBase, UnitPortEmpty, ReadSubmit, WriteAccept, WaitSignal,
           UsbPortDone, ReadReplied, ReadHead, WriteNext, WriteSend, InterruptReplied, TakeNotification,
           LoopEnd
    <2>13. CASE UNCHANGED vars
        BY <2>1, <2>13 DEF vars
    <2> QED
        BY <1>1, <2>4, <2>5, <2>6, <2>7, <2>8, <2>9, <2>10, <2>11, <2>12, <2>13
           DEF Next, Worker, Stopped
<1>2. HeldInv /\ [Next]_vars =>
         [fault' = "none" =>
             \A r \in Req : replied[r] /\ client[r] # "idle" /\ client'[r] # "idle" =>
                 act'[r] = act[r] /\ err'[r] = err[r] /\ replied'[r]]_vars
    BY <1>1
<1> QED
    BY <1>2, HeldAlways, PTL DEF Spec, ReplyIsFinal

\* There is no safe moment for AbortIO but one: a call that ends without misuse has
\* found its read or write in a list, or was made for a request that BeginIO has
\* finished with IOF_QUICK and nobody has replied.  A request in the unit port, in the
\* worker's hand or answered is replied all the same, and that is a misuse.
THEOREM AbortsHarmlessly == Spec => HarmlessAbort
<1>1. ASSUME HeldInv, [Next]_vars, fault' = "none", NEW r \in Req,
             abort[r] # "done", abort'[r] = "done"
      PROVE  abort[r] = "found" \/ (cmd[r] \in Immediate /\ ~replied[r])
    <2>0. /\ TypeInv /\ Marked /\ Placed
          /\ abort \in [Req -> {"none", "search", "waitio", "found", "missing", "done"}]
        <3>1. fault = "none"
            BY <1>1, FaultStops DEF vars
        <3> QED
            BY <1>1, <3>1, HeldTypes DEF HeldInv
    <2>1. AbortReply(r) \/ AbortOther(r)
        <3> USE DEF listVars, workerVars, usbVars, clientVars, ghostVars
        <3>1. ASSUME NEW s \in Req, Client(s)
              PROVE  FALSE
            BY <1>1, <2>0, <3>1 DEF Client, BeginQueued, BeginReturn, BeginImmediate, Collect
        <3>2. ~Host /\ ~UNCHANGED vars
            BY <1>1 DEF Host, UsbReadDone, UsbWriteDone, UsbInterruptDone, StackNotify,
               Expunge, vars
        <3>3. ~Worker
            BY <1>1 DEF Worker, UseFreedBase, TakeRequest, UnitPortEmpty, ReadBuffered,
               ReadSubmit, WriteAccept, AnswerAtOnce, WaitSignal, UsbPortDone, ReadReplied,
               ReadHead, ReadServe, ReadPart, WriteReplied, WriteNext, WriteSend,
               InterruptReplied, TakeNotification, LoopEnd
        <3>4. ASSUME NEW s \in Req, Aborter(s)
              PROVE  AbortReply(r) \/ AbortOther(r)
            BY <1>1, <2>0, <3>4 DEF Aborter, AbortLock, AbortRead, AbortWriteTail, AbortWaitIO,
               AbortWriteListed, AbortMissing, AbortReply, AbortOther
        <3> QED
            BY <1>1, <3>1, <3>2, <3>3, <3>4 DEF Next, Stopped
    <2>2. AbortFault(r) = "none" /\ abort[r] \in {"none", "found", "missing"}
          /\ (abort[r] = "none" => client[r] = "out")
        BY <1>1, <2>1 DEF AbortReply, AbortOther
    <2>3. ~replied[r] /\ ~InPlaces(r)
        BY <2>0, <2>2, AbortHarmless
    <2>4. client[r] = "out"
        BY <2>0, <2>2 DEF Marked
    <2> QED
        BY <2>0, <2>2, <2>3, <2>4 DEF Placed, Pending, TakenOut
<1>2. HeldInv /\ [Next]_vars =>
         [fault' = "none" =>
             \A r \in Req : abort[r] # "done" /\ abort'[r] = "done" =>
                 abort[r] = "found" \/ (cmd[r] \in Immediate /\ ~replied[r])]_vars
    BY <1>1
<1> QED
    BY <1>2, HeldAlways, PTL DEF Spec, HarmlessAbort
=============================================================================
