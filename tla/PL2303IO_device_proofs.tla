------------------------ MODULE PL2303IO_device_proofs ------------------------
(***************************************************************************)
(* Used within its limits, and for the commands that go to the worker, the *)
(* I/O path implements SerialDevice.  The abstract queue of writes is the  *)
(* ghost "accepted"; OrderInv says that it is the writes that lie unsent   *)
(* in the list, the worker's hand and the unit port, in that order.        *)
(***************************************************************************)
EXTENDS PL2303IO_use_proofs

QueuedOnly == WithinLimits /\ "immediate" \notin Submits

\* A request that has not been sent has no transfer behind it.
Fresh == \A r \in Req : client[r] = "idle" \/ Unsent(r) => xfer[r] = "none"
\* Every request went to the worker.
NoneImmediate == \A r \in Req : cmd[r] \notin Immediate

PromiseInv ==
    /\ UseInv /\ OrderInv /\ Carried /\ ReplyReflectsTransfer
    /\ Fresh /\ NoneImmediate

\* What the mapping needs to know in one place.
LEMMA PromiseFacts ==
    ASSUME QueuedOnly, PromiseInv
    PROVE  /\ UseInv /\ WithinLimits /\ Abortable = {} /\ (\A r \in Req : ~Aborter(r))
           /\ WriteInv /\ TypeInv /\ Placed /\ Sorted /\ fault = "none"
           /\ client \in [Req -> {"idle", "putting", "out"}] /\ cmd \in [Req -> Commands]
           /\ replied \in [Req -> BOOLEAN] /\ err \in [Req -> Errors]
           /\ len \in [Req -> Nat] /\ accepted \in Seq(Req) /\ IsInjective(accepted)
           /\ xfer \in [Req -> {"none", "flight", "ok", "failed"}]
           /\ usb \in [Transfers -> {"idle", "flight", "replied"}]
           /\ "R" \in Transfers /\ "W" \in Transfers /\ "I" \in Transfers
           /\ rOffset \in Nat /\ rActual \in Nat /\ rOffset <= rActual /\ werr \in {"ok", "usb"}
           /\ \A r \in Req : cmd[r] \notin Immediate
           /\ usb["W"] # "idle" =>
                 wio \in Req /\ Pending(wio) /\ cmd[wio] = "write"
                 /\ writeRequests # <<>> /\ Head(writeRequests) = wio
           /\ usb["R"] = "flight" => rActual = 0
           /\ \A r \in Req : Free # r
<1>1. /\ OrderInv /\ WithinLimits /\ UseInv /\ NoneImmediate /\ Abortable = {}
      /\ TypeInv /\ Sorted /\ WriteInv /\ fault = "none" /\ Placed
    BY UseFacts DEF PromiseInv, QueuedOnly, WithinLimits
<1>2. usb["W"] # "idle" =>
         wio \in Req /\ Pending(wio) /\ cmd[wio] = "write"
         /\ writeRequests # <<>> /\ Head(writeRequests) = wio
    BY <1>1, OrderFacts, UseFacts DEF InPlaces, Sorted
<1>3. /\ err \in [Req -> Errors] /\ len \in [Req -> Nat]
      /\ xfer \in [Req -> {"none", "flight", "ok", "failed"}]
      /\ rOffset \in Nat /\ rActual \in Nat /\ werr \in {"ok", "usb"}
      /\ rOffset <= rActual /\ (usb["R"] = "flight" => rActual = 0)
    BY <1>1 DEF TypeInv, TypeOK, RequestsOK, TransfersOK, GhostsOK, BufferBounds
<1> QED
    BY <1>1, <1>2, <1>3, OrderFacts, FreeAssumption DEF NoneImmediate

-----------------------------------------------------------------------------
\* What clients and worker keep to besides OrderInv.
LEMMA PromiseStep ==
    ASSUME QueuedOnly, PromiseInv, [Next]_vars
    PROVE  PromiseInv'
<1> USE DEF AtWork, TakeUsb, listVars, workerVars, usbVars, clientVars, ghostVars
<1>0. /\ WithinLimits /\ Abortable = {} /\ OrderInv /\ Fresh /\ NoneImmediate /\ UseInv
      /\ WriteInv /\ TypeInv /\ Placed /\ Carried /\ ReplyReflectsTransfer
    BY PromiseFacts DEF PromiseInv
<1>1. UseInv' /\ OrderInv'
    BY <1>0, UseStep, WriteStep, OrderStep DEF OrderInv
<1>2. Carried' /\ ReplyReflectsTransfer'
    BY <1>0, AnswerStep DEF AnswerInv
<1>3. NoneImmediate'
    <2>1. ASSUME NEW r \in Req, Client(r)
          PROVE  NoneImmediate'
        <3>1. ~(\E c \in Immediate, q \in Quicks, e \in {"ok", "bad"} : BeginImmediate(r, c, q, e))
            BY DEF BeginImmediate, QueuedOnly
        <3>2. \/ cmd' = cmd
              \/ \E c \in {"read", "write", "params", "other"} : cmd' = [cmd EXCEPT ![r] = c]
            BY <2>1, <3>1 DEF Client, BeginQueued, BeginReturn, Collect
        <3> QED
            BY <1>0, <3>2, PromiseFacts DEF NoneImmediate, Immediate
    <2>2. CASE Worker
        BY <1>0, <2>2 DEF Worker, UseFreedBase, TakeRequest, UnitPortEmpty, ReadBuffered,
           ReadSubmit, WriteAccept, AnswerAtOnce, WaitSignal, UsbPortDone, ReadReplied,
           ReadHead, ReadServe, ReadPart, WriteReplied, WriteNext, WriteSend, InterruptReplied,
           TakeNotification, LoopEnd, NoneImmediate
    <2>3. CASE Host \/ UNCHANGED vars
        BY <1>0, <2>3 DEF Host, UsbReadDone, UsbWriteDone, UsbInterruptDone, StackNotify,
           Expunge, vars, NoneImmediate
    <2> QED
        BY <2>1, <2>2, <2>3, PromiseFacts DEF Next, Stopped
<1>4. Fresh'
    <2> USE DEF Fresh, Unsent, Carries, Pending
    <2>0. Fresh
        BY <1>0
    <2>1. CASE UNCHANGED <<client, cmd, replied, xfer, wio>> /\ usb'["W"] = usb["W"]
        BY <2>0, <2>1
    <2>2. ASSUME NEW r \in Req, Client(r)
          PROVE  Fresh'
        <3>1. /\ UNCHANGED <<usb, wio>>
              /\ \A s \in Req : s # r => /\ client'[s] = client[s] /\ cmd'[s] = cmd[s]
                                         /\ replied'[s] = replied[s] /\ xfer'[s] = xfer[s]
              /\ xfer'[r] = "none" \/ BeginReturn(r)
            BY <2>0, <2>2, PromiseFacts
               DEF QueuedOnly, Client, BeginQueued, BeginReturn, BeginImmediate, Collect
        <3>2. CASE BeginReturn(r)
            BY <2>0, <3>2, PromiseFacts DEF BeginReturn
        <3> QED
            BY <2>0, <3>1, <3>2
    <2>3. ASSUME NEW e \in {"ok", "usb"}, UsbWriteDone(e)
          PROVE  Fresh'
        BY <2>0, <2>3, PromiseFacts DEF UsbWriteDone
    <2>4. CASE UsbInterruptDone \/ Expunge \/ (\E n \in 0..MaxPacket : UsbReadDone(n))
               \/ (\E n \in Notes : StackNotify(n))
        BY <2>1, <2>4, PromiseFacts DEF UsbReadDone, UsbInterruptDone, StackNotify, Expunge
    <2>5. ASSUME NEW r \in Req, Pending(r), SendWrite(r), usb["W"] = "idle",
                 UNCHANGED <<client, cmd, replied>>
          PROVE  Fresh'
        BY <2>0, <2>5, PromiseFacts DEF SendWrite
    <2>6. CASE WriteAccept
        <3>1. io \in Req /\ Pending(io) /\ (writeRequests = <<>> => usb["W"] = "idle")
            BY <1>0, <2>6, HandFacts DEF WriteAccept, WriteInv, WriteOwnership
        <3> QED
            BY <2>1, <2>5, <2>6, <3>1 DEF WriteAccept, NoWriteListed
    <2>7. CASE WriteSend
        <3>1. io \in Req /\ Pending(io) /\ usb["W"] = "idle"
            BY <1>0, <2>7, UseFacts DEF WriteSend, InPlaces, WriteInv, Handled, SendReady
        <3> QED
            BY <2>5, <2>7, <3>1 DEF WriteSend
    <2>8. CASE WriteReplied
        <3>1. usb["W"] = "replied"
            BY <1>0, <2>8, UseFacts DEF WriteReplied
        <3>2. /\ wio \in Req /\ replied' = [replied EXCEPT ![wio] = TRUE]
              /\ UNCHANGED <<client, cmd, xfer, wio>>
            BY <2>8, <3>1, PromiseFacts DEF WriteReplied
        <3> QED
            BY <2>0, <3>1, <3>2, PromiseFacts
    <2>9. CASE AnswerAtOnce \/ ReadBuffered \/ ReadServe
        <3>1. /\ UNCHANGED <<client, cmd, xfer, wio>> /\ usb'["W"] = usb["W"]
              /\ replied' = replied \/ replied' = [replied EXCEPT ![io] = TRUE]
            BY <2>9, PromiseFacts DEF AnswerAtOnce, ReadBuffered, ReadServe, RequestInput
        <3>2. \A r \in Req : ~replied'[r] => ~replied[r]
            BY <3>1, PromiseFacts
        <3>3. \A r \in Req : Unsent(r)' => Unsent(r)
            BY <3>1, <3>2
        <3> HIDE DEF Unsent
        <3> QED
            BY <2>0, <3>1, <3>3
    <2>10. CASE ReadSubmit \/ ReadPart \/ ReadReplied \/ InterruptReplied
        <3>1. UNCHANGED <<client, cmd, replied, xfer, wio>>
            BY <2>10 DEF ReadSubmit, ReadPart, ReadReplied, InterruptReplied
        <3>2. usb' = usb \/ \E x \in {"R", "I"}, y \in {"flight", "idle"} : usb' = [usb EXCEPT ![x] = y]
            BY <2>10 DEF ReadSubmit, ReadPart, ReadReplied, InterruptReplied, RequestInput
        <3>3. usb'["W"] = usb["W"]
            BY <3>2, PromiseFacts
        <3> QED
            BY <2>1, <3>1, <3>3
    <2>11. CASE UseFreedBase \/ TakeRequest \/ UnitPortEmpty \/ WaitSignal \/ UsbPortDone
                \/ ReadHead \/ WriteNext \/ TakeNotification \/ LoopEnd
        BY <2>1, <2>11 DEF UseFreedBase, TakeRequest, UnitPortEmpty, WaitSignal, UsbPortDone,
           ReadHead, WriteNext, TakeNotification, LoopEnd
    <2>12. CASE UNCHANGED vars
        BY <2>1, <2>12 DEF vars
    <2> QED
        BY <2>2, <2>3, <2>4, <2>6, <2>7, <2>8, <2>9, <2>10, <2>11, <2>12, PromiseFacts
           DEF Next, Worker, Host, Stopped
<1> QED
    BY <1>1, <1>2, <1>3, <1>4 DEF PromiseInv

-----------------------------------------------------------------------------
(***************************************************************************)
(* What the abstract variables do in a step.                               *)
(***************************************************************************)
requestBars == <<statusBar, kindBar, len, resultBar>>
transferBars == <<wireBar, outcomeBar, availableBar>>

LEMMA BarsStutter ==
    ASSUME UNCHANGED <<requestBars, accepted, transferBars>>
    PROVE  [Device!Next]_(Device!vars)
    BY DEF requestBars, transferBars, Device!vars

\* What no client sees.
LEMMA RequestsUnseen ==
    ASSUME UNCHANGED <<client, cmd, len, replied, err>>
    PROVE  UNCHANGED requestBars
<1>1. \A r \in Req : Status(r)' = Status(r)
    BY DEF Status
<1>2. statusBar' = statusBar
    BY <1>1 DEF statusBar
<1>3. kindBar' = kindBar
    BY DEF kindBar
<1>4. resultBar' = resultBar
    BY <1>1 DEF resultBar
<1> QED
    BY <1>2, <1>3, <1>4 DEF requestBars

\* ReplyMsg of a pending request.
LEMMA RequestAnswered ==
    ASSUME NEW r \in Req, Pending(r), NEW e,
           replied \in [Req -> BOOLEAN], err \in [Req -> Errors],
           client \in [Req -> {"idle", "putting", "out"}],
           replied' = [replied EXCEPT ![r] = TRUE], err' = [err EXCEPT ![r] = e],
           UNCHANGED <<client, cmd, len>>
    PROVE  /\ statusBar[r] = "pending" /\ kindBar[r] = cmd[r]
           /\ statusBar' = [statusBar EXCEPT ![r] = "answered"]
           /\ resultBar' = [resultBar EXCEPT ![r] = e]
           /\ UNCHANGED <<kindBar, len>>
<1>1. /\ Status(r) = "pending" /\ Status(r)' = "answered"
      /\ \A s \in Req : s # r => Status(s)' = Status(s)
    BY DEF Status, Pending
<1>2. statusBar[r] = "pending" /\ statusBar' = [statusBar EXCEPT ![r] = "answered"]
    BY <1>1 DEF statusBar
<1>3. resultBar' = [resultBar EXCEPT ![r] = e]
    BY <1>1 DEF resultBar
<1>4. kindBar[r] = cmd[r] /\ kindBar' = kindBar
    BY DEF kindBar, Pending
<1> QED
    BY <1>2, <1>3, <1>4

\* A client step but BeginReturn: the request r enters or leaves the driver.
LEMMA RequestsOfOthers ==
    ASSUME NEW r \in Req,
           client \in [Req -> {"idle", "putting", "out"}], cmd \in [Req -> Commands],
           replied \in [Req -> BOOLEAN], err \in [Req -> Errors],
           \A s \in Req : s # r => /\ client'[s] = client[s] /\ cmd'[s] = cmd[s]
                                   /\ replied'[s] = replied[s] /\ err'[s] = err[s]
    PROVE  /\ statusBar' = [statusBar EXCEPT ![r] = Status(r)']
           /\ kindBar' = [kindBar EXCEPT ![r] = IF client'[r] = "idle" THEN "none" ELSE cmd'[r]]
           /\ resultBar' = [resultBar EXCEPT ![r] =
                               IF Status(r)' = "answered" THEN err'[r] ELSE "none"]
<1>1. \A s \in Req : s # r => Status(s)' = Status(s)
    BY DEF Status
<1>2. statusBar' = [statusBar EXCEPT ![r] = Status(r)']
    BY <1>1 DEF statusBar
<1>3. kindBar' = [kindBar EXCEPT ![r] = IF client'[r] = "idle" THEN "none" ELSE cmd'[r]]
    BY DEF kindBar
<1>4. resultBar' = [resultBar EXCEPT ![r] = IF Status(r)' = "answered" THEN err'[r] ELSE "none"]
    BY <1>1 DEF resultBar
<1> QED
    BY <1>2, <1>3, <1>4

\* SendIO of WriteUsbIO is the transmission of the oldest write.
LEMMA SendTransmits ==
    ASSUME QueuedOnly, PromiseInv, [Next]_vars, NEW r \in Req, Unsent(r), SendWrite(r),
           usb["W"] = "idle", UNCHANGED <<client, cmd, len, replied, err, rOffset, rActual>>
    PROVE  Device!Next
<1>1. xfer[r] = "none" /\ xfer' = [xfer EXCEPT ![r] = "flight"]
    BY DEF PromiseInv, Fresh, SendWrite
<1>2. accepted # <<>> /\ Head(accepted) = r
    BY <1>1, OrderStep, PromiseFacts DEF PromiseInv
<1>3. accepted' = Tail(accepted)
    BY <1>2, PromiseFacts, WithoutHead DEF SendWrite
<1>4. wireBar = Free /\ wireBar' = r
    BY PromiseFacts DEF wireBar, SendWrite
<1>5. outcomeBar' = outcomeBar
    BY <1>1, PromiseFacts DEF outcomeBar
<1>6. UNCHANGED <<statusBar, kindBar, len, resultBar, availableBar>>
    BY RequestsUnseen DEF requestBars, availableBar
<1>7. Device!Transmit
    BY <1>2, <1>3, <1>4, <1>5, <1>6 DEF Device!Transmit
<1> QED
    BY <1>7 DEF Device!Next

\* Every step is a step of the abstract device or leaves it alone.
LEMMA DeviceStep ==
    ASSUME QueuedOnly, PromiseInv, [Next]_vars
    PROVE  [Device!Next]_(Device!vars)
<1> USE DEF AtWork, TakeUsb, listVars, workerVars, usbVars, clientVars, ghostVars
<1> DEFINE Goal == [Device!Next]_(Device!vars)
<1>0. /\ WithinLimits /\ OrderInv /\ Fresh /\ Carried /\ UseInv /\ TypeInv /\ Placed
    BY PromiseFacts DEF PromiseInv
\* Nothing that the abstract device consists of changes.
<1>1. ASSUME UNCHANGED <<client, cmd, len, replied, err, accepted, xfer>>,
             usb'["W"] = usb["W"], wio' = wio, availableBar' = availableBar
      PROVE  Goal
    <2>1. UNCHANGED transferBars
        BY <1>1 DEF transferBars, wireBar, outcomeBar
    <2> QED
        BY <1>1, <2>1, RequestsUnseen, BarsStutter
<1>2. ASSUME NEW r \in Req, Client(r)
      PROVE  Goal
    <2>1. UNCHANGED <<usb, wio, rOffset, rActual>>
        BY <1>2 DEF Client, BeginQueued, BeginReturn, BeginImmediate, Collect
    <2>2. UNCHANGED <<wireBar, availableBar>>
        BY <2>1 DEF wireBar, availableBar
    <2>3. ~(\E c \in Immediate, q \in Quicks, e \in {"ok", "bad"} : BeginImmediate(r, c, q, e))
        BY DEF BeginImmediate, QueuedOnly
    <2>4. CASE BeginReturn(r)
        <3>1. /\ \A s \in Req : s # r => /\ client'[s] = client[s] /\ cmd'[s] = cmd[s]
                                         /\ replied'[s] = replied[s] /\ err'[s] = err[s]
              /\ Status(r)' = Status(r) /\ client'[r] # "idle" /\ client[r] # "idle"
              /\ UNCHANGED <<len, accepted, cmd, err, xfer>>
            BY <2>4, PromiseFacts DEF BeginReturn, Status
        <3>2. UNCHANGED requestBars
            <4>1. \A s \in Req : Status(s)' = Status(s)
                BY <3>1 DEF Status
            <4>2. statusBar' = statusBar /\ resultBar' = resultBar
                BY <3>1, <4>1 DEF statusBar, resultBar
            <4>3. kindBar' = kindBar
                BY <3>1 DEF kindBar
            <4> QED
                BY <3>1, <4>2, <4>3 DEF requestBars
        <3>3. outcomeBar' = outcomeBar
            BY <3>1 DEF outcomeBar
        <3> QED
            BY <2>2, <3>1, <3>2, <3>3, BarsStutter DEF transferBars
    <2>5. CASE Collect(r)
        <3>1. ~Pending(r) /\ client[r] # "idle" /\ r \notin ToSet(accepted)
            BY <1>0, <2>5, PromiseFacts
               DEF Collect, Pending, OrderInv, Awaited, Unsent, WriteInv, Marked
        <3>2. accepted' = accepted
            BY <2>5, <3>1, PromiseFacts, WithoutHead DEF Collect
        <3>3. Status(r) = "answered" /\ Status(r)' = "idle" /\ client'[r] = "idle"
            BY <2>5, <3>1, PromiseFacts DEF Collect, Status, Pending
        <3>4. \A s \in Req : s # r => /\ client'[s] = client[s] /\ cmd'[s] = cmd[s]
                                      /\ replied'[s] = replied[s] /\ err'[s] = err[s]
            BY <2>5, PromiseFacts DEF Collect
        <3>5. /\ statusBar' = [statusBar EXCEPT ![r] = "idle"]
              /\ kindBar' = [kindBar EXCEPT ![r] = "none"]
              /\ resultBar' = [resultBar EXCEPT ![r] = "none"]
            BY <3>3, <3>4, PromiseFacts, RequestsOfOthers
        <3>6. statusBar[r] = "answered" /\ len' = [len EXCEPT ![r] = 0]
            BY <2>5, <3>3 DEF statusBar, Collect
        <3>7. outcomeBar' = [outcomeBar EXCEPT ![r] = "none"]
            BY <2>5, PromiseFacts DEF outcomeBar, Collect
        <3>8. Device!Collect(r)
            BY <2>2, <3>2, <3>5, <3>6, <3>7 DEF Device!Collect
        <3> QED
            BY <3>8 DEF Device!Next
    <2>6. ASSUME NEW c \in {"read", "write", "params", "other"}, NEW n, NEW q,
                 BeginQueued(r, c, n, q)
          PROVE  Device!Accept(r, c, n)
        <3>1. /\ Status(r) = "idle" /\ Status(r)' = "pending" /\ client'[r] # "idle"
              /\ cmd'[r] = c
            BY <2>6, PromiseFacts DEF BeginQueued, Status
        <3>2. \A s \in Req : s # r => /\ client'[s] = client[s] /\ cmd'[s] = cmd[s]
                                      /\ replied'[s] = replied[s] /\ err'[s] = err[s]
            BY <2>6, PromiseFacts DEF BeginQueued
        <3>3. /\ statusBar' = [statusBar EXCEPT ![r] = "pending"]
              /\ kindBar' = [kindBar EXCEPT ![r] = c]
              /\ resultBar' = [resultBar EXCEPT ![r] = "none"]
            BY <3>1, <3>2, PromiseFacts, RequestsOfOthers
        <3>4. resultBar[r] = "none" /\ resultBar \in [Req -> {resultBar[s] : s \in Req}]
            BY <3>1 DEF resultBar
        <3>5. resultBar' = resultBar
            BY <3>3, <3>4
        <3>6. outcomeBar' = outcomeBar
            <4>1. xfer[r] = "none" /\ xfer' = [xfer EXCEPT ![r] = "none"]
                BY <1>0, <2>6 DEF Fresh, BeginQueued
            <4>2. xfer' = xfer
                BY <4>1, PromiseFacts
            <4> QED
                BY <4>2 DEF outcomeBar
        <3>7. /\ statusBar[r] = "idle" /\ len' = [len EXCEPT ![r] = n]
              /\ accepted' = IF c = "write" THEN Append(accepted, r) ELSE accepted
            BY <2>6, <3>1 DEF statusBar, BeginQueued
        <3> QED
            BY <2>2, <3>3, <3>5, <3>6, <3>7 DEF Device!Accept
    <2>7. CASE \E n \in ReadLengths, q \in Quicks : BeginQueued(r, "read", n, q)
        BY <2>6, <2>7 DEF Device!Next
    <2>8. CASE \E c \in {"write", "params", "other"}, q \in Quicks : BeginQueued(r, c, 0, q)
        BY <2>6, <2>8 DEF Device!Next
    <2> QED
        BY <1>2, <2>3, <2>4, <2>5, <2>7, <2>8 DEF Client
<1>3. ASSUME NEW n \in 0..MaxPacket, UsbReadDone(n)
      PROVE  Goal
    <2>1. rActual = 0 /\ rOffset = 0 /\ rActual' = n /\ UNCHANGED rOffset
        BY <1>3, PromiseFacts DEF UsbReadDone
    <2>2. availableBar = 0 /\ availableBar' = n
        BY <2>1 DEF availableBar
    <2>3. UNCHANGED requestBars /\ UNCHANGED <<accepted, wireBar, outcomeBar>>
        BY <1>3, PromiseFacts, RequestsUnseen DEF UsbReadDone, wireBar, outcomeBar
    <2>4. CASE n = 0
        BY <2>2, <2>3, <2>4, BarsStutter DEF transferBars
    <2>5. CASE n \in 1..MaxPacket
        <3>1. Device!Receive(n)
            BY <2>2, <2>3 DEF Device!Receive, requestBars
        <3> QED
            BY <2>5, <3>1 DEF Device!Next
    <2> QED
        BY <2>4, <2>5, PacketAssumption
<1>4. ASSUME NEW e \in {"ok", "usb"}, UsbWriteDone(e)
      PROVE  Goal
    <2> DEFINE o == IF e = "ok" THEN "ok" ELSE "failed"
    <2>1. wireBar = wio /\ wireBar' = Free /\ wio # Free /\ wio \in Req
        BY <1>4, PromiseFacts DEF UsbWriteDone, wireBar
    <2>2. outcomeBar' = [outcomeBar EXCEPT ![wio] = o]
        BY <1>4, <2>1, PromiseFacts DEF UsbWriteDone, outcomeBar
    <2>3. UNCHANGED requestBars /\ UNCHANGED <<accepted, availableBar>>
        BY <1>4, RequestsUnseen DEF UsbWriteDone, availableBar
    <2>4. Device!Finish(o)
        BY <2>1, <2>2, <2>3 DEF Device!Finish, requestBars
    <2> QED
        BY <2>4 DEF Device!Next
<1>5. CASE UsbInterruptDone \/ Expunge \/ (\E n \in Notes : StackNotify(n))
    BY <1>1, <1>5, PromiseFacts DEF UsbInterruptDone, StackNotify, Expunge, availableBar
<1>6. CASE ReadBuffered
    <2>1. /\ io \in Req /\ Pending(io) /\ cmd[io] = "read" /\ InputLeft
          /\ len[io] <= rActual - rOffset
        BY <1>0, <1>6, HandFacts, ReadInHand, PromiseFacts DEF ReadBuffered
    <2>2. /\ err' = [err EXCEPT ![io] = "ok"] /\ replied' = [replied EXCEPT ![io] = TRUE]
          /\ rOffset' = rOffset + len[io]
          /\ UNCHANGED <<client, cmd, len, accepted, xfer, usb, wio, rActual>>
        BY <1>6, <2>1 DEF ReadBuffered
    <2>3. len[io] <= availableBar /\ availableBar' = availableBar - len[io]
        BY <2>1, <2>2, PromiseFacts DEF availableBar
    <2>4. Device!AnswerRead(io)
        BY <2>1, <2>2, <2>3, RequestAnswered, PromiseFacts
           DEF Device!AnswerRead, Device!Answer, wireBar, outcomeBar
    <2> QED
        BY <2>1, <2>4 DEF Device!Next
<1>7. CASE ReadServe \/ ReadPart
    <2>1. pc = "rcopy"
        BY <1>7 DEF ReadServe, ReadPart
    <2>2. /\ io \in Req /\ Pending(io) /\ cmd[io] = "read" /\ ReadServe /\ ReadsAfter(io) = <<>>
          /\ len[io] = 1
        BY <1>0, <1>7, <2>1, OneCopyFacts, PromiseFacts
    <2>3. /\ err' = [err EXCEPT ![io] = "ok"] /\ replied' = [replied EXCEPT ![io] = TRUE]
          /\ rOffset' = rOffset + len[io]
          /\ UNCHANGED <<client, cmd, len, accepted, xfer, usb, wio, rActual>>
        BY <2>2 DEF ReadServe
    <2>4. rOffset < rActual
        BY <2>1, PromiseFacts DEF TypeInv, BufferBounds
    <2>5. len[io] <= availableBar /\ availableBar' = availableBar - len[io]
        BY <2>2, <2>3, <2>4, PromiseFacts DEF availableBar
    <2>6. Device!AnswerRead(io)
        BY <2>2, <2>3, <2>5, RequestAnswered, PromiseFacts
           DEF Device!AnswerRead, Device!Answer, wireBar, outcomeBar
    <2> QED
        BY <2>2, <2>6 DEF Device!Next
\* The buffer is empty when ReadUsbIO is sent.
<1>8. CASE ReadSubmit
    <2>1. ~InputLeft
        BY <1>0, <1>8, ReadInHand, PromiseFacts DEF ReadSubmit
    <2>2. availableBar' = availableBar
        BY <1>8, <2>1, PromiseFacts DEF ReadSubmit, RequestInput, InputLeft, availableBar
    <2> QED
        BY <1>1, <1>8, <2>2, PromiseFacts DEF ReadSubmit, RequestInput
<1>9. CASE ReadReplied
    <2>1. usb["R"] # "idle"
        BY <1>0, <1>9, UseFacts, PromiseFacts DEF ReadReplied
    <2>2. rOffset = 0
        BY <2>1, PromiseFacts DEF UseInv, ReadOwnership
    <2>3. availableBar' = availableBar
        BY <1>9, <2>2 DEF ReadReplied, availableBar
    <2> QED
        BY <1>1, <1>9, <2>3, PromiseFacts DEF ReadReplied
<1>10. CASE WriteAccept
    <2>1. io \in Req /\ Pending(io) /\ cmd[io] = "write" /\ io \notin ToSet(writeRequests)
        BY <1>0, <1>10, HandFacts, PromiseFacts DEF WriteAccept
    <2>2. CASE NoWriteListed
        <3>1. usb["W"] = "idle" /\ SendWrite(io)
            BY <1>10, <2>2, PromiseFacts DEF WriteAccept, NoWriteListed
        <3>2. Unsent(io)
            BY <2>1, <3>1 DEF Unsent, Carries
        <3> QED
            BY <1>10, <2>1, <3>1, <3>2, SendTransmits DEF WriteAccept
    <2>3. CASE ~NoWriteListed
        BY <1>1, <1>10, <2>3 DEF WriteAccept, availableBar
    <2> QED
        BY <2>2, <2>3
<1>11. CASE WriteSend
    <2>1. /\ usb["W"] = "idle" /\ SendWrite(io)
          /\ writeRequests # <<>> /\ io = Head(writeRequests)
        BY <1>11, PromiseFacts DEF WriteSend, WriteInv, Handled, SendReady
    <2>2. io \in Req /\ Pending(io) /\ cmd[io] = "write"
        BY <1>0, <2>1, UseFacts, PromiseFacts DEF InPlaces, Sorted
    <2>3. Unsent(io)
        BY <2>1, <2>2 DEF Unsent, Carries
    <2> QED
        BY <1>11, <2>1, <2>2, <2>3, SendTransmits DEF WriteSend
<1>12. CASE WriteReplied
    <2>1. usb["W"] = "replied"
        BY <1>0, <1>12, UseFacts, PromiseFacts DEF WriteReplied
    <2>2. /\ wio \in Req /\ Pending(wio) /\ cmd[wio] = "write"
          /\ err' = [err EXCEPT ![wio] = werr] /\ replied' = [replied EXCEPT ![wio] = TRUE]
          /\ UNCHANGED <<client, cmd, len, accepted, xfer, wio, rOffset, rActual>>
          /\ usb'["W"] = "idle"
        BY <1>12, <2>1, PromiseFacts DEF WriteReplied, WriteResult
    <2>3. xfer[wio] = IF werr = "ok" THEN "ok" ELSE "failed"
        BY <1>0, <2>1 DEF Carried
    <2>4. outcomeBar[wio] # "none" /\ werr = IF outcomeBar[wio] = "ok" THEN "ok" ELSE "usb"
        BY <2>2, <2>3, PromiseFacts DEF outcomeBar
    <2>5. UNCHANGED <<wireBar, outcomeBar, availableBar>>
        BY <2>1, <2>2 DEF wireBar, outcomeBar, availableBar
    <2>6. Device!AnswerWrite(wio)
        BY <2>2, <2>4, <2>5, RequestAnswered, PromiseFacts
           DEF Device!AnswerWrite, Device!Answer
    <2> QED
        BY <2>2, <2>6 DEF Device!Next
<1>13. CASE AnswerAtOnce
    <2>1. io \in Req /\ Pending(io) /\ cmd[io] \in {"params", "other"}
        <3>1. io \in Req /\ Pending(io) /\ cmd[io] \in Commands
            BY <1>0, <1>13, HandFacts, PromiseFacts DEF AnswerAtOnce
        <3> QED
            BY <1>13, <3>1 DEF AnswerAtOnce, Commands, Reads, Writes, Pending, Immediate
    <2>2. /\ err' = [err EXCEPT ![io] = IF cmd[io] = "params" THEN "ok" ELSE "nocmd"]
          /\ replied' = [replied EXCEPT ![io] = TRUE]
          /\ UNCHANGED <<client, cmd, len, accepted, xfer, usb, wio, rOffset, rActual>>
        BY <1>13 DEF AnswerAtOnce
    <2>3. UNCHANGED <<wireBar, outcomeBar, availableBar>>
        BY <2>2 DEF wireBar, outcomeBar, availableBar
    <2>4. Device!AnswerOther(io)
        BY <2>1, <2>2, <2>3, RequestAnswered, PromiseFacts
           DEF Device!AnswerOther, Device!Answer
    <2> QED
        BY <2>1, <2>4 DEF Device!Next
<1>14. CASE InterruptReplied
    BY <1>1, <1>14, PromiseFacts DEF InterruptReplied, availableBar
<1>15. CASE UseFreedBase \/ TakeRequest \/ UnitPortEmpty \/ WaitSignal \/ UsbPortDone
            \/ ReadHead \/ WriteNext \/ TakeNotification \/ LoopEnd
    BY <1>1, <1>15 DEF UseFreedBase, TakeRequest, UnitPortEmpty, WaitSignal, UsbPortDone,
       ReadHead, WriteNext, TakeNotification, LoopEnd, availableBar
<1>16. CASE UNCHANGED vars
    BY <1>1, <1>16 DEF vars, availableBar
<1> QED
    BY <1>2, <1>3, <1>4, <1>5, <1>6, <1>7, <1>8, <1>9, <1>10, <1>11, <1>12, <1>13,
       <1>14, <1>15, <1>16, PromiseFacts DEF Next, Worker, Host, Stopped

LEMMA PromiseInit == ASSUME QueuedOnly, Init PROVE PromiseInv /\ Device!Init
<1>1. UseInv /\ OrderInv
    BY UseInit, OrderInit DEF QueuedOnly, WithinLimits
<1>2. PromiseInv
    BY <1>1 DEF PromiseInv, Init, Carried, ReplyReflectsTransfer, Fresh, NoneImmediate, Immediate,
       Transfers
<1>3. statusBar = [r \in Req |-> "idle"] /\ resultBar = [r \in Req |-> "none"]
    BY DEF Init, statusBar, resultBar, Status
<1>4. kindBar = [r \in Req |-> "none"] /\ outcomeBar = [r \in Req |-> "none"]
    BY DEF Init, kindBar, outcomeBar
<1>5. wireBar = Free /\ availableBar = 0 /\ accepted = <<>> /\ len = [r \in Req |-> 0]
    BY DEF Init, wireBar, availableBar, Transfers
<1> QED
    BY <1>2, <1>3, <1>4, <1>5 DEF Device!Init

\* What clients see of the driver is the abstract device: writes in one queue
\* that leave in order and are answered with their own outcome, reads answered
\* with what has come in - for any number of requests and any transfers.
THEOREM DeviceImplemented ==
    ASSUME QueuedOnly
    PROVE  Spec => DeviceKept
<1>1. Init => PromiseInv /\ Device!Init
    BY PromiseInit
<1>2. PromiseInv /\ [Next]_vars => PromiseInv'
    BY PromiseStep
<1>3. PromiseInv /\ [Next]_vars => [Device!Next]_(Device!vars)
    BY DeviceStep
<1> QED
    BY <1>1, <1>2, <1>3, PTL DEF Spec, DeviceKept, Device!Spec
=============================================================================
