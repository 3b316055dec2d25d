------------------------ MODULE PL2303IO_use_proofs ------------------------
(***************************************************************************)
(* What the reads add when the I/O path is used within its limits: nobody  *)
(* calls AbortIO, clients keep at most one read outstanding and ask for    *)
(* one byte, and the device is expunged only while the worker waits.       *)
(* Any number of requests, writes and commands, and any transfer lengths.  *)
(***************************************************************************)
EXTENDS PL2303IO_order_proofs

WithinLimits ==
    /\ Abortable = {} /\ OneRead /\ ReadLengths \subseteq {1}
    /\ Expunging # "any time"

-----------------------------------------------------------------------------
(***************************************************************************)
(* The inductive invariant: that of the writes, and what one read of one   *)
(* byte adds to it.                                                        *)
(***************************************************************************)

\* There is one read at most, of one byte, and it has none yet while it waits.
OneByteRead ==
    /\ \A r, s \in Req : client[r] # "idle" /\ cmd[r] = "read"
                         /\ client[s] # "idle" /\ cmd[s] = "read" => r = s
    /\ \A r \in Req : client[r] # "idle" /\ cmd[r] = "read" => len[r] = 1
    /\ \A r \in Req : r \in ToSet(readRequests) \/ r \in Hand => act[r] = 0

\* The transfer is at rest while the worker copies out of its buffer.
AtRest == pc \in {"rhead", "rcopy"} => usb["R"] = "idle"

\* After an expunge the worker goes from Wait straight to the end.
Left == expunged => pc = "exit" \/ (pc = "wait" /\ "single" \in signals)

UseInv ==
    /\ WriteInv /\ OneByteRead /\ AtRest /\ Left
    /\ ReadOwnership /\ NoMisuse

LEMMA UseInit == Init => UseInv
<1> SUFFICES ASSUME Init PROVE UseInv
    OBVIOUS
<1>1. WriteInv
    BY WriteInit
<1>2. ReadOwnership /\ NoMisuse
    BY DEF Init, ReadOwnership, NoMisuse, Transfers
<1>3. OneByteRead /\ AtRest /\ Left
    BY SmallToSet DEF Init, OneByteRead, AtRest, Left, Hand
<1> QED
    BY <1>1, <1>2, <1>3 DEF UseInv

\* A request that is listed twice would be a second read: the list holds one.
LEMMA OneListed ==
    ASSUME WithinLimits, UseInv, readRequests # <<>>
    PROVE  /\ Head(readRequests) \in Req
           /\ readRequests = <<Head(readRequests)>>
           /\ ToSet(readRequests) = {Head(readRequests)}
<1> DEFINE h == Head(readRequests)
<1>1. /\ readRequests \in Seq(Req) /\ IsInjective(readRequests) /\ OneByteRead
      /\ \A r \in Req : r \in ToSet(readRequests) => Pending(r) /\ cmd[r] = "read"
    BY HeldTypes, WriteFacts DEF WithinLimits, UseInv, Placed, Sorted, InPlaces
<1>2. /\ DOMAIN readRequests = 1..Len(readRequests) /\ Len(readRequests) \in Nat \ {0}
      /\ h = readRequests[1] /\ 1 \in 1..Len(readRequests) /\ h \in Req
    BY <1>1
<1>3. ASSUME NEW j \in 1..Len(readRequests)
      PROVE  j = 1
    <2>1. readRequests[j] \in Req /\ readRequests[j] \in ToSet(readRequests)
          /\ h \in ToSet(readRequests)
        BY <1>1, <1>2 DEF ToSet
    <2>2. readRequests[j] = readRequests[1]
        BY <1>1, <1>2, <2>1 DEF OneByteRead, Pending
    <2> QED
        BY <1>1, <1>2, <2>2 DEF IsInjective
<1>4. Len(readRequests) = 1
    <2>1. Len(readRequests) \in 1..Len(readRequests)
        BY <1>2
    <2> QED
        BY <1>3, <2>1
<1>5. readRequests = <<h>>
    BY <1>1, <1>2, <1>4
<1> QED
    BY <1>2, <1>5, SmallToSet

\* What the lists hold, as sets, and that AbortIO is not called.
LEMMA UseFacts ==
    ASSUME WithinLimits, UseInv
    PROVE  /\ Abortable = {} /\ WriteInv /\ TypeInv /\ Placed /\ Sorted /\ fault = "none"
           /\ \A r \in Req : ~Aborter(r)
           /\ \A r \in Req : (InPlaces(r) <=> Pending(r)) /\ InOnePlace(r)
           /\ \A r \in Req : Contains(readRequests, r) <=> r \in ToSet(readRequests)
           /\ writeRequests # <<>> => /\ Head(writeRequests) \in ToSet(writeRequests)
                                      /\ Head(writeRequests) \in Req
           /\ usbPort # <<>> => usb[Head(usbPort)] = "replied"
           /\ ToSet(<<>>) = {}
    BY WriteFacts DEF WithinLimits, UseInv, NoMisuse

\* The only read there is cannot be listed while it is in hand.
LEMMA ReadInHand ==
    ASSUME WithinLimits, UseInv, pc = "dispatch", cmd[io] = "read"
    PROVE  /\ io \in Req /\ act[io] = 0
           /\ readRequests = <<>> /\ usb["R"] = "idle" /\ len[io] = 1
           /\ InputLeft => len[io] <= rActual - rOffset
<1>1. io \in Req /\ Pending(io) /\ io \in Hand /\ io \notin ToSet(readRequests)
    BY UseFacts, HandFacts
<1>2. ASSUME NEW r \in Req, r \in ToSet(readRequests) PROVE FALSE
    <2>1. r # io /\ Pending(r) /\ cmd[r] = "read"
        BY <1>1, <1>2, UseFacts DEF InPlaces, Sorted
    <2> QED
        BY <1>1, <2>1 DEF UseInv, OneByteRead, Pending
<1>3. readRequests = <<>>
    BY <1>2, OneListed
<1>4. usb["R"] = "idle" /\ len[io] = 1 /\ act[io] = 0
    BY <1>1, <1>3 DEF UseInv, ReadOwnership, OneByteRead, Pending
<1>5. InputLeft => len[io] <= rActual - rOffset
    BY <1>4, UseFacts DEF TypeInv, TypeOK, TransfersOK, InputLeft
<1> QED
    BY <1>1, <1>3, <1>4, <1>5

\* While the worker copies, the request it copies to is the only one listed,
\* and a byte is left for it.
LEMMA OneCopyFacts ==
    ASSUME WithinLimits, UseInv, pc = "rcopy"
    PROVE  /\ io \in Req /\ readRequests = <<io>> /\ Contains(readRequests, io)
           /\ Pending(io) /\ cmd[io] = "read" /\ len[io] = 1 /\ act[io] = 0
           /\ usb["R"] = "idle" /\ ReadsAfter(io) = <<>>
           /\ ~ReadPart
<1>1. /\ io \in Req /\ io \in ToSet(readRequests) /\ Contains(readRequests, io)
      /\ Pending(io) /\ cmd[io] = "read"
    BY UseFacts, CopyFacts
<1>2. readRequests = <<io>>
    <2>1. readRequests # <<>>
        BY <1>1, UseFacts
    <2> QED
        BY <1>1, <2>1, OneListed
<1>3. len[io] = 1 /\ act[io] = 0 /\ usb["R"] = "idle"
    BY <1>1 DEF UseInv, OneByteRead, Pending, AtRest
<1>4. ReadsAfter(io) = <<>>
    BY <1>2, SmallToSet DEF ReadsAfter
<1>5. 1 <= rActual - rOffset /\ rActual - rOffset \in Int
    BY UseFacts DEF TypeInv, TypeOK, TransfersOK, BufferBounds
<1>6. len[io] - act[io] = 1
    BY <1>3
<1>7. ~ReadPart
    <2>1. ~(1 > rActual - rOffset)
        BY <1>5
    <2>2. ~(len[io] - act[io] > rActual - rOffset)
        BY <1>6, <2>1
    <2> QED
        BY <2>2 DEF ReadPart
<1> QED
    BY <1>1, <1>2, <1>3, <1>4, <1>7

\* No step of the worker misuses exec.
LEMMA NoMisuseStep ==
    ASSUME WithinLimits, UseInv, [Next]_vars
    PROVE  NoMisuse'
<1> USE DEF NoMisuse, AtWork, TakeUsb, listVars, workerVars, usbVars, clientVars, ghostVars
<1>0. /\ fault = "none" /\ (\A r \in Req : ~Aborter(r))
      /\ ~Walked(Reads) /\ ~Walked(Writes)
    BY UseFacts DEF UseInv, WriteInv, NoAbort, Walked
<1>1. ASSUME NEW r \in Req, Client(r)
      PROVE  NoMisuse'
    BY <1>0, <1>1 DEF Client, BeginQueued, BeginReturn, BeginImmediate, Collect
<1>2. CASE Host
    BY <1>0, <1>2 DEF Host, UsbReadDone, UsbWriteDone, UsbInterruptDone, StackNotify, Expunge
<1>3. CASE UseFreedBase
    BY <1>3 DEF UseFreedBase, UseInv, Left
<1>4. CASE AnswerAtOnce
    BY <1>4, UseFacts, HandFacts DEF AnswerAtOnce
<1>5. CASE ReadBuffered
    BY <1>5, ReadInHand, UseFacts, HandFacts DEF ReadBuffered
<1>6. CASE ReadSubmit
    BY <1>6, ReadInHand DEF ReadSubmit, SendFault
<1>7. CASE WriteAccept
    BY <1>0, <1>7 DEF WriteAccept, NoWriteListed, SendWrite, SendFault, UseInv,
       WriteInv, WriteOwnership
<1>8. CASE ReadServe
    <2>1. pc = "rcopy"
        BY <1>8 DEF ReadServe
    <2>2. ReadsAfter(io) = <<>> /\ Contains(readRequests, io) /\ act[io] = 0
        BY <2>1, OneCopyFacts
    <2>3. fault' = CASE act[io] > 0 -> "copied past the end"
                     [] act[io] = 0 /\ ~Contains(readRequests, io) ->
                           "removed while in no list"
                     [] act[io] = 0 /\ Contains(readRequests, io) /\ Walked(Reads) ->
                           "changed while walked"
                     [] OTHER -> "none"
        BY <1>8, <2>2 DEF ReadServe
    <2>4. ~(act[io] > 0)
        BY <2>2
    <2> QED
        BY <1>0, <2>2, <2>3, <2>4
<1>9. CASE ReadPart
    <2>1. pc = "rcopy"
        BY <1>9 DEF ReadPart
    <2> QED
        BY <1>9, <2>1, OneCopyFacts
<1>10. CASE WriteReplied
    <2>1. usb["W"] = "replied"
        BY <1>10, UseFacts DEF WriteReplied
    <2>2. writeRequests # <<>>
        BY <2>1 DEF UseInv, WriteInv, WriteOwnership
    <2>3. ~replied[Head(writeRequests)]
        BY <2>2, UseFacts DEF InPlaces, Pending
    <2> QED
        BY <1>0, <1>10, <2>2, <2>3 DEF WriteReplied
<1>11. CASE WriteSend
    BY <1>0, <1>11 DEF WriteSend, SendWrite, SendFault, UseInv, WriteInv, Handled
<1>12. CASE ReadReplied \/ InterruptReplied
    BY <1>0, <1>12, UseFacts DEF ReadReplied, InterruptReplied, ResendFault
<1>13. CASE TakeRequest \/ UnitPortEmpty \/ WaitSignal \/ UsbPortDone \/ ReadHead
            \/ WriteNext \/ TakeNotification \/ LoopEnd
    BY <1>0, <1>13 DEF TakeRequest, UnitPortEmpty, WaitSignal, UsbPortDone, ReadHead,
       WriteNext, TakeNotification, LoopEnd
<1>14. CASE UNCHANGED vars
    BY <1>0, <1>14 DEF vars
<1> QED
    BY <1>0, <1>1, <1>2, <1>3, <1>4, <1>5, <1>6, <1>7, <1>8, <1>9, <1>10, <1>11,
       <1>12, <1>13, <1>14 DEF Next, Worker, Stopped

\* BeginIO brings a second read only when the first is back with its client;
\* GetMsg clears io_Actual and nothing is copied to a read that stays listed.
LEMMA OneByteReadStep ==
    ASSUME WithinLimits, UseInv, [Next]_vars
    PROVE  OneByteRead'
<1> USE DEF AtWork, TakeUsb, listVars, workerVars, usbVars, clientVars, ghostVars, OneByteRead
<1> DEFINE R == ToSet(readRequests)
<1>0. /\ Placed /\ OneByteRead /\ (\A r \in Req : ~Aborter(r))
      /\ unitPort \in Seq(Req) /\ readRequests \in Seq(Req)
      /\ client \in [Req -> {"idle", "putting", "out"}] /\ cmd \in [Req -> Commands]
      /\ len \in [Req -> Nat] /\ act \in [Req -> Nat]
    BY UseFacts DEF UseInv, TypeInv, TypeOK, PortsOK, RequestsOK
\* The requests keep their commands, and io_Actual where it matters.
<1>1. ASSUME UNCHANGED <<client, cmd, len>>,
             \A r \in Req : r \in ToSet(readRequests') \/ r \in Hand' => act'[r] = 0
      PROVE  OneByteRead'
    BY <1>0, <1>1
<1>2. ASSUME NEW r \in Req, Client(r)
      PROVE  OneByteRead'
    <2>1. /\ \A s \in Req : s # r => /\ client'[s] = client[s] /\ cmd'[s] = cmd[s]
                                     /\ len'[s] = len[s] /\ act'[s] = act[s]
          /\ act'[r] = act[r] \/ act'[r] = 0
          /\ UNCHANGED readRequests /\ Hand' = Hand
        BY <1>0, <1>2 DEF Client, BeginQueued, BeginReturn, BeginImmediate, Collect, Hand
    <2>2. client'[r] # "idle" /\ cmd'[r] = "read" =>
             /\ len'[r] = 1
             /\ (client[r] # "idle" /\ cmd[r] = "read") \/ NoReadOut
        BY <1>0, <1>2
           DEF Client, BeginQueued, BeginReturn, BeginImmediate, Collect, WithinLimits, Immediate
    <2> QED
        BY <1>0, <2>1, <2>2 DEF NoReadOut
<1>3. CASE Host
    BY <1>0, <1>1, <1>3
       DEF Host, UsbReadDone, UsbWriteDone, UsbInterruptDone, StackNotify, Expunge, Hand
<1>4. CASE TakeRequest
    <2>1. Head(unitPort) \in Req /\ Head(unitPort) \in ToSet(unitPort)
        BY <1>0, <1>4, TailToSet, HeadTailProperties DEF TakeRequest, Placed
    <2>2. Head(unitPort) \notin R
        BY <1>0, <2>1 DEF Placed, InOnePlace
    <2>3. Hand' = {Head(unitPort)} /\ act' = [act EXCEPT ![Head(unitPort)] = 0]
          /\ UNCHANGED <<readRequests, client, cmd, len>>
        BY <1>4 DEF TakeRequest, Hand
    <2> QED
        BY <1>0, <1>1, <2>1, <2>2, <2>3
<1>5. CASE ReadBuffered
    <2>1. readRequests' = <<>> /\ Hand' = {}
        BY <1>5, ReadInHand DEF ReadBuffered, Hand
    <2> QED
        BY <1>1, <1>5, <2>1, SmallToSet DEF ReadBuffered
<1>6. CASE ReadSubmit
    <2>1. readRequests' = <<io>> /\ act[io] = 0 /\ Hand' = {} /\ ToSet(<<io>>) = {io}
        BY <1>6, ReadInHand, SmallToSet DEF ReadSubmit, Hand
    <2> QED
        BY <1>0, <1>1, <1>6, <2>1 DEF ReadSubmit
<1>7. CASE WriteAccept \/ AnswerAtOnce
    <2>1. UNCHANGED <<readRequests, client, cmd, len, act>> /\ Hand' = {}
        BY <1>7 DEF WriteAccept, AnswerAtOnce, Hand
    <2> QED
        BY <1>0, <1>1, <2>1
<1>8. CASE ReadServe \/ ReadPart
    <2>1. pc = "rcopy"
        BY <1>8 DEF ReadServe, ReadPart
    <2>2. ReadServe /\ ToSet(readRequests') = {} /\ Hand' = {}
        BY <1>8, <2>1, OneCopyFacts, SmallToSet DEF ReadServe, Hand
    <2> QED
        BY <1>1, <2>2 DEF ReadServe
<1>9. CASE UseFreedBase \/ UnitPortEmpty \/ WaitSignal \/ UsbPortDone \/ ReadReplied \/ ReadHead
           \/ WriteReplied \/ WriteNext \/ WriteSend \/ InterruptReplied \/ TakeNotification \/ LoopEnd
    <2>1. UNCHANGED <<readRequests, client, cmd, len, act>> /\ Hand' = Hand
        BY <1>9 DEF UseFreedBase, UnitPortEmpty, WaitSignal, UsbPortDone, ReadReplied, ReadHead,
           WriteReplied, WriteNext, WriteSend, InterruptReplied, TakeNotification, LoopEnd, Hand
    <2> QED
        BY <1>0, <1>1, <2>1
<1>10. CASE UNCHANGED vars
    BY <1>0, <1>1, <1>10 DEF vars, Hand
<1> QED
    BY <1>0, <1>2, <1>3, <1>4, <1>5, <1>6, <1>7, <1>8, <1>9, <1>10
       DEF Next, Worker, Stopped

\* The handlers leave their transfer at rest until they send it themselves.
LEMMA AtRestStep ==
    ASSUME WithinLimits, UseInv, [Next]_vars
    PROVE  AtRest'
<1> USE DEF AtWork, TakeUsb, listVars, workerVars, usbVars, clientVars, ghostVars, AtRest
<1>0. /\ AtRest /\ (\A r \in Req : ~Aborter(r)) /\ "R" \in Transfers /\ "W" \in Transfers
      /\ usb \in [Transfers -> {"idle", "flight", "replied"}]
    BY UseFacts DEF UseInv, TypeInv, TypeOK, TransfersOK, Transfers
<1>1. CASE pc' \notin {"rhead", "rcopy"}
    BY <1>1
<1>2. CASE UNCHANGED <<pc, usb>>
    BY <1>0, <1>2
<1>3. ASSUME NEW r \in Req, Client(r)
      PROVE  AtRest'
    BY <1>2, <1>3 DEF Client, BeginQueued, BeginReturn, BeginImmediate, Collect
<1>4. CASE Host
    BY <1>0, <1>4 DEF Host, UsbReadDone, UsbWriteDone, UsbInterruptDone, StackNotify, Expunge
<1>5. CASE ReadReplied
    BY <1>0, <1>5 DEF ReadReplied
<1>6. CASE ReadHead
    BY <1>0, <1>6 DEF ReadHead
<1>7. CASE ReadServe \/ ReadPart
    <2>1. pc = "rcopy"
        BY <1>7 DEF ReadServe, ReadPart
    <2>2. ReadServe /\ readRequests' = <<>> /\ usb["R"] = "idle"
        BY <1>7, <2>1, OneCopyFacts DEF ReadServe
    <2>3. pc' \in {"rhead", "usb"} /\ usb' = usb
        BY <2>1, <2>2, OneCopyFacts DEF ReadServe
    <2> QED
        BY <2>2, <2>3
<1>8. CASE WriteReplied
    BY <1>1, <1>8 DEF WriteReplied
<1>9. CASE InterruptReplied
    BY <1>1, <1>9 DEF InterruptReplied
<1>10. CASE UseFreedBase
    BY <1>2, <1>10 DEF UseFreedBase
<1>11. CASE TakeRequest \/ UnitPortEmpty \/ ReadBuffered \/ ReadSubmit \/ WriteAccept
            \/ AnswerAtOnce \/ WaitSignal \/ UsbPortDone \/ WriteNext \/ WriteSend \/ TakeNotification
            \/ LoopEnd
    BY <1>1, <1>11 DEF TakeRequest, UnitPortEmpty, ReadBuffered, ReadSubmit, WriteAccept,
       AnswerAtOnce, WaitSignal, UsbPortDone, WriteNext, WriteSend, TakeNotification, LoopEnd
<1>12. CASE UNCHANGED vars
    BY <1>2, <1>12 DEF vars
<1> QED
    BY <1>0, <1>3, <1>4, <1>5, <1>6, <1>7, <1>8, <1>9, <1>10, <1>11, <1>12
       DEF Next, Worker, Stopped

\* The system expunges while the worker waits and then signals it; the signal
\* stays until Wait returns, and Wait then leads to the end.
LEMMA LeftStep ==
    ASSUME WithinLimits, UseInv, [Next]_vars
    PROVE  Left'
<1> USE DEF AtWork, TakeUsb, listVars, workerVars, usbVars, clientVars, ghostVars, Left
<1>0. Left /\ (\A r \in Req : ~Aborter(r)) /\ (Expunging = "never" \/ Expunging = "at rest")
    BY UseFacts, UseAssumption DEF UseInv, WithinLimits
<1>1. ASSUME NEW r \in Req, Client(r)
      PROVE  Left'
    BY <1>0, <1>1 DEF Client, BeginQueued, BeginReturn, BeginImmediate, Collect
<1>2. CASE Host
    BY <1>0, <1>2 DEF Host, UsbReadDone, UsbWriteDone, UsbInterruptDone, StackNotify, Expunge
<1>3. CASE WaitSignal \/ UseFreedBase
    BY <1>0, <1>3 DEF WaitSignal, UseFreedBase
<1>4. CASE Worker /\ ~WaitSignal /\ ~UseFreedBase
    BY <1>0, <1>4 DEF Worker, TakeRequest, UnitPortEmpty, ReadBuffered,
       ReadSubmit, WriteAccept, AnswerAtOnce, UsbPortDone, ReadReplied, ReadHead, ReadServe,
       ReadPart, WriteReplied, WriteNext, WriteSend, InterruptReplied, TakeNotification, LoopEnd
<1>5. CASE UNCHANGED vars
    BY <1>0, <1>5 DEF vars
<1> QED
    BY <1>0, <1>1, <1>2, <1>3, <1>4, <1>5 DEF Next, Stopped

\* ReadUsbIO is sent when the read is listed, again when it brings nothing, and
\* rests when the read is served.
LEMMA ReadOwnershipStep ==
    ASSUME WithinLimits, UseInv, [Next]_vars
    PROVE  ReadOwnership'
<1> USE DEF AtWork, TakeUsb, listVars, workerVars, usbVars, clientVars, ghostVars, ReadOwnership
<1>0. /\ ReadOwnership /\ (\A r \in Req : ~Aborter(r))
      /\ "R" \in Transfers /\ "W" \in Transfers /\ "I" \in Transfers
      /\ usb \in [Transfers -> {"idle", "flight", "replied"}]
      /\ rOffset \in Nat /\ rActual \in Nat
    BY UseFacts DEF UseInv, TypeInv, TypeOK, TransfersOK, Transfers
\* The reads stay listed, ReadUsbIO stays where it is.
<1>1. ASSUME UNCHANGED <<readRequests, rOffset>>, usb'["R"] = usb["R"],
             pc' = pc \/ pc \notin {"rhead", "rcopy"}
      PROVE  ReadOwnership'
    BY <1>0, <1>1
<1>2. ASSUME NEW r \in Req, Client(r)
      PROVE  ReadOwnership'
    BY <1>1, <1>2 DEF Client, BeginQueued, BeginReturn, BeginImmediate, Collect
<1>3. CASE Host
    BY <1>0, <1>3 DEF Host, UsbReadDone, UsbWriteDone, UsbInterruptDone, StackNotify, Expunge
<1>4. CASE ReadBuffered
    BY <1>4, <1>0, ReadInHand DEF ReadBuffered
<1>5. CASE ReadSubmit
    <2>1. readRequests' # <<>> /\ usb'["R"] = "flight" /\ rOffset' = 0
        BY <1>0, <1>5, ReadInHand DEF ReadSubmit, RequestInput
    <2> QED
        BY <2>1
<1>6. CASE ReadReplied
    <2>1. usb["R"] = "replied"
        BY <1>6, UseFacts DEF ReadReplied
    <2>2. readRequests # <<>> /\ rOffset = 0 /\ UNCHANGED readRequests
        BY <1>0, <1>6, <2>1 DEF ReadReplied
    <2>3. CASE NothingRead
        BY <1>0, <1>6, <2>2, <2>3 DEF ReadReplied
    <2>4. CASE ~NothingRead
        <3>1. rOffset < rActual
            BY <1>0, <2>2, <2>4 DEF NothingRead
        <3>2. usb'["R"] = "idle" /\ pc' = "rhead"
            BY <1>0, <1>6, <2>4, <3>1 DEF ReadReplied
        <3> QED
            BY <3>2
    <2> QED
        BY <2>3, <2>4
<1>7. CASE ReadHead
    <2>1. usb["R"] = "idle"
        BY <1>7 DEF ReadHead, UseInv, AtRest
    <2> QED
        BY <1>0, <1>7, <2>1 DEF ReadHead
<1>8. CASE ReadServe \/ ReadPart
    <2>1. pc = "rcopy"
        BY <1>8 DEF ReadServe, ReadPart
    <2>2. ReadServe /\ readRequests' = <<>> /\ usb' = usb /\ usb["R"] = "idle"
        BY <1>8, <2>1, OneCopyFacts DEF ReadServe
    <2> QED
        BY <2>2
<1>9. CASE WriteReplied \/ WriteNext \/ WriteSend \/ WriteAccept \/ InterruptReplied
    BY <1>0, <1>1, <1>9 DEF WriteReplied, WriteNext, WriteSend, WriteAccept, InterruptReplied, SendWrite
<1>10. CASE UseFreedBase \/ TakeRequest \/ UnitPortEmpty \/ AnswerAtOnce \/ WaitSignal
            \/ UsbPortDone \/ TakeNotification \/ LoopEnd
    BY <1>1, <1>10 DEF UseFreedBase, TakeRequest, UnitPortEmpty, AnswerAtOnce, WaitSignal,
       UsbPortDone, TakeNotification, LoopEnd
<1>11. CASE UNCHANGED vars
    BY <1>1, <1>11 DEF vars
<1> QED
    BY <1>0, <1>2, <1>3, <1>4, <1>5, <1>6, <1>7, <1>8, <1>9, <1>10, <1>11
       DEF Next, Worker, Stopped

LEMMA UseStep ==
    ASSUME WithinLimits, UseInv, [Next]_vars
    PROVE  UseInv'
<1>1. WriteInv'
    BY WriteStep DEF UseInv, WithinLimits
<1>2. OneByteRead' /\ AtRest' /\ Left'
    BY OneByteReadStep, AtRestStep, LeftStep
<1>3. ReadOwnership' /\ NoMisuse'
    BY ReadOwnershipStep, NoMisuseStep
<1> QED
    BY <1>1, <1>2, <1>3 DEF UseInv

LEMMA UseAlways ==
    ASSUME WithinLimits
    PROVE  Spec => []UseInv
<1>1. UseInv /\ [Next]_vars => UseInv'
    BY UseStep
<1> QED
    BY <1>1, UseInit, PTL DEF Spec

-----------------------------------------------------------------------------
\* Used within its limits the worker never misuses exec, with any number of
\* clients, writes of any number and transfers of any length.
THEOREM NeverMisused ==
    ASSUME WithinLimits
    PROVE  Spec => []NoMisuse
<1>1. UseInv => NoMisuse
    BY DEF UseInv
<1> QED
    BY <1>1, UseAlways, PTL

\* A listed read has ReadUsbIO under way or is being served; ReadUsbIO is under
\* way for nobody else, so the teardown finds it idle when no read is out.
THEOREM ReadsOwned ==
    ASSUME WithinLimits
    PROVE  Spec => []ReadOwnership
<1>1. UseInv => ReadOwnership
    BY DEF UseInv
<1> QED
    BY <1>1, UseAlways, PTL

\* Bytes of the buffer that were not handed out are never given back to the USB
\* stack: ReadUsbIO is only sent when the buffer has been emptied.
THEOREM InputKept ==
    ASSUME WithinLimits
    PROVE  Spec => NoInputDiscarded
<1> USE DEF AtWork, TakeUsb, listVars, workerVars, usbVars, clientVars, ghostVars
<1>1. ASSUME UseInv, [Next]_vars, rOffset < rActual
      PROVE  rActual' # 0
    <2>0. /\ rOffset \in Nat /\ rActual \in Nat /\ rActual # 0 /\ usb["R"] # "flight"
          /\ (\A s \in Req : ~Aborter(s))
        BY <1>1, UseFacts DEF TypeInv, TypeOK, TransfersOK, BufferBounds
    <2>1. CASE rActual' = rActual
        BY <2>0, <2>1
    <2>2. ASSUME NEW s \in Req, Client(s)
          PROVE  rActual' # 0
        BY <2>1, <2>2 DEF Client, BeginQueued, BeginReturn, BeginImmediate, Collect
    <2>3. CASE Host
        BY <2>0, <2>1, <2>3
           DEF Host, UsbReadDone, UsbWriteDone, UsbInterruptDone, StackNotify, Expunge
    <2>4. CASE ReadBuffered
        BY <1>1, <2>1, <2>4, ReadInHand DEF ReadBuffered
    <2>5. ~ReadSubmit
        BY <1>1, ReadInHand DEF ReadSubmit, InputLeft
    <2>6. CASE ReadServe \/ ReadPart
        <3>1. pc = "rcopy"
            BY <2>6 DEF ReadServe, ReadPart
        <3> QED
            BY <1>1, <2>1, <2>6, <3>1, OneCopyFacts DEF ReadServe
    <2>7. CASE UseFreedBase \/ TakeRequest \/ UnitPortEmpty \/ WriteAccept \/ AnswerAtOnce
               \/ WaitSignal \/ UsbPortDone \/ ReadReplied \/ ReadHead \/ WriteReplied
               \/ WriteNext \/ WriteSend \/ InterruptReplied \/ TakeNotification \/ LoopEnd
        BY <2>1, <2>7 DEF UseFreedBase, TakeRequest, UnitPortEmpty, WriteAccept, AnswerAtOnce,
           WaitSignal, UsbPortDone, ReadReplied, ReadHead, WriteReplied, WriteNext, WriteSend,
           InterruptReplied, TakeNotification, LoopEnd
    <2>8. CASE UNCHANGED vars
        BY <2>1, <2>8 DEF vars
    <2> QED
        BY <1>1, <2>0, <2>2, <2>3, <2>4, <2>5, <2>6, <2>7, <2>8 DEF Next, Worker, Stopped
<1>2. UseInv /\ [Next]_vars =>
         [rOffset < rActual /\ rActual' = 0 =>
             \E r \in Req : act'[r] = act[r] + (rActual - rOffset)]_vars
    BY <1>1
<1> QED
    BY <1>2, UseAlways, PTL DEF Spec, NoInputDiscarded
=============================================================================
