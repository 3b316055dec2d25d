------------------------ MODULE PL2303IO_order_proofs ------------------------
(***************************************************************************)
(* The life of a write when nobody calls AbortIO, whatever reads there     *)
(* are, however long, and whenever the device is expunged: it keeps its    *)
(* place from BeginIO to the wire, through the unit port, the worker's     *)
(* hand and the list, WriteUsbIO carries its own data, and it is answered  *)
(* with its own outcome.                                                   *)
(***************************************************************************)
EXTENDS PL2303IO_proofs

-----------------------------------------------------------------------------
(***************************************************************************)
(* Who owns the bulk-out transfer.  Without AbortIO nobody but the worker  *)
(* touches the list of writes, so its head is the request whose data       *)
(* WriteUsbIO carries - however long the list is and whatever else goes on.*)
(***************************************************************************)

\* No AbortIO is going on: nobody outside the worker holds the mutex.
NoAbort == mutex = Free /\ \A r \in Req : abort[r] = "none"

LEMMA NoAbortStep ==
    ASSUME Abortable = {}, TypeInv, NoAbort, [Next]_vars
    PROVE  NoAbort'
<1> USE DEF NoAbort, TypeInv, TypeOK, RequestsOK,
            listVars, workerVars, usbVars, clientVars, ghostVars
<1>1. CASE Worker
    BY <1>1 DEF Worker, UseFreedBase, TakeRequest, UnitPortEmpty, ReadBuffered,
       ReadSubmit, WriteAccept, AnswerAtOnce, WaitSignal, UsbPortDone, ReadReplied,
       ReadHead, ReadServe, ReadPart, WriteReplied, WriteNext, WriteSend, InterruptReplied,
       TakeNotification, LoopEnd
<1>2. ASSUME NEW r \in Req, Client(r)
      PROVE  NoAbort'
    BY <1>2 DEF Client, BeginQueued, BeginImmediate, BeginReturn, Collect
<1>3. ASSUME NEW r \in Req, Aborter(r)
      PROVE  NoAbort'
    BY <1>3 DEF Aborter, AbortLock, AbortRead, AbortWriteTail, AbortWaitIO,
       AbortWriteListed, AbortMissing, AbortReply, AbortOther
<1>4. CASE Host
    BY <1>4 DEF Host, UsbReadDone, UsbWriteDone, UsbInterruptDone, StackNotify, Expunge
<1>5. CASE UNCHANGED vars
    BY <1>5 DEF vars
<1> QED
    BY <1>1, <1>2, <1>3, <1>4, <1>5 DEF Next, Stopped

\* A step that leaves the writes alone: their list, the request WriteUsbIO
\* points at, the state of WriteUsbIO, and a worker about to send the next.
WritesAlone ==
    /\ UNCHANGED <<writeRequests, wio>>
    /\ usb'["W"] = usb["W"]
    /\ pc \in {"wnext", "wsend"} => pc' \in {"wnext", "wsend"}

\* The write whose data the worker is about to send is the oldest listed one.
SendReady == pc = "wsend" => writeRequests # <<>> /\ io = Head(writeRequests)

LEMMA AloneKeepsOwnership ==
    ASSUME WriteOwnership, WritesAlone
    PROVE  WriteOwnership'
    BY DEF WriteOwnership, WritesAlone

LEMMA WriteOwnershipStep ==
    ASSUME TypeInv, NoAbort, SendReady, WriteOwnership, [Next]_vars
    PROVE  WriteOwnership'
<1> USE DEF listVars, workerVars, usbVars, clientVars, ghostVars, NoWriteListed,
            ListWrite, NothingRead, RequestInput
<1>0. usb \in [Transfers -> {"idle", "flight", "replied"}] /\ "W" \in Transfers
    BY DEF TypeInv, TypeOK, TransfersOK, Transfers
<1>1. ASSUME NEW r \in Req, Client(r)
      PROVE  WriteOwnership'
    <2>1. WritesAlone
        BY <1>1 DEF Client, BeginQueued, BeginImmediate, BeginReturn, Collect, WritesAlone
    <2> QED
        BY <2>1, AloneKeepsOwnership
<1>2. ASSUME NEW r \in Req, Aborter(r)
      PROVE  WriteOwnership'
    <2>1. WritesAlone
        BY <1>2 DEF Aborter, AbortLock, AbortRead, AbortWriteTail, AbortWaitIO,
           AbortWriteListed, AbortMissing, AbortReply, AbortOther, NoAbort, WritesAlone
    <2> QED
        BY <2>1, AloneKeepsOwnership
<1>3. ASSUME NEW e \in {"ok", "usb"}, UsbWriteDone(e)
      PROVE  WriteOwnership'
    BY <1>0, <1>3 DEF UsbWriteDone, WriteOwnership
<1>4. CASE UsbInterruptDone \/ Expunge \/ (\E n \in 0..MaxPacket : UsbReadDone(n))
           \/ (\E n \in Notes : StackNotify(n))
    <2>1. WritesAlone
        BY <1>0, <1>4 DEF UsbReadDone, UsbInterruptDone, StackNotify, Expunge, WritesAlone
    <2> QED
        BY <2>1, AloneKeepsOwnership
<1>5. CASE UseFreedBase \/ TakeRequest \/ UnitPortEmpty \/ AnswerAtOnce \/ WaitSignal
           \/ UsbPortDone \/ ReadHead \/ TakeNotification \/ LoopEnd
    <2>1. WritesAlone
        BY <1>5 DEF UseFreedBase, TakeRequest, UnitPortEmpty, AnswerAtOnce, WaitSignal,
           UsbPortDone, ReadHead, TakeNotification, LoopEnd, AtWork, WritesAlone
    <2> QED
        BY <2>1, AloneKeepsOwnership
<1>6. CASE ReadBuffered \/ ReadSubmit \/ ReadReplied \/ ReadServe \/ ReadPart \/ InterruptReplied
    <2>1. WritesAlone
        BY <1>0, <1>6 DEF ReadBuffered, ReadSubmit, ReadReplied, ReadServe, ReadPart,
           InterruptReplied, TakeUsb, AtWork, WritesAlone
    <2> QED
        BY <2>1, AloneKeepsOwnership
<1>7. CASE WriteAccept
    <2>0. io \in Req /\ writeRequests \in Seq(Req) /\ pc = "dispatch"
        BY <1>7 DEF TypeInv, TypeOK, PortsOK, WorkerOK, WriteAccept, AtWork
    <2>1. CASE writeRequests = <<>>
        <3>1. usb'["W"] = "flight" /\ wio' = io /\ writeRequests' = Append(<<>>, io)
            BY <1>0, <1>7, <2>1 DEF WriteAccept, SendWrite
        <3> QED
            BY <2>0, <3>1, AppendProperties DEF WriteOwnership
    <2>2. CASE writeRequests # <<>>
        <3>1. UNCHANGED <<usb, wio>> /\ writeRequests' = Append(writeRequests, io)
            BY <1>7, <2>2 DEF WriteAccept
        <3>2. writeRequests' # <<>> /\ Head(writeRequests') = Head(writeRequests)
            BY <2>0, <2>2, <3>1, AppendProperties
        <3> QED
            BY <2>0, <2>2, <3>1, <3>2 DEF WriteOwnership
    <2> QED
        BY <2>1, <2>2
<1>8. CASE WriteReplied
    BY <1>0, <1>8 DEF WriteReplied, WriteOwnership
<1>9. CASE WriteNext
    BY <1>9 DEF WriteNext, AtWork, WriteOwnership
<1>10. CASE WriteSend
    <2>1. usb'["W"] = "flight" /\ wio' = io /\ UNCHANGED writeRequests /\ pc = "wsend"
        BY <1>0, <1>10 DEF WriteSend, AtWork, SendWrite
    <2> QED
        BY <2>1 DEF WriteOwnership, SendReady
<1>11. CASE UNCHANGED vars
    BY <1>11 DEF vars, WriteOwnership
<1> QED
    BY <1>1, <1>2, <1>3, <1>4, <1>5, <1>6, <1>7, <1>8, <1>9, <1>10, <1>11
       DEF Next, Worker, Host, Stopped

-----------------------------------------------------------------------------
(***************************************************************************)
(* The inductive invariant of the writes.  It survives the misuses that    *)
(* are left when nobody aborts, for these belong to the reads.             *)
(***************************************************************************)

\* What waits in the reply port has been replied, and waits there once.
Completions ==
    /\ IsInjective(usbPort)
    /\ \A x \in Transfers : x \in ToSet(usbPort) => usb[x] = "replied"

\* The request the worker copies to stays listed, and WriteUsbIO is at rest when
\* the worker is about to send the next write.
Handled ==
    /\ pc = "rcopy" => io \in ToSet(readRequests)
    /\ pc \in {"wnext", "wsend"} => usb["W"] = "idle"
    /\ SendReady

WriteInv ==
    /\ TypeInv /\ Marked /\ NoAbort /\ WriteOwnership
    /\ Placed /\ Sorted /\ Handled
    /\ fault = "none" => Completions

\* What the lists hold, as sets, and that AbortIO is not called.
LEMMA WriteFacts ==
    ASSUME Abortable = {}, WriteInv
    PROVE  /\ TypeInv /\ Marked /\ Placed /\ Sorted
           /\ \A r \in Req : ~Aborter(r)
           /\ \A r \in Req : (InPlaces(r) <=> Pending(r)) /\ InOnePlace(r)
           /\ \A r \in Req : Contains(readRequests, r) <=> r \in ToSet(readRequests)
           /\ writeRequests # <<>> => /\ Head(writeRequests) \in ToSet(writeRequests)
                                      /\ Head(writeRequests) \in Req
           /\ fault = "none" /\ usbPort # <<>> => usb[Head(usbPort)] = "replied"
           /\ ToSet(<<>>) = {}
<1>1. TypeInv /\ Marked /\ Placed /\ Sorted
    BY DEF WriteInv
<1>2. \A r \in Req : ~Aborter(r)
    BY DEF WriteInv, NoAbort, Aborter, AbortLock, AbortRead, AbortWriteTail,
       AbortWaitIO, AbortWriteListed, AbortMissing, AbortReply, AbortOther
<1>3. \A r \in Req : (InPlaces(r) <=> Pending(r)) /\ InOnePlace(r)
    BY DEF WriteInv, NoAbort, Placed, TakenOut
<1>4. ASSUME fault = "none", usbPort # <<>>
      PROVE  usb[Head(usbPort)] = "replied"
    <2>1. usbPort \in Seq(Transfers) /\ Completions
        BY <1>4 DEF WriteInv, TypeInv, TypeOK, PortsOK
    <2>2. Head(usbPort) \in ToSet(usbPort) /\ Head(usbPort) \in Transfers
        BY <1>4, <2>1, TailToSet, HeadTailProperties DEF Completions
    <2> QED
        BY <2>1, <2>2 DEF Completions
<1> QED
    BY <1>1, <1>2, <1>3, <1>4, HeldTypes, ListsShrink, SmallToSet

\* The request the worker copies to is a pending read that is listed.
LEMMA CopyFacts ==
    ASSUME Abortable = {}, WriteInv, pc = "rcopy"
    PROVE  /\ io \in Req /\ io \in ToSet(readRequests) /\ Contains(readRequests, io)
           /\ Pending(io) /\ cmd[io] = "read" /\ act[io] \in Nat
<1>1. io \in Req /\ io \in ToSet(readRequests) /\ act[io] \in Nat
    BY HeldTypes DEF WriteInv, Handled, TypeInv, TypeOK, RequestsOK
<1> QED
    BY <1>1, WriteFacts DEF Sorted, InPlaces

\* What the worker sends again without a misuse was idle, or has just been taken
\* from the reply port.
LEMMA CompletionsStep ==
    ASSUME Abortable = {}, WriteInv, [Next]_vars, fault' = "none"
    PROVE  Completions'
<1> USE DEF AtWork, TakeUsb, listVars, workerVars, usbVars, clientVars, ghostVars, Completions
<1>0. /\ Completions /\ fault = "none" /\ (\A r \in Req : ~Aborter(r))
      /\ usbPort \in Seq(Transfers) /\ act \in [Req -> Nat]
      /\ usb \in [Transfers -> {"idle", "flight", "replied"}]
      /\ "R" \in Transfers /\ "W" \in Transfers /\ "I" \in Transfers
      /\ (pc \in {"dispatch", "rcopy", "wsend"} => io \in Req)
    <2>1. fault = "none"
        BY FaultStops DEF vars
    <2> QED
        BY <2>1, WriteFacts
           DEF WriteInv, TypeInv, TypeOK, PortsOK, TransfersOK, RequestsOK, WorkerOK, Transfers
\* The transfer that ends was not in the port.
<1>1. ASSUME NEW x \in Transfers, usb[x] = "flight", usbPort' = Append(usbPort, x),
             usb' = [usb EXCEPT ![x] = "replied"]
      PROVE  Completions'
    <2>1. x \notin ToSet(usbPort)
        BY <1>0, <1>1
    <2>2. ToSet(usbPort') = ToSet(usbPort) \cup {x} /\ IsInjective(usbPort')
        BY <1>0, <1>1, <2>1, AppendToSet, AppendKeepsInjective
    <2> QED
        BY <1>0, <1>1, <2>2
\* The transfer whose message is taken is no longer in the port.
<1>2. ASSUME NEW x \in Transfers, TakeUsb(x),
             \A y \in Transfers : y # x => usb'[y] = usb[y]
      PROVE  Completions'
    <2>1. ToSet(usbPort') = ToSet(usbPort) \ {x} /\ IsInjective(usbPort')
        BY <1>0, <1>2, TailToSet
    <2> QED
        BY <1>0, <1>2, <2>1
\* A transfer that is sent was idle.
<1>3. ASSUME NEW x \in Transfers, usb[x] = "idle", UNCHANGED usbPort,
             usb' \in {usb, [usb EXCEPT ![x] = "flight"]}
      PROVE  Completions'
    BY <1>0, <1>3
<1>4. CASE UNCHANGED <<usb, usbPort>>
    BY <1>0, <1>4
<1>5. ASSUME NEW r \in Req, Client(r)
      PROVE  Completions'
    BY <1>4, <1>5 DEF Client, BeginQueued, BeginReturn, BeginImmediate, Collect
<1>6. CASE Host
    BY <1>0, <1>1, <1>4, <1>6
       DEF Host, UsbReadDone, UsbWriteDone, UsbInterruptDone, StackNotify, Expunge
<1>7. CASE ReadReplied \/ WriteReplied \/ InterruptReplied
    BY <1>0, <1>2, <1>7 DEF ReadReplied, WriteReplied, InterruptReplied
<1>8. CASE ReadBuffered \/ ReadSubmit
    <2>1. usb' = usb \/ (usb' = [usb EXCEPT !["R"] = "flight"] /\ fault' = SendFault("R"))
        BY <1>8 DEF ReadBuffered, ReadSubmit, RequestInput
    <2>2. UNCHANGED usbPort
        BY <1>8 DEF ReadBuffered, ReadSubmit
    <2> QED
        BY <1>0, <1>3, <1>4, <2>1, <2>2 DEF SendFault
<1>9. CASE ReadServe
    <2>1. io \in Req /\ act[io] \in Nat
        BY <1>0, <1>9 DEF ReadServe
    <2>2. CASE act[io] > 0
        BY <1>9, <2>2 DEF ReadServe
    <2>3. CASE act[io] = 0
        <3>1. usb' = usb \/ (usb' = [usb EXCEPT !["R"] = "flight"] /\ fault' = SendFault("R"))
            BY <1>9, <2>3 DEF ReadServe, RequestInput
        <3>2. UNCHANGED usbPort
            BY <1>9 DEF ReadServe
        <3> QED
            BY <1>0, <1>3, <1>4, <3>1, <3>2 DEF SendFault
    <2> QED
        BY <2>1, <2>2, <2>3
<1>10. CASE ReadPart
    <2>1. usb' \in {usb, [usb EXCEPT !["R"] = "flight"]} /\ UNCHANGED usbPort
        BY <1>10 DEF ReadPart, RequestInput
    <2>2. fault' = SendFault("R")
        BY <1>10 DEF ReadPart
    <2> QED
        BY <1>0, <1>3, <2>1, <2>2 DEF SendFault
<1>11. CASE WriteAccept
    <2>1. writeRequests = <<>> => usb["W"] = "idle"
        BY DEF WriteInv, WriteOwnership
    <2> QED
        BY <1>0, <1>3, <1>4, <1>11, <2>1 DEF WriteAccept, NoWriteListed, SendWrite
<1>12. CASE WriteSend
    <2>1. usb["W"] = "idle"
        BY <1>12 DEF WriteInv, Handled, WriteSend
    <2> QED
        BY <1>0, <1>3, <1>4, <1>12, <2>1 DEF WriteSend, SendWrite
<1>13. CASE UseFreedBase \/ TakeRequest \/ UnitPortEmpty \/ AnswerAtOnce \/ WaitSignal
            \/ UsbPortDone \/ ReadHead \/ WriteNext \/ TakeNotification \/ LoopEnd
    BY <1>4, <1>13 DEF UseFreedBase, TakeRequest, UnitPortEmpty, AnswerAtOnce, WaitSignal,
       UsbPortDone, ReadHead, WriteNext, TakeNotification, LoopEnd
<1>14. CASE UNCHANGED vars
    BY <1>4, <1>14 DEF vars
<1> QED
    BY <1>0, <1>5, <1>6, <1>7, <1>8, <1>9, <1>10, <1>11, <1>12, <1>13, <1>14
       DEF Next, Worker, Stopped

\* Only the worker takes reads out of the list and sends WriteUsbIO.
LEMMA HandledStep ==
    ASSUME Abortable = {}, WriteInv, [Next]_vars
    PROVE  Handled'
<1> USE DEF AtWork, TakeUsb, listVars, workerVars, usbVars, clientVars, ghostVars, Handled,
            SendReady
<1>0. /\ Handled /\ (\A r \in Req : ~Aborter(r)) /\ "R" \in Transfers /\ "W" \in Transfers
      /\ usb \in [Transfers -> {"idle", "flight", "replied"}] /\ readRequests \in Seq(Req)
    BY WriteFacts DEF WriteInv, TypeInv, TypeOK, TransfersOK, PortsOK, Transfers
<1>1. CASE pc' \notin {"rcopy", "wnext", "wsend"}
    BY <1>1
<1>2. CASE /\ UNCHANGED <<pc, io, readRequests, writeRequests>>
           /\ usb["W"] = "idle" => usb'["W"] = "idle"
    BY <1>0, <1>2
<1>3. ASSUME NEW r \in Req, Client(r)
      PROVE  Handled'
    BY <1>2, <1>3 DEF Client, BeginQueued, BeginReturn, BeginImmediate, Collect
<1>4. CASE Host
    BY <1>0, <1>2, <1>4
       DEF Host, UsbReadDone, UsbWriteDone, UsbInterruptDone, StackNotify, Expunge
<1>5. CASE ReadHead
    <2>1. readRequests # <<>> => Head(readRequests) \in ToSet(readRequests)
        BY <1>0, TailToSet DEF WriteInv, Placed
    <2> QED
        BY <1>0, <1>5, <2>1 DEF ReadHead
<1>6. CASE ReadServe \/ ReadPart
    <2>1. pc' \in {"rhead", "usb"}
        BY <1>6 DEF ReadServe, ReadPart
    <2> QED
        BY <1>1, <2>1
<1>7. CASE WriteReplied
    BY <1>0, <1>7 DEF WriteReplied
<1>8. CASE UseFreedBase
    BY <1>2, <1>8 DEF UseFreedBase
<1>9. CASE TakeRequest \/ UnitPortEmpty \/ ReadBuffered \/ ReadSubmit \/ WriteAccept
           \/ AnswerAtOnce \/ WaitSignal \/ UsbPortDone \/ ReadReplied \/ InterruptReplied
           \/ WriteSend \/ TakeNotification \/ LoopEnd
    <2>1. pc' \in {"dispatch", "wait", "drain", "exit", "usb", "notify", "rhead"}
        BY <1>9 DEF TakeRequest, UnitPortEmpty, ReadBuffered, ReadSubmit, WriteAccept,
           AnswerAtOnce, WaitSignal, UsbPortDone, ReadReplied, InterruptReplied, WriteSend,
           TakeNotification, LoopEnd
    <2> QED
        BY <1>1, <2>1
<1>10. CASE WriteNext
    BY <1>0, <1>10 DEF WriteNext
<1>11. CASE UNCHANGED vars
    BY <1>2, <1>11 DEF vars
<1> QED
    BY <1>0, <1>3, <1>4, <1>5, <1>6, <1>7, <1>8, <1>9, <1>10, <1>11 DEF Next, Worker, Stopped

LEMMA WriteStep ==
    ASSUME Abortable = {}, WriteInv, [Next]_vars
    PROVE  WriteInv'
<1>1. TypeInv' /\ NoAbort' /\ WriteOwnership'
    BY TypeStep, NoAbortStep, WriteOwnershipStep DEF WriteInv, Handled
<1>2. Marked'
    BY MarkedStep DEF WriteInv, HeldInv
<1>3. Regular
    BY WriteFacts DEF Regular, WriteInv, Handled
<1>4. Placed' /\ Sorted'
    BY <1>3, PlacedStep, SortedStep DEF WriteInv
<1>5. Handled' /\ (fault' = "none" => Completions')
    BY HandledStep, CompletionsStep
<1> QED
    BY <1>1, <1>2, <1>4, <1>5 DEF WriteInv

LEMMA WriteInit == Init => WriteInv
<1> SUFFICES ASSUME Init PROVE WriteInv
    OBVIOUS
<1>1. TypeInv /\ Marked /\ Placed /\ Sorted
    BY TypeInit, PlacedInit
<1>2. NoAbort /\ WriteOwnership /\ Handled
    BY DEF Init, NoAbort, WriteOwnership, Handled, SendReady, Transfers
<1>3. Completions
    BY SmallToSet DEF Init, Completions
<1> QED
    BY <1>1, <1>2, <1>3 DEF WriteInv

LEMMA WriteAlways ==
    ASSUME Abortable = {}
    PROVE  Spec => []WriteInv
<1>1. WriteInv /\ [Next]_vars => WriteInv'
    BY WriteStep
<1> QED
    BY <1>1, WriteInit, PTL DEF Spec

\* If nobody calls AbortIO, WriteUsbIO always carries the data of the oldest
\* listed write, and no listed write is forgotten by the worker.
THEOREM WritesOwned ==
    ASSUME Abortable = {}
    PROVE  Spec => []WriteOwnership
<1>1. WriteInv => WriteOwnership
    BY DEF WriteInv
<1> QED
    BY <1>1, WriteAlways, PTL

\* As long as nobody calls AbortIO, only the service of reads and the use of the
\* device base after an expunge misuse exec: accepting, sending and answering
\* writes never does, nor answering at once, whatever reads go wrong beside.
OnlyReadsMisuse ==
    [][fault' # fault =>
          \/ fault' = "used after expunge" /\ expunged
          \/ /\ pc \in {"dispatch", "rcopy"} /\ cmd[io] = "read"
             /\ fault' \in {"sent while in use", "copied past the end"}]_vars

\* If nobody calls AbortIO, no step of a write misuses exec: a misuse is one of
\* the worker serving a read, or its use of the device base after an expunge.
THEOREM MisuseByReads ==
    ASSUME Abortable = {}
    PROVE  Spec => OnlyReadsMisuse
<1> USE DEF AtWork, TakeUsb, listVars, workerVars, usbVars, clientVars, ghostVars
<1>1. ASSUME WriteInv, [Next]_vars, fault' # fault
      PROVE  \/ fault' = "used after expunge" /\ expunged
             \/ /\ pc \in {"dispatch", "rcopy"} /\ cmd[io] = "read"
                /\ fault' \in {"sent while in use", "copied past the end"}
    <2> DEFINE Goal == \/ fault' = "used after expunge" /\ expunged
                       \/ /\ pc \in {"dispatch", "rcopy"} /\ cmd[io] = "read"
                          /\ fault' \in {"sent while in use", "copied past the end"}
    <2>0. /\ fault = "none" /\ (\A r \in Req : ~Aborter(r))
          /\ ~Walked(Reads) /\ ~Walked(Writes)
        <3>1. ~Walked(Reads) /\ ~Walked(Writes)
            BY <1>1 DEF WriteInv, NoAbort, Walked
        <3> QED
            BY <1>1, <3>1, FaultStops, WriteFacts DEF vars
    <2>1. ASSUME NEW r \in Req, Client(r)
          PROVE  FALSE
        BY <1>1, <2>1 DEF Client, BeginQueued, BeginReturn, BeginImmediate, Collect
    <2>2. ~Host
        BY <1>1 DEF Host, UsbReadDone, UsbWriteDone, UsbInterruptDone, StackNotify, Expunge
    <2>3. CASE UseFreedBase
        BY <2>3 DEF UseFreedBase
    <2>4. ~AnswerAtOnce
        BY <1>1, <2>0, HandFacts DEF AnswerAtOnce, WriteInv
    <2>5. CASE ReadBuffered \/ ReadSubmit
        <3>1. pc = "dispatch" /\ cmd[io] = "read"
            BY <2>5 DEF ReadBuffered, ReadSubmit
        <3>2. fault' = ReplyFault(io) \/ fault' = SendFault("R")
            BY <2>5 DEF ReadBuffered, ReadSubmit
        <3> QED
            BY <1>1, <2>0, <3>1, <3>2, HandFacts DEF SendFault, WriteInv
    <2>6. ~WriteAccept
        BY <1>1, <2>0 DEF WriteAccept, NoWriteListed, SendWrite, SendFault, WriteInv, WriteOwnership
    <2>7. CASE ReadServe \/ ReadPart
        <3>1. pc = "rcopy"
            BY <2>7 DEF ReadServe, ReadPart
        <3>2. cmd[io] = "read" /\ Contains(readRequests, io) /\ act[io] \in Nat
            BY <1>1, <3>1, CopyFacts
        <3>3. CASE ReadPart
            <4>1. fault' = SendFault("R")
                BY <3>2, <3>3 DEF ReadPart
            <4> QED
                BY <1>1, <2>0, <3>1, <3>2, <4>1 DEF SendFault
        <3>4. CASE ReadServe
            <4>1. CASE act[io] > 0
                <5>0. ~(act[io] = 0)
                    BY <3>2, <4>1
                <5>1. fault' = "copied past the end"
                    BY <4>1, <5>0, <3>4, Zenon DEF ReadServe
                <5> QED
                    BY <3>1, <3>2, <5>1
            <4>2. CASE act[io] = 0
                <5>1. fault' \in {"none", SendFault("R")}
                    BY <2>0, <3>2, <3>4, <4>2 DEF ReadServe
                <5> QED
                    BY <1>1, <2>0, <3>1, <3>2, <5>1 DEF SendFault
            <4>3. act[io] > 0 \/ act[io] = 0
                BY <3>2
            <4> QED
                BY <4>1, <4>2, <4>3
        <3> QED
            BY <2>7, <3>3, <3>4
    <2>8. ~WriteReplied
        <3> SUFFICES ASSUME WriteReplied PROVE FALSE
            OBVIOUS
        <3>1. usb["W"] = "replied"
            BY <1>1, <2>0, WriteFacts DEF WriteReplied
        <3>2. writeRequests # <<>>
            BY <1>1, <3>1 DEF WriteInv, WriteOwnership
        <3>3. ~replied[Head(writeRequests)]
            BY <1>1, <3>2, WriteFacts DEF InPlaces, Pending
        <3> QED
            BY <1>1, <2>0, <3>2, <3>3 DEF WriteReplied
    <2>9. ~WriteSend
        BY <1>1, <2>0 DEF WriteSend, SendWrite, SendFault, WriteInv, Handled
    <2>10. ~(TakeRequest \/ UnitPortEmpty \/ WaitSignal \/ UsbPortDone \/ ReadHead
             \/ WriteNext \/ TakeNotification \/ LoopEnd \/ UNCHANGED vars)
        BY <1>1 DEF TakeRequest, UnitPortEmpty, WaitSignal, UsbPortDone, ReadHead,
           WriteNext, TakeNotification, LoopEnd, vars
    <2>11. ~(ReadReplied \/ InterruptReplied)
        BY <1>1, <2>0, WriteFacts DEF ReadReplied, InterruptReplied, ResendFault
    <2> QED
        BY <1>1, <2>0, <2>1, <2>2, <2>3, <2>4, <2>5, <2>6, <2>7, <2>8, <2>9, <2>10,
           <2>11 DEF Next, Worker, Stopped
<1>2. WriteInv /\ [Next]_vars =>
         [fault' # fault =>
             \/ fault' = "used after expunge" /\ expunged
             \/ /\ pc \in {"dispatch", "rcopy"} /\ cmd[io] = "read"
                /\ fault' \in {"sent while in use", "copied past the end"}]_vars
    BY <1>1
<1> QED
    BY <1>2, WriteAlways, PTL DEF Spec, OnlyReadsMisuse

-----------------------------------------------------------------------------
(***************************************************************************)
(* Answers to writes.                                                      *)
(***************************************************************************)

\* A completed WriteUsbIO holds the result of the transfer of its own request.
Carried == usb["W"] = "replied" => xfer[wio] = IF werr = "ok" THEN "ok" ELSE "failed"

AnswerInv == WriteInv /\ Carried /\ ReplyReflectsTransfer

LEMMA AnswerStep ==
    ASSUME Abortable = {}, AnswerInv, [Next]_vars
    PROVE  Carried' /\ ReplyReflectsTransfer'
<1> USE DEF AtWork, TakeUsb, listVars, workerVars, usbVars, clientVars, ghostVars,
            Carried, ReplyReflectsTransfer
<1>0. /\ WriteInv /\ TypeInv /\ Marked /\ Placed /\ Sorted /\ Carried /\ ReplyReflectsTransfer /\ (\A s \in Req : ~Aborter(s))
      /\ err \in [Req -> Errors] /\ replied \in [Req -> BOOLEAN] /\ cmd \in [Req -> Commands]
      /\ client \in [Req -> {"idle", "putting", "out"}]
      /\ xfer \in [Req -> {"none", "flight", "ok", "failed"}]
      /\ usb \in [Transfers -> {"idle", "flight", "replied"}] /\ "W" \in Transfers
      /\ "R" \in Transfers /\ "I" \in Transfers
    BY WriteFacts
       DEF AnswerInv, WriteInv, TypeInv, TypeOK, RequestsOK, TransfersOK, GhostsOK, Transfers
\* The request WriteUsbIO carries is a pending write.
<1>1. usb["W"] # "idle" =>
         /\ wio \in Req /\ Pending(wio) /\ writeRequests # <<>> /\ Head(writeRequests) = wio
    BY <1>0, WriteFacts DEF WriteInv, WriteOwnership, InPlaces
<1>2. CASE UNCHANGED <<client, cmd, replied, err, xfer, wio, werr>> /\ usb'["W"] = usb["W"]
    BY <1>0, <1>2
<1>3. ASSUME NEW r \in Req, Client(r)
      PROVE  Carried' /\ ReplyReflectsTransfer'
    <2>1. /\ UNCHANGED <<usb, wio, werr>>
          /\ \A s \in Req : s # r => /\ client'[s] = client[s] /\ cmd'[s] = cmd[s]
                                     /\ err'[s] = err[s] /\ replied'[s] = replied[s]
                                     /\ xfer'[s] = xfer[s]
        BY <1>0, <1>3 DEF Client, BeginQueued, BeginReturn, BeginImmediate, Collect
    <2>2. CASE BeginReturn(r)
        BY <1>0, <2>2 DEF BeginReturn
    <2>3. CASE ~BeginReturn(r)
        <3>1. ~Pending(r)
            BY <1>0, <1>3, <2>3
               DEF Client, BeginQueued, BeginImmediate, Collect, Pending, Marked
        <3>2. client'[r] = "idle" \/ cmd'[r] \in Immediate \/ ~replied'[r]
            BY <1>0, <1>3, <2>3 DEF Client, BeginQueued, BeginImmediate, Collect
        <3> QED
            BY <1>0, <1>1, <2>1, <3>1, <3>2 DEF Immediate
    <2> QED
        BY <2>2, <2>3
<1>4. ASSUME NEW e \in {"ok", "usb"}, UsbWriteDone(e)
      PROVE  Carried' /\ ReplyReflectsTransfer'
    BY <1>0, <1>1, <1>4 DEF UsbWriteDone, Pending
<1>5. CASE UsbInterruptDone \/ Expunge \/ (\E n \in 0..MaxPacket : UsbReadDone(n))
           \/ (\E n \in Notes : StackNotify(n))
    BY <1>0, <1>2, <1>5 DEF UsbReadDone, UsbInterruptDone, StackNotify, Expunge
\* A write that is sent is pending.
<1>6. ASSUME NEW r \in Req, Pending(r), usb' = [usb EXCEPT !["W"] = "flight"],
             xfer' = [xfer EXCEPT ![r] = "flight"], UNCHANGED <<client, cmd, replied, err>>
      PROVE  Carried' /\ ReplyReflectsTransfer'
    BY <1>0, <1>6 DEF Pending
<1>7. CASE WriteAccept
    <2>1. io \in Req /\ Pending(io)
        BY <1>0, <1>7, HandFacts DEF WriteAccept
    <2> QED
        BY <1>2, <1>6, <1>7, <2>1 DEF WriteAccept, SendWrite
<1>8. CASE WriteSend
    <2>1. writeRequests # <<>> /\ io = Head(writeRequests)
        BY <1>0, <1>8 DEF WriteInv, Handled, SendReady, WriteSend
    <2>2. io \in Req /\ Pending(io)
        BY <1>0, <2>1, WriteFacts DEF InPlaces
    <2> QED
        BY <1>6, <1>8, <2>2 DEF WriteSend, SendWrite
<1>9. CASE WriteReplied
    <2>1. usb["W"] = "replied"
        BY <1>0, <1>9, WriteFacts DEF WriteReplied
    <2>2. wio \in Req /\ writeRequests # <<>> /\ Head(writeRequests) = wio
        BY <1>1, <2>1
    <2>3. /\ err' = [err EXCEPT ![wio] = werr] /\ replied' = [replied EXCEPT ![wio] = TRUE]
          /\ UNCHANGED <<client, cmd, xfer>> /\ usb'["W"] = "idle"
        BY <1>0, <1>9, <2>2 DEF WriteReplied, WriteResult
    <2> QED
        BY <1>0, <2>1, <2>2, <2>3
\* What is answered without a transfer is no write.
<1>10. ASSUME io \in Req, cmd[io] # "write", UNCHANGED <<client, cmd, xfer, wio, werr>>,
              usb'["W"] = usb["W"],
              \A s \in Req : s # io => err'[s] = err[s] /\ replied'[s] = replied[s]
       PROVE  Carried' /\ ReplyReflectsTransfer'
    BY <1>0, <1>10
<1>11. CASE AnswerAtOnce \/ ReadBuffered
    <2>1. io \in Req /\ cmd[io] # "write"
        BY <1>0, <1>11, HandFacts DEF AnswerAtOnce, ReadBuffered
    <2> QED
        BY <1>0, <1>10, <1>11, <2>1 DEF AnswerAtOnce, ReadBuffered, RequestInput
<1>12. CASE ReadServe \/ ReadPart
    <2>1. pc = "rcopy"
        BY <1>12 DEF ReadServe, ReadPart
    <2>2. io \in Req /\ cmd[io] = "read"
        BY <1>0, <2>1, CopyFacts
    <2>3. /\ UNCHANGED <<client, cmd, xfer, wio, werr>> /\ usb'["W"] = usb["W"]
          /\ \A s \in Req : s # io => err'[s] = err[s] /\ replied'[s] = replied[s]
        BY <1>0, <1>12 DEF ReadServe, ReadPart, RequestInput
    <2> QED
        BY <1>10, <2>2, <2>3
<1>13. CASE ReadSubmit \/ ReadReplied \/ InterruptReplied
    BY <1>0, <1>2, <1>13 DEF ReadSubmit, ReadReplied, InterruptReplied, RequestInput
<1>14. CASE UseFreedBase \/ TakeRequest \/ UnitPortEmpty \/ WaitSignal \/ UsbPortDone
            \/ ReadHead \/ WriteNext \/ TakeNotification \/ LoopEnd
    BY <1>2, <1>14 DEF UseFreedBase, TakeRequest, UnitPortEmpty, WaitSignal, UsbPortDone,
       ReadHead, WriteNext, TakeNotification, LoopEnd
<1>15. CASE UNCHANGED vars
    BY <1>2, <1>15 DEF vars
<1> QED
    BY <1>0, <1>3, <1>4, <1>5, <1>7, <1>8, <1>9, <1>11, <1>12, <1>13, <1>14, <1>15
       DEF Next, Worker, Host, Stopped

\* A write is answered with success exactly if its own data went over the wire,
\* however many writes are queued and whichever transfers fail.
THEOREM AnswersTrue ==
    ASSUME Abortable = {}
    PROVE  Spec => []ReplyReflectsTransfer
<1>1. Init => AnswerInv
    BY WriteInit DEF AnswerInv, Init, Carried, ReplyReflectsTransfer, Transfers
<1>2. AnswerInv /\ [Next]_vars => AnswerInv'
    BY AnswerStep, WriteStep DEF AnswerInv
<1>3. AnswerInv => ReplyReflectsTransfer
    BY DEF AnswerInv
<1> QED
    BY <1>1, <1>2, <1>3, PTL DEF Spec

-----------------------------------------------------------------------------
\* Elements that stand one before the other are in the sequence.
LEMMA PrecedesInSet ==
    ASSUME NEW S, NEW s \in Seq(S), NEW a, NEW b, Precedes(s, a, b)
    PROVE  a \in ToSet(s) /\ b \in ToSet(s)
    BY DEF Precedes, ToSet

LEMMA PrecedesAppend ==
    ASSUME NEW S, NEW s \in Seq(S), NEW x, NEW a, NEW b
    PROVE  /\ Precedes(s, a, b) => Precedes(Append(s, x), a, b)
           /\ a \in ToSet(s) => Precedes(Append(s, x), a, x)
           /\ Precedes(Append(s, x), a, b) => Precedes(s, a, b) \/ (a \in ToSet(s) /\ b = x)
<1> DEFINE t == Append(s, x)
<1>1. /\ DOMAIN s = 1..Len(s) /\ Len(s) \in Nat /\ Len(t) = Len(s) + 1
      /\ \A i \in 1..Len(s) : t[i] = s[i]
      /\ t[Len(s) + 1] = x
    OBVIOUS
<1> HIDE DEF t
<1>2. Precedes(s, a, b) => Precedes(t, a, b)
    <2> SUFFICES ASSUME NEW i \in 1..Len(s), NEW j \in 1..Len(s), i < j, s[i] = a, s[j] = b
                 PROVE  Precedes(t, a, b)
        BY DEF Precedes
    <2>1. i \in 1..Len(t) /\ j \in 1..Len(t) /\ t[i] = a /\ t[j] = b
        BY <1>1
    <2> QED
        BY <2>1 DEF Precedes
<1>3. a \in ToSet(s) => Precedes(t, a, x)
    <2> SUFFICES ASSUME NEW i \in 1..Len(s), s[i] = a
                 PROVE  Precedes(t, a, x)
        BY <1>1 DEF ToSet
    <2>1. i \in 1..Len(t) /\ Len(s) + 1 \in 1..Len(t) /\ i < Len(s) + 1 /\ t[i] = a
        BY <1>1
    <2> QED
        BY <1>1, <2>1 DEF Precedes
<1>4. Precedes(t, a, b) => Precedes(s, a, b) \/ (a \in ToSet(s) /\ b = x)
    <2> SUFFICES ASSUME NEW i \in 1..Len(t), NEW j \in 1..Len(t), i < j, t[i] = a, t[j] = b
                 PROVE  Precedes(s, a, b) \/ (a \in ToSet(s) /\ b = x)
        BY DEF Precedes
    <2>1. i \in 1..Len(s) /\ s[i] = a
        BY <1>1
    <2>2. CASE j = Len(s) + 1
        BY <1>1, <2>1, <2>2 DEF ToSet
    <2>3. CASE j \in 1..Len(s)
        <3>1. s[j] = b
            BY <1>1, <2>3
        <3> QED
            BY <2>1, <2>3, <3>1 DEF Precedes
    <2> QED
        BY <1>1, <2>2, <2>3
<1> QED
    BY <1>2, <1>3, <1>4 DEF t

LEMMA PrecedesTail ==
    ASSUME NEW S, NEW s \in Seq(S), s # <<>>, IsInjective(s), NEW a, NEW b
    PROVE  /\ Precedes(Tail(s), a, b) => Precedes(s, a, b)
           /\ Precedes(s, a, b) => b # Head(s)
           /\ Precedes(s, a, b) /\ a # Head(s) => Precedes(Tail(s), a, b)
           /\ b \in ToSet(s) /\ b # Head(s) => Precedes(s, Head(s), b)
<1> DEFINE t == Tail(s)
<1>1. /\ DOMAIN s = 1..Len(s) /\ Len(s) \in Nat \ {0} /\ Len(t) = Len(s) - 1
      /\ \A i \in 1..Len(t) : t[i] = s[i + 1]
      /\ Head(s) = s[1] /\ 1 \in 1..Len(s)
    OBVIOUS
<1> HIDE DEF t
<1>2. Precedes(t, a, b) => Precedes(s, a, b)
    <2> SUFFICES ASSUME NEW i \in 1..Len(t), NEW j \in 1..Len(t), i < j, t[i] = a, t[j] = b
                 PROVE  Precedes(s, a, b)
        BY DEF Precedes
    <2>1. i + 1 \in 1..Len(s) /\ j + 1 \in 1..Len(s) /\ i + 1 < j + 1
          /\ s[i + 1] = a /\ s[j + 1] = b
        BY <1>1
    <2> QED
        BY <2>1 DEF Precedes
<1>3. ASSUME NEW i \in 1..Len(s), NEW j \in 1..Len(s), i < j, s[i] = a, s[j] = b
      PROVE  b # Head(s) /\ (a # Head(s) => Precedes(t, a, b))
    <2>1. b # Head(s)
        BY <1>1, <1>3 DEF IsInjective
    <2>2. ASSUME a # Head(s)
          PROVE  Precedes(t, a, b)
        <3>1. i # 1
            BY <1>1, <1>3, <2>2
        <3>2. /\ i - 1 \in 1..Len(t) /\ j - 1 \in 1..Len(t) /\ i - 1 < j - 1
              /\ (i - 1) + 1 = i /\ (j - 1) + 1 = j
            BY <1>1, <1>3, <3>1
        <3>3. t[i - 1] = a /\ t[j - 1] = b
            BY <1>1, <1>3, <3>2
        <3> QED
            BY <3>2, <3>3 DEF Precedes
    <2> QED
        BY <2>1, <2>2
<1>4. ASSUME b \in ToSet(s), b # Head(s)
      PROVE  Precedes(s, Head(s), b)
    <2>1. PICK j \in 1..Len(s) : s[j] = b
        BY <1>1, <1>4 DEF ToSet
    <2>2. 1 < j
        BY <1>1, <1>4, <2>1
    <2> QED
        BY <1>1, <2>1, <2>2 DEF Precedes
<1>5. Precedes(s, a, b) => b # Head(s) /\ (a # Head(s) => Precedes(t, a, b))
    BY <1>3 DEF Precedes
<1> QED
    BY <1>2, <1>4, <1>5 DEF t

\* Taking out what is not there, and taking out the head.
LEMMA WithoutHead ==
    ASSUME NEW S, NEW s \in Seq(S), IsInjective(s), NEW x
    PROVE  /\ x \notin ToSet(s) => Without(s, x) = s
           /\ s # <<>> /\ Head(s) = x => Without(s, x) = Tail(s)
<1>1. x \notin ToSet(s) => Without(s, x) = s
    BY ContainsToSet DEF Without
<1>2. ASSUME s # <<>>, Head(s) = x
      PROVE  Without(s, x) = Tail(s)
    <2>1. /\ DOMAIN s = 1..Len(s) /\ Len(s) \in Nat \ {0} /\ s[1] = x /\ 1 \in 1..Len(s)
        BY <1>2
    <2>2. Contains(s, x)
        BY <2>1 DEF Contains
    <2>3. (CHOOSE i \in 1..Len(s) : s[i] = x) = 1
        BY <2>1 DEF IsInjective
    <2>4. Without(s, x) = SubSeq(s, 1, 1 - 1) \o SubSeq(s, 1 + 1, Len(s))
        BY <2>2, <2>3 DEF Without, RemoveAt
    <2>5. SubSeq(s, 1, 1 - 1) = <<>> /\ SubSeq(s, 1 + 1, Len(s)) = Tail(s)
        BY <2>1
    <2>6. Tail(s) \in Seq(S)
        BY <1>2
    <2> QED
        BY <2>4, <2>5, <2>6
<1> QED
    BY <1>1, <1>2

\* Two sequences one behind the other.
LEMMA ConcatOrder ==
    ASSUME NEW S, NEW s \in Seq(S), NEW t \in Seq(S), NEW a, NEW b
    PROVE  /\ s \o t \in Seq(S) /\ ToSet(s \o t) = ToSet(s) \cup ToSet(t)
           /\ Precedes(s, a, b) => Precedes(s \o t, a, b)
           /\ Precedes(t, a, b) => Precedes(s \o t, a, b)
           /\ a \in ToSet(s) /\ b \in ToSet(t) => Precedes(s \o t, a, b)
<1> DEFINE u == s \o t
           m == Len(s)
           n == Len(t)
<1>1. /\ u \in Seq(S) /\ Len(u) = m + n /\ m \in Nat /\ n \in Nat
      /\ DOMAIN s = 1..m /\ DOMAIN t = 1..n /\ DOMAIN u = 1..(m + n)
      /\ \A i \in 1..m : i \in 1..(m + n) /\ u[i] = s[i]
    BY ConcatProperties, LenProperties
<1>2. \A i \in 1..n : m + i \in 1..(m + n) /\ u[m + i] = t[i]
    <2> SUFFICES ASSUME NEW i \in 1..n
                 PROVE  m + i \in 1..(m + n) /\ u[m + i] = t[i]
        OBVIOUS
    <2>1. m + i \in 1..(m + n) /\ ~(m + i <= m) /\ (m + i) - m = i
        BY <1>1
    <2> QED
        BY <2>1, ConcatProperties
<1> HIDE DEF u, m, n
<1>3. ToSet(s) \subseteq ToSet(u) /\ ToSet(t) \subseteq ToSet(u)
    BY <1>1, <1>2 DEF ToSet
<1>4. ToSet(u) \subseteq ToSet(s) \cup ToSet(t)
    <2> SUFFICES ASSUME NEW k \in 1..(m + n)
                 PROVE  u[k] \in ToSet(s) \cup ToSet(t)
        BY <1>1 DEF ToSet
    <2>1. CASE k \in 1..m
        BY <1>1, <2>1 DEF ToSet
    <2>2. CASE k \notin 1..m
        <3>1. k - m \in 1..n /\ m + (k - m) = k
            BY <1>1, <2>2
        <3> QED
            BY <1>1, <1>2, <3>1 DEF ToSet
    <2> QED
        BY <2>1, <2>2
<1>5. Precedes(s, a, b) => Precedes(u, a, b)
    <2> SUFFICES ASSUME NEW i \in 1..m, NEW j \in 1..m, i < j, s[i] = a, s[j] = b
                 PROVE  Precedes(u, a, b)
        BY DEF Precedes, m
    <2> QED
        BY <1>1 DEF Precedes
<1>6. Precedes(t, a, b) => Precedes(u, a, b)
    <2> SUFFICES ASSUME NEW i \in 1..n, NEW j \in 1..n, i < j, t[i] = a, t[j] = b
                 PROVE  Precedes(u, a, b)
        BY DEF Precedes, n
    <2>1. m + i < m + j
        BY <1>1
    <2> QED
        BY <1>1, <1>2, <2>1 DEF Precedes
<1>7. a \in ToSet(s) /\ b \in ToSet(t) => Precedes(u, a, b)
    <2> SUFFICES ASSUME NEW i \in 1..m, NEW j \in 1..n, s[i] = a, t[j] = b
                 PROVE  Precedes(u, a, b)
        BY <1>1 DEF ToSet
    <2>1. i < m + j
        BY <1>1
    <2> QED
        BY <1>1, <1>2, <2>1 DEF Precedes
<1> QED
    BY <1>1, <1>3, <1>4, <1>5, <1>6, <1>7 DEF u

LEMMA ConcatToSet ==
    ASSUME NEW S, NEW s \in Seq(S), NEW t \in Seq(S)
    PROVE  s \o t \in Seq(S) /\ ToSet(s \o t) = ToSet(s) \cup ToSet(t)
<1>1. ASSUME NEW a, NEW b
      PROVE  s \o t \in Seq(S) /\ ToSet(s \o t) = ToSet(s) \cup ToSet(t)
    BY ConcatOrder, Zenon
<1> QED
    BY <1>1, Zenon

-----------------------------------------------------------------------------
(***************************************************************************)
(* The order in which the driver will send the writes it holds: those of   *)
(* the list, then the one in hand, then those of the unit port.            *)
(***************************************************************************)

Before(a, b) ==
    \/ a \in ToSet(writeRequests) /\ b \in ToSet(writeRequests) /\ Precedes(writeRequests, a, b)
    \/ a \in ToSet(writeRequests) /\ b \notin ToSet(writeRequests)
    \/ a \in Hand /\ b \in ToSet(unitPort)
    \/ a \in ToSet(unitPort) /\ b \in ToSet(unitPort) /\ Precedes(unitPort, a, b)

\* WriteUsbIO carries the data of r.
Carries(r) == usb["W"] # "idle" /\ wio = r
Unsent(r) == Pending(r) /\ cmd[r] = "write" /\ ~Carries(r)

\* The accepted writes are those that are still to be sent, ...
Awaited == \A r \in Req : r \in ToSet(accepted) <=> Unsent(r)
\* ... each once, in the order in which the driver will send them.
InOrder == \A a, b \in Req : Precedes(accepted, a, b) => Before(a, b)

OrderInv == WriteInv /\ IsInjective(accepted) /\ Awaited /\ InOrder

\* What OrderInv knows besides.
LEMMA OrderFacts ==
    ASSUME Abortable = {}, OrderInv
    PROVE  /\ WriteInv /\ TypeInv /\ Marked /\ Placed /\ Sorted
           /\ (\A r \in Req : ~Aborter(r))
           /\ accepted \in Seq(Req) /\ unitPort \in Seq(Req) /\ writeRequests \in Seq(Req)
           /\ IsInjective(accepted) /\ IsInjective(unitPort) /\ IsInjective(writeRequests)
           /\ client \in [Req -> {"idle", "putting", "out"}] /\ cmd \in [Req -> Commands]
           /\ replied \in [Req -> BOOLEAN]
           /\ usb \in [Transfers -> {"idle", "flight", "replied"}]
           /\ "R" \in Transfers /\ "W" \in Transfers /\ "I" \in Transfers
           /\ \A r \in Req : (InPlaces(r) <=> Pending(r)) /\ InOnePlace(r)
           /\ \A r \in Req : r \in ToSet(readRequests) => cmd[r] = "read"
           /\ \A a, b \in Req : Precedes(accepted, a, b) =>
                 a \in ToSet(accepted) /\ b \in ToSet(accepted)
           /\ usb["W"] # "idle" => writeRequests # <<>> /\ Head(writeRequests) = wio
<1>1. WriteInv /\ (\A r \in Req : ~Aborter(r))
    BY WriteFacts DEF OrderInv
<1>2. accepted \in Seq(Req) /\ unitPort \in Seq(Req) /\ writeRequests \in Seq(Req)
      /\ client \in [Req -> {"idle", "putting", "out"}] /\ cmd \in [Req -> Commands]
      /\ replied \in [Req -> BOOLEAN] /\ usb \in [Transfers -> {"idle", "flight", "replied"}]
      /\ "R" \in Transfers /\ "W" \in Transfers /\ "I" \in Transfers
    BY <1>1 DEF WriteInv, TypeInv, TypeOK, PortsOK, RequestsOK, TransfersOK, GhostsOK, Transfers
<1>3. \A a, b \in Req : Precedes(accepted, a, b) => a \in ToSet(accepted) /\ b \in ToSet(accepted)
    BY <1>2, PrecedesInSet
<1> QED
    BY <1>1, <1>2, <1>3, WriteFacts DEF OrderInv, WriteInv, Placed, Sorted, WriteOwnership

\* The accepted writes stay, and so does their order.
LEMMA OrderKept ==
    ASSUME Abortable = {}, OrderInv, UNCHANGED accepted,
           \A r \in Req : Unsent(r)' = Unsent(r),
           \A a, b \in Req : a \in ToSet(accepted) /\ b \in ToSet(accepted) /\ Before(a, b)
                             => Before(a, b)'
    PROVE  IsInjective(accepted)' /\ Awaited' /\ InOrder'
    BY OrderFacts DEF OrderInv, Awaited, InOrder

\* The write that is sent is the oldest accepted one if none stands before it.
LEMMA OrderSent ==
    ASSUME Abortable = {}, OrderInv, NEW r \in Req, Unsent(r), SendWrite(r),
           \A a \in Req : a \in ToSet(accepted) => ~Before(a, r),
           \A s \in Req : Unsent(s)' <=> Unsent(s) /\ s # r,
           \A a, b \in Req : a \in ToSet(accepted) /\ b \in ToSet(accepted)
                             /\ a # r /\ b # r /\ Before(a, b) => Before(a, b)'
    PROVE  /\ IsInjective(accepted)' /\ Awaited' /\ InOrder'
           /\ accepted # <<>> /\ Head(accepted) = r
<1>1. r \in ToSet(accepted)
    BY DEF OrderInv, Awaited
<1>2. accepted # <<>>
    BY <1>1, SmallToSet
<1>3. Head(accepted) \in Req
    BY <1>2, OrderFacts, HeadTailProperties
<1>4. Head(accepted) = r
    <2>1. ASSUME Head(accepted) # r PROVE FALSE
        <3>1. Precedes(accepted, Head(accepted), r)
            BY <1>1, <1>2, <2>1, OrderFacts, PrecedesTail
        <3>2. Head(accepted) \in ToSet(accepted)
            BY <1>2, OrderFacts, TailToSet
        <3> QED
            BY <1>3, <3>1, <3>2 DEF OrderInv, InOrder
    <2> QED
        BY <2>1
<1>5. accepted' = Tail(accepted)
    BY <1>2, <1>4, OrderFacts, WithoutHead DEF SendWrite
<1>6. ToSet(accepted') = ToSet(accepted) \ {r} /\ IsInjective(accepted')
    BY <1>2, <1>4, <1>5, OrderFacts, TailToSet
<1>7. Awaited'
    BY <1>6 DEF OrderInv, Awaited
<1>8. InOrder'
    <2> SUFFICES ASSUME NEW a \in Req, NEW b \in Req, Precedes(accepted', a, b)
                 PROVE  Before(a, b)'
        BY DEF InOrder
    <2>1. Precedes(accepted, a, b)
        BY <1>2, <1>5, OrderFacts, PrecedesTail
    <2>2. accepted' \in Seq(Req)
        BY <1>2, <1>5, OrderFacts, HeadTailProperties
    <2>3. a \in ToSet(accepted') /\ b \in ToSet(accepted')
        BY <2>2, PrecedesInSet
    <2>4. Before(a, b)
        BY <2>1 DEF OrderInv, InOrder
    <2> QED
        BY <1>6, <2>3, <2>4
<1> QED
    BY <1>2, <1>4, <1>6, <1>7, <1>8

\* Every step keeps the order, and a write that is sent is the oldest accepted.
LEMMA OrderStep ==
    ASSUME Abortable = {}, OrderInv, [Next]_vars
    PROVE  /\ IsInjective(accepted)' /\ Awaited' /\ InOrder'
           /\ \A r \in Req : xfer[r] # "flight" /\ xfer'[r] = "flight" =>
                 accepted # <<>> /\ Head(accepted) = r
<1> USE DEF AtWork, TakeUsb, listVars, workerVars, usbVars, clientVars, ghostVars
<1> DEFINE U == ToSet(unitPort)
           W == ToSet(writeRequests)
           Goal == /\ IsInjective(accepted)' /\ Awaited' /\ InOrder'
                   /\ \A r \in Req : xfer[r] # "flight" /\ xfer'[r] = "flight" =>
                         accepted # <<>> /\ Head(accepted) = r
           Kept == /\ \A r \in Req : Unsent(r)' = Unsent(r)
                   /\ \A a, b \in Req : a \in ToSet(accepted) /\ b \in ToSet(accepted)
                                        /\ Before(a, b) => Before(a, b)'
<1>0. /\ WriteInv /\ TypeInv /\ Marked /\ Placed /\ Sorted
      /\ (\A r \in Req : ~Aborter(r))
      /\ xfer \in [Req -> {"none", "flight", "ok", "failed"}]
      /\ \A r \in Req : r \in ToSet(accepted) => r \in Req /\ Unsent(r)
    BY OrderFacts DEF OrderInv, Awaited, WriteInv, TypeInv, TypeOK, GhostsOK
\* No write is sent or accepted.
<1>1. ASSUME UNCHANGED <<accepted, xfer>>, Kept
      PROVE  Goal
    BY <1>1, OrderKept
<1>2. ASSUME UNCHANGED <<accepted, xfer, unitPort, writeRequests, client, cmd, replied, wio>>,
             Hand' = Hand,
             usb'["W"] = usb["W"] \/ (usb["W"] = "flight" /\ usb'["W"] = "replied")
      PROVE  Goal
    <2>1. Kept
        BY <1>2 DEF Unsent, Pending, Carries, Before
    <2> QED
        BY <1>1, <1>2, <2>1
<1>3. ASSUME NEW r \in Req, Client(r)
      PROVE  Goal
    <2>1. CASE BeginReturn(r)
        <3>1. \A s \in Req : Pending(s)' = Pending(s)
            BY <2>1, OrderFacts DEF BeginReturn, Pending
        <3>2. Kept
            BY <2>1, <3>1 DEF BeginReturn, Unsent, Carries, Before, Hand
        <3> QED
            BY <1>1, <2>1, <3>2 DEF BeginReturn
    <2>2. CASE Collect(r) \/ (\E c \in Immediate, q \in Quicks, e \in {"ok", "bad"} : BeginImmediate(r, c, q, e))
        <3>1. ~Pending(r) /\ ~Pending(r)'
            BY <1>0, <2>2, OrderFacts DEF Collect, BeginImmediate, Pending, Marked
        <3>2. \A s \in Req : s # r => Pending(s)' = Pending(s) /\ cmd'[s] = cmd[s]
            BY <2>2, OrderFacts DEF Collect, BeginImmediate, Pending
        <3>3. Kept
            BY <2>2, <3>1, <3>2 DEF Collect, BeginImmediate, Unsent, Carries, Before, Hand
        <3>4. accepted' = accepted
            <4>1. r \notin ToSet(accepted)
                BY <1>0, <3>1 DEF Unsent
            <4> QED
                BY <2>2, <4>1, OrderFacts, WithoutHead DEF Collect, BeginImmediate
        <3>5. \A s \in Req : xfer'[s] = "flight" => xfer[s] = "flight"
            BY <1>0, <2>2 DEF Collect, BeginImmediate
        <3> QED
            BY <3>3, <3>4, <3>5, OrderKept
    <2>3. ASSUME NEW c \in {"read", "write", "params", "other"}, NEW n, NEW q,
                 BeginQueued(r, c, n, q)
          PROVE  Goal
        <3>1. /\ ~Pending(r) /\ r \notin U /\ r \notin W /\ r \notin Hand
              /\ r \notin ToSet(accepted)
            BY <1>0, <2>3, OrderFacts DEF BeginQueued, Pending, InPlaces, Unsent
        <3>2. /\ \A s \in Req : s # r => Unsent(s)' = Unsent(s)
              /\ Unsent(r)' <=> c = "write"
            <4>1. Pending(r)' /\ cmd'[r] = c
                BY <2>3, OrderFacts DEF BeginQueued, Pending, Immediate
            <4>2. ~Carries(r) /\ Carries(r)' = Carries(r)
                BY <1>0, <2>3, <3>1, OrderFacts, WriteFacts DEF BeginQueued, Carries
            <4> QED
                BY <2>3, <4>1, <4>2, OrderFacts DEF BeginQueued, Pending, Unsent, Carries
        <3>3. /\ unitPort' = Append(unitPort, r) /\ ToSet(unitPort') = U \cup {r}
              /\ UNCHANGED writeRequests /\ Hand' = Hand
            BY <2>3, OrderFacts, AppendToSet DEF BeginQueued, Hand
        <3>4. \A a, b \in Req : a # r /\ b # r /\ Before(a, b) => Before(a, b)'
            BY <3>3, OrderFacts, PrecedesAppend DEF Before
        <3>5. \A s \in Req : xfer'[s] = "flight" => xfer[s] = "flight"
            BY <1>0, <2>3 DEF BeginQueued
        <3>6. CASE c # "write"
            <4>1. ~Unsent(r)
                BY <3>1 DEF Unsent
            <4>2. Kept
                <5>1. \A s \in Req : Unsent(s)' = Unsent(s)
                    BY <3>2, <3>6, <4>1 DEF Unsent
                <5>2. \A a, b \in Req : a \in ToSet(accepted) /\ b \in ToSet(accepted)
                                           => a # r /\ b # r
                    BY <3>1
                <5> QED
                    BY <3>4, <5>1, <5>2
            <4>3. accepted' = accepted
                BY <2>3, <3>6 DEF BeginQueued
            <4> QED
                BY <3>5, <4>2, <4>3, OrderKept
        <3>7. CASE c = "write"
            <4>1. accepted' = Append(accepted, r)
                BY <2>3, <3>7 DEF BeginQueued
            <4>2. ToSet(accepted') = ToSet(accepted) \cup {r} /\ IsInjective(accepted')
                BY <3>1, <4>1, OrderFacts, AppendToSet, AppendKeepsInjective
            <4>3. Awaited'
                BY <3>2, <3>7, <4>2 DEF OrderInv, Awaited
            <4>4. \A a \in Req : a \in ToSet(accepted) => Before(a, r)'
                <5> SUFFICES ASSUME NEW a \in Req, a \in ToSet(accepted) PROVE Before(a, r)'
                    OBVIOUS
                <5>1. Pending(a) /\ cmd[a] = "write"
                    BY <1>0 DEF Unsent
                <5>2. a \in U \/ a \in W \/ a \in Hand
                    BY <5>1, OrderFacts DEF InPlaces
                <5>3. a \in U => Precedes(unitPort', a, r)
                    BY <3>3, OrderFacts, PrecedesAppend
                <5> QED
                    BY <3>1, <3>3, <5>2, <5>3 DEF Before
            <4>5. InOrder'
                <5> SUFFICES ASSUME NEW a \in Req, NEW b \in Req, Precedes(accepted', a, b)
                             PROVE  Before(a, b)'
                    BY DEF InOrder
                <5>1. Precedes(accepted, a, b) \/ (a \in ToSet(accepted) /\ b = r)
                    BY <4>1, OrderFacts, PrecedesAppend
                <5>2. CASE Precedes(accepted, a, b)
                    <6>1. a # r /\ b # r
                        BY <3>1, <5>2, OrderFacts
                    <6> QED
                        BY <3>4, <5>2, <6>1 DEF OrderInv, InOrder
                <5> QED
                    BY <4>4, <5>1, <5>2
            <4> QED
                BY <3>5, <4>2, <4>3, <4>5
        <3> QED
            BY <3>6, <3>7
    <2> QED
        BY <1>3, <2>1, <2>2, <2>3 DEF Client
<1>4. CASE Host
    <2>1. ASSUME NEW e \in {"ok", "usb"}, UsbWriteDone(e)
          PROVE  Goal
        <3>1. Kept
            BY <2>1, OrderFacts DEF UsbWriteDone, Unsent, Pending, Carries, Before, Hand
        <3>2. accepted' = accepted /\ \A s \in Req : xfer'[s] = "flight" => xfer[s] = "flight"
            BY <1>0, <2>1 DEF UsbWriteDone
        <3> QED
            BY <3>1, <3>2, OrderKept
    <2>2. CASE UsbInterruptDone \/ Expunge \/ (\E n \in 0..MaxPacket : UsbReadDone(n))
               \/ (\E n \in Notes : StackNotify(n))
        BY <1>2, <2>2, OrderFacts
           DEF UsbReadDone, UsbInterruptDone, StackNotify, Expunge, Hand
    <2> QED
        BY <1>4, <2>1, <2>2 DEF Host
<1>5. CASE TakeRequest
    <2> DEFINE h == Head(unitPort)
    <2>1. /\ h \in U /\ ToSet(unitPort') = U \ {h} /\ unitPort # <<>> /\ unitPort' = Tail(unitPort)
          /\ Hand = {} /\ Hand' = {h} /\ UNCHANGED writeRequests
        BY <1>5, OrderFacts, TailToSet DEF TakeRequest, Hand
    <2>2. \A a, b \in Req : Before(a, b) => Before(a, b)'
        <3> HIDE DEF h
        <3>1. \A a, b \in Req : Precedes(unitPort, a, b) =>
                 b # h /\ (a # h => Precedes(unitPort', a, b))
            BY <2>1, OrderFacts, PrecedesTail DEF h
        <3> QED
            BY <2>1, <3>1 DEF Before
    <2>3. UNCHANGED <<accepted, xfer, client, cmd, replied, wio, usb>>
        BY <1>5 DEF TakeRequest
    <2>4. Kept
        BY <2>2, <2>3 DEF Unsent, Pending, Carries
    <2> QED
        BY <1>1, <2>3, <2>4
\* The request in hand is no write and leaves the worker's hand.
<1>6. ASSUME pc = "dispatch", pc' # "dispatch", cmd[io] # "write", io \in Req,
             \A r \in Req : r # io => replied'[r] = replied[r],
             UNCHANGED <<accepted, xfer, unitPort, writeRequests, client, cmd, wio>>,
             usb'["W"] = usb["W"]
      PROVE  Goal
    <2>1. io \notin ToSet(accepted)
        BY <1>0, <1>6 DEF Unsent
    <2>2. Kept
        BY <1>6, <2>1 DEF Unsent, Pending, Carries, Before, Hand
    <2> QED
        BY <1>1, <1>6, <2>2
<1>7. CASE ReadBuffered \/ ReadSubmit \/ AnswerAtOnce
    <2>1. io \in Req /\ cmd[io] # "write" /\ pc = "dispatch" /\ pc' = "drain"
        BY <1>0, <1>7, HandFacts DEF ReadBuffered, ReadSubmit, AnswerAtOnce
    <2> QED
        BY <1>6, <1>7, <2>1, OrderFacts DEF ReadBuffered, ReadSubmit, AnswerAtOnce, RequestInput
<1>8. CASE WriteAccept
    <2>1. /\ io \in Req /\ Pending(io) /\ cmd[io] = "write" /\ io \notin U /\ io \notin W
          /\ Hand = {io} /\ Hand' = {}
        BY <1>0, <1>8, HandFacts DEF WriteAccept, Hand
    <2>2. Unsent(io)
        <3>1. usb["W"] # "idle" => wio \in W
            BY <1>0, OrderFacts, WriteFacts
        <3> QED
            BY <2>1, <3>1 DEF Unsent, Carries
    <2>3. /\ ToSet(writeRequests') = W \cup {io} /\ writeRequests' = Append(writeRequests, io)
          /\ UNCHANGED <<unitPort, client, cmd, replied>>
        BY <1>8, OrderFacts, AppendToSet DEF WriteAccept, ListWrite
    <2>4. \A a, b \in Req : Before(a, b) => Before(a, b)'
        <3>1. \A a, b \in Req : Precedes(writeRequests, a, b) => Precedes(writeRequests', a, b)
            BY <2>3, OrderFacts, PrecedesAppend
        <3>2. \A a \in Req : a \in W => Precedes(writeRequests', a, io)
            BY <2>3, OrderFacts, PrecedesAppend
        <3>3. \A b \in Req : b \in U => b \notin W /\ b # io
            BY <2>1, OrderFacts DEF InOnePlace
        <3> QED
            BY <2>1, <2>3, <3>1, <3>2, <3>3 DEF Before
    <2>5. CASE NoWriteListed
        <3>1. W = {}
            BY <2>5, SmallToSet DEF NoWriteListed
        <3>2. \A a \in Req : ~Before(a, io)
            BY <2>1, <3>1 DEF Before
        <3>3. SendWrite(io)
            BY <1>8, <2>5 DEF WriteAccept
        <3>4. usb["W"] = "idle" /\ usb'["W"] # "idle" /\ wio' = io
            BY <2>5, <3>3, OrderFacts DEF NoWriteListed, SendWrite
        <3>5. \A s \in Req : Unsent(s)' <=> Unsent(s) /\ s # io
            BY <2>3, <3>4 DEF Unsent, Pending, Carries
        <3>6. /\ IsInjective(accepted)' /\ Awaited' /\ InOrder'
              /\ accepted # <<>> /\ Head(accepted) = io
            BY <2>1, <2>2, <2>4, <3>2, <3>3, <3>5, OrderSent
        <3>7. \A s \in Req : s # io => xfer'[s] = xfer[s]
            BY <1>0, <3>3 DEF SendWrite
        <3> QED
            BY <3>6, <3>7
    <2>6. CASE ~NoWriteListed
        <3>1. UNCHANGED <<accepted, xfer, usb, wio>>
            BY <1>8, <2>6 DEF WriteAccept
        <3>2. Kept
            BY <2>3, <2>4, <3>1 DEF Unsent, Pending, Carries
        <3> QED
            BY <1>1, <3>1, <3>2
    <2> QED
        BY <2>5, <2>6
<1>9. CASE WriteSend
    <2> DEFINE h == Head(writeRequests)
    <2>0. writeRequests # <<>> /\ io = h /\ usb["W"] = "idle"
        BY <1>0, <1>9 DEF WriteInv, Handled, SendReady, WriteSend
    <2>1. h \in Req /\ h \in W
        BY <1>0, <2>0, WriteFacts
    <2>2. Pending(h) /\ cmd[h] = "write" /\ usb["W"] = "idle"
        BY <1>0, <2>0, <2>1, OrderFacts DEF InPlaces, WriteInv, Sorted
    <2>3. Unsent(h)
        BY <2>2 DEF Unsent, Carries
    <2>4. h \notin U /\ h \notin Hand
        BY <2>1, OrderFacts DEF InOnePlace
    <2>5. \A a \in Req : ~Before(a, h)
        BY <2>0, <2>1, <2>4, OrderFacts, PrecedesTail DEF Before
    <2>6. /\ SendWrite(h) /\ Hand' = Hand
          /\ UNCHANGED <<unitPort, writeRequests, client, cmd, replied>>
        BY <1>9, <2>0 DEF WriteSend, Hand
    <2>7. usb'["W"] # "idle" /\ wio' = h
        BY <2>6, OrderFacts DEF SendWrite
    <2> HIDE DEF h
    <2>8. \A s \in Req : Unsent(s)' <=> Unsent(s) /\ s # h
        BY <2>2, <2>6, <2>7 DEF Unsent, Pending, Carries
    <2>9. \A a, b \in Req : Before(a, b) => Before(a, b)'
        BY <2>6 DEF Before
    <2>10. /\ IsInjective(accepted)' /\ Awaited' /\ InOrder'
           /\ accepted # <<>> /\ Head(accepted) = h
        BY <2>1, <2>3, <2>5, <2>6, <2>8, <2>9, OrderSent
    <2>11. \A s \in Req : s # h => xfer'[s] = xfer[s]
        BY <1>0, <2>6 DEF SendWrite
    <2> QED
        BY <2>10, <2>11
<1>10. CASE WriteReplied
    <2>1. usb["W"] = "replied" /\ writeRequests # <<>> /\ Head(writeRequests) = wio
        BY <1>0, <1>10, OrderFacts, WriteFacts DEF WriteReplied
    <2>2. wio \in Req /\ wio \notin ToSet(accepted)
        BY <1>0, <2>1, WriteFacts DEF Unsent, Carries
    <2>3. /\ ToSet(writeRequests') = W \ {wio} /\ writeRequests' = Tail(writeRequests)
        BY <1>10, <2>1, OrderFacts, TailToSet DEF WriteReplied
    <2>4. /\ UNCHANGED <<accepted, xfer, unitPort, client, cmd, wio>> /\ Hand' = Hand
          /\ replied' = [replied EXCEPT ![wio] = TRUE] /\ usb'["W"] = "idle"
        BY <1>10, <2>1, OrderFacts DEF WriteReplied, Hand
    <2>5. \A r \in Req : Unsent(r)' = Unsent(r)
        BY <2>1, <2>2, <2>4, OrderFacts DEF Unsent, Pending, Carries
    <2>6. \A a, b \in Req : a # wio /\ b # wio /\ Before(a, b) => Before(a, b)'
        BY <2>1, <2>3, <2>4, OrderFacts, PrecedesTail DEF Before
    <2> QED
        BY <1>1, <2>2, <2>4, <2>5, <2>6
<1>11. CASE ReadServe \/ ReadPart
    <2>1. pc = "rcopy"
        BY <1>11 DEF ReadServe, ReadPart
    <2>2. io \in Req /\ cmd[io] = "read"
        BY <1>0, <2>1, CopyFacts
    <2>3. /\ UNCHANGED <<accepted, xfer, unitPort, writeRequests, client, cmd, wio>>
          /\ usb'["W"] = usb["W"] /\ Hand' = Hand
          /\ \A r \in Req : r # io => replied'[r] = replied[r]
        BY <1>11, OrderFacts DEF ReadServe, ReadPart, RequestInput, Hand
    <2>4. Kept
        BY <2>2, <2>3 DEF Unsent, Pending, Carries, Before
    <2> QED
        BY <1>1, <2>3, <2>4
<1>12. CASE ReadReplied \/ InterruptReplied \/ WriteNext
    BY <1>2, <1>12, OrderFacts DEF ReadReplied, InterruptReplied, WriteNext, Hand
<1>13. CASE UseFreedBase \/ UnitPortEmpty \/ WaitSignal \/ UsbPortDone \/ ReadHead
            \/ TakeNotification \/ LoopEnd
    BY <1>2, <1>13 DEF UseFreedBase, UnitPortEmpty, WaitSignal, UsbPortDone, ReadHead,
       TakeNotification, LoopEnd, Hand
<1>14. CASE UNCHANGED vars
    BY <1>2, <1>14 DEF vars, Hand
<1> QED
    BY <1>0, <1>3, <1>4, <1>5, <1>7, <1>8, <1>9, <1>10, <1>11, <1>12, <1>13, <1>14
       DEF Next, Worker, Stopped

LEMMA OrderInit == ASSUME Abortable = {}, Init PROVE OrderInv
<1>1. WriteInv /\ accepted = <<>>
    BY WriteInit DEF Init
<1>2. ToSet(accepted) = {} /\ IsInjective(accepted) /\ \A a, b : ~Precedes(accepted, a, b)
    <2>1. ToSet(accepted) = {} /\ IsInjective(accepted)
        BY <1>1, SmallToSet
    <2>2. \A a, b : ~Precedes(accepted, a, b)
        BY <1>1 DEF Precedes
    <2> QED
        BY <2>1, <2>2
<1>3. \A r \in Req : ~Unsent(r)
    BY DEF Init, Unsent, Pending
<1> QED
    BY <1>1, <1>2, <1>3 DEF OrderInv, Awaited, InOrder

\* Writes go over the wire in the order in which BeginIO accepted them, however
\* many clients write and whatever transfers fail.
THEOREM WritesInOrder ==
    ASSUME Abortable = {}
    PROVE  Spec => WriteOrder
<1>1. Init => OrderInv
    BY OrderInit
<1>2. OrderInv /\ [Next]_vars => OrderInv'
    BY OrderStep, WriteStep DEF OrderInv
<1>3. OrderInv /\ [Next]_vars =>
         [\A r \in Req : xfer[r] # "flight" /\ xfer'[r] = "flight" =>
             accepted # <<>> /\ Head(accepted) = r]_vars
    BY OrderStep
<1> QED
    BY <1>1, <1>2, <1>3, PTL DEF Spec, WriteOrder

\* The list behind the write that WriteUsbIO carries, the worker's hand and the
\* unit port, read one after the other, hold the accepted writes in their order.
LEMMA WaitingOrder ==
    ASSUME Abortable = {}, OrderInv
    PROVE  OneQueue
<1> DEFINE L == IF usb["W"] = "idle" THEN writeRequests ELSE Tail(writeRequests)
           H == IF pc = "dispatch" THEN <<io>> ELSE <<>>
<1>1. /\ L \in Seq(Req) /\ H \in Seq(Req) /\ unitPort \in Seq(Req) /\ ToSet(H) = Hand
      /\ pc = "dispatch" => io \in Req
    <2>1. L \in Seq(Req)
        BY OrderFacts, HeadTailProperties
    <2>2. unitPort \in Seq(Req) /\ (pc = "dispatch" => io \in Req)
        BY OrderFacts, HeldTypes
    <2>3. H \in Seq(Req)
        BY <2>2
    <2>4. ToSet(H) = Hand
        <3>1. CASE pc = "dispatch"
            BY <3>1, SmallToSet DEF Hand
        <3>2. CASE pc # "dispatch"
            BY <3>2, SmallToSet DEF Hand
        <3> QED
            BY <3>1, <3>2
    <2> QED
        BY <2>1, <2>2, <2>3, <2>4
<1>2. \A r \in Req : r \in ToSet(L) <=> r \in ToSet(writeRequests) /\ ~Carries(r)
    <2>1. CASE usb["W"] = "idle"
        BY <2>1 DEF Carries
    <2>2. CASE usb["W"] # "idle"
        <3>1. ToSet(L) = ToSet(writeRequests) \ {wio}
            BY <2>2, OrderFacts, TailToSet
        <3> QED
            BY <2>2, <3>1 DEF Carries
    <2> QED
        BY <2>1, <2>2
<1>3. \A a, b \in Req : Precedes(writeRequests, a, b) /\ ~Carries(a) => Precedes(L, a, b)
    <2>1. CASE usb["W"] = "idle"
        BY <2>1
    <2>2. CASE usb["W"] # "idle"
        BY <2>2, OrderFacts, PrecedesTail DEF Carries
    <2> QED
        BY <2>1, <2>2
<1>4. Waiting = (L \o H) \o unitPort
    BY DEF Waiting
<1> HIDE DEF L, H
<1>5. L \o H \in Seq(Req) /\ ToSet(L \o H) = ToSet(L) \cup Hand
    BY <1>1, ConcatToSet
<1>6. Waiting \in Seq(Req) /\ ToSet(Waiting) = ToSet(L) \cup Hand \cup ToSet(unitPort)
    <2> DEFINE M == L \o H
    <2>1. M \in Seq(Req) /\ ToSet(M) = ToSet(L) \cup Hand /\ Waiting = M \o unitPort
        BY <1>4, <1>5
    <2> HIDE DEF M
    <2>2. M \o unitPort \in Seq(Req) /\ ToSet(M \o unitPort) = ToSet(M) \cup ToSet(unitPort)
        BY <1>1, <2>1, ConcatToSet
    <2> QED
        BY <2>1, <2>2
<1>7. ToSet(accepted) = {r \in ToSet(Waiting) : cmd[r] = "write"}
    <2>1. ToSet(accepted) \subseteq Req /\ ToSet(Waiting) \subseteq Req
        <3>1. \A s \in Seq(Req) : ToSet(s) \subseteq Req
            BY ElementOfSeq DEF ToSet
        <3> QED
            BY <1>6, <3>1, OrderFacts
    <2>2. \A r \in Req : r \in ToSet(accepted) <=> Unsent(r)
        BY DEF OrderInv, Awaited
    <2>3. \A r \in Req : Carries(r) => r \in ToSet(writeRequests)
        BY OrderFacts, TailToSet DEF Carries
    <2>4. \A r \in Req : Unsent(r) <=> r \in ToSet(Waiting) /\ cmd[r] = "write"
        BY <1>2, <1>6, <2>3, OrderFacts DEF Unsent, InPlaces, InOnePlace
    <2> QED
        BY <2>1, <2>2, <2>4
<1>8. ASSUME NEW a \in Req, NEW b \in Req, Precedes(accepted, a, b)
      PROVE  Precedes(Waiting, a, b)
    <2>1. Before(a, b) /\ Unsent(a) /\ Unsent(b)
        BY <1>8, OrderFacts DEF OrderInv, InOrder, Awaited
    <2>2. ~Carries(a) /\ ~Carries(b) /\ InPlaces(b) /\ cmd[b] = "write"
        BY <2>1, OrderFacts DEF Unsent
    <2>3. CASE a \in ToSet(writeRequests) /\ b \in ToSet(writeRequests)
               /\ Precedes(writeRequests, a, b)
        <3>1. Precedes(L, a, b)
            BY <1>3, <2>2, <2>3
        <3>2. Precedes(L \o H, a, b)
            BY <1>1, <3>1, ConcatOrder
        <3> QED
            BY <1>1, <1>4, <1>5, <3>2, ConcatOrder
    <2>4. CASE a \in ToSet(writeRequests) /\ b \notin ToSet(writeRequests)
        <3>1. a \in ToSet(L)
            BY <1>2, <2>2, <2>4
        <3>2. b \in Hand \/ b \in ToSet(unitPort)
            BY <2>2, <2>4, OrderFacts DEF InPlaces
        <3>3. CASE b \in Hand
            <4>1. Precedes(L \o H, a, b)
                BY <1>1, <3>1, <3>3, ConcatOrder
            <4> QED
                BY <1>1, <1>4, <1>5, <4>1, ConcatOrder
        <3>4. CASE b \in ToSet(unitPort)
            BY <1>1, <1>4, <1>5, <3>1, <3>4, ConcatOrder
        <3> QED
            BY <3>2, <3>3, <3>4
    <2>5. CASE a \in Hand /\ b \in ToSet(unitPort)
        BY <1>1, <1>4, <1>5, <2>5, ConcatOrder
    <2>6. CASE Precedes(unitPort, a, b)
        BY <1>1, <1>4, <1>5, <2>6, ConcatOrder
    <2> QED
        BY <2>1, <2>3, <2>4, <2>5, <2>6 DEF Before
<1>9. \A i, j \in 1..Len(accepted) :
         i < j => Precedes(Waiting, accepted[i], accepted[j])
    <2> SUFFICES ASSUME NEW i \in 1..Len(accepted), NEW j \in 1..Len(accepted), i < j
                 PROVE  Precedes(Waiting, accepted[i], accepted[j])
        OBVIOUS
    <2>1. accepted[i] \in Req /\ accepted[j] \in Req
        BY OrderFacts, ElementOfSeq
    <2>2. Precedes(accepted, accepted[i], accepted[j])
        BY DEF Precedes
    <2> QED
        BY <1>8, <2>1, <2>2
<1> QED
    BY <1>7, <1>9 DEF OneQueue, OrderInv

\* The writes that BeginIO has accepted and that have not been sent are one
\* queue, spread over the list, the worker's hand and the unit port: none is
\* lost, doubled or overtaken on its way, however many clients write.
THEOREM OneQueueKept ==
    ASSUME Abortable = {}
    PROVE  Spec => []OneQueue
<1>1. Init => OrderInv
    BY OrderInit
<1>2. OrderInv /\ [Next]_vars => OrderInv'
    BY OrderStep, WriteStep DEF OrderInv
<1>3. OrderInv => OneQueue
    BY WaitingOrder
<1> QED
    BY <1>1, <1>2, <1>3, PTL DEF Spec
=============================================================================
