------------------------------ MODULE PL2303IO ------------------------------
(***************************************************************************)
(* The I/O path of pl2303.device: client tasks call BeginIO and AbortIO of *)
(* the device manager, the USB function-driver task (the worker, function  *)
(* _usbfd_function_RunFunction) serves the unit port in its main loop, and *)
(* the USB stack completes the three transfers ReadUsbIO, WriteUsbIO and   *)
(* InterruptUsbIO through one reply port.                                  *)
(*                                                                         *)
(* Misuse of exec by the driver is undefined behaviour.  An action that    *)
(* commits it records the kind of misuse in "fault" and the behaviour ends *)
(* there: nothing is claimed of what memory holds afterwards.              *)
(***************************************************************************)
EXTENDS Naturals, FiniteSets, SequencesExt

CONSTANTS
    Req,          \* the IORequests of the clients
    Free,         \* not a request: the mutex is free, no request in hand
    ReadLengths,  \* the io_Length values clients use with CMD_READ
    MaxPacket,    \* longest bulk-in transfer that the USB stack returns
    OneRead,      \* clients keep at most one CMD_READ outstanding at a time
    Abortable,    \* the requests on which a client may call AbortIO
    Notes,        \* the kinds of notification the USB stack may send
    MaxNotes,     \* bound: notifications waiting in UsbStackMsgPort
    Expunging,    \* "never", "at rest" (only while the worker waits) or "any time"
    Quicks,       \* the values of IOF_QUICK clients use: a set of booleans
    Submits,      \* the kinds of command clients give to BeginIO
    LineReports   \* the chip answers the interrupt transfer

ASSUME FreeAssumption == Free \notin Req
ASSUME PacketAssumption == MaxPacket \in Nat \ {0}
ASSUME LengthAssumption == ReadLengths \subseteq Nat \ {0}
ASSUME NotesAssumption == Notes \subseteq {"detach", "other"}
ASSUME UseAssumption ==
    /\ MaxNotes \in Nat
    /\ OneRead \in BOOLEAN /\ LineReports \in BOOLEAN
    /\ Submits \subseteq {"read", "write", "params", "other", "immediate"}
    /\ Quicks \subseteq BOOLEAN
    /\ Expunging \in {"never", "at rest", "any time"}

VARIABLES
    \* exec objects
    unitPort,       \* unit_MsgPort of the device
    readRequests,   \* pl2303_readRequests
    writeRequests,  \* pl2303_writeRequests
    usbPort,        \* the reply port shared by the USBIOReqs
    stackPort,      \* UsbStackMsgPort
    signals,        \* signals of the worker that are set
    mutex,          \* holder of pl2303_Mutex among the clients, or Free
    \* the worker
    pc, io, woken, detached,
    \* ReadUsbIO, WriteUsbIO, InterruptUsbIO
    usb,            \* "idle", "flight", or "replied" (waits in usbPort)
    rOffset,        \* ReadUsbIO->io_Offset: bytes of the buffer handed out
    rActual,        \* ReadUsbIO->io_Actual: bytes in the buffer
    wio,            \* the request whose data WriteUsbIO points at
    werr,           \* WriteUsbIO->io_Error of its last completion
    \* the clients and their requests
    client,         \* "idle", "putting" (in BeginIO past PutMsg), "out"
    abort,          \* progress of the AbortIO call on the request
    cmd, len, act, err, quick,
    replied,        \* ln_Type = NT_REPLYMSG
    expunged,       \* the device has been expunged from outside
    \* ghosts
    accepted,       \* writes accepted and not yet sent, oldest first
    xfer,           \* what became of the USB transfer of a write
    fault           \* "none" or the first misuse of exec

clientVars == <<client, abort, cmd, len, quick, expunged>>
usbVars    == <<usb, rOffset, rActual, wio, werr>>
workerVars == <<pc, io, woken, detached>>
ghostVars  == <<accepted, xfer>>
listVars   == <<readRequests, writeRequests>>
vars == <<unitPort, listVars, usbPort, stackPort, signals, mutex, workerVars,
          usbVars, clientVars, act, err, replied, ghostVars, fault>>

Transfers == {"R", "W", "I"}
Reads     == {"read", "refused read"}
Writes    == {"write", "refused write"}
\* What BeginIO finishes itself: NSCMD_DEVICEQUERY, an unknown command or refused
\* parameters; a CMD_READ or a CMD_WRITE that it refuses.
Immediate == {"immediate", "refused read", "refused write"}
Commands  == Reads \cup Writes \cup Immediate \cup {"params", "other"}
Errors    == {"ok", "bad", "nocmd", "aborted", "usb"}

Without(s, r) ==
    IF Contains(s, r) THEN RemoveAt(s, CHOOSE i \in 1..Len(s) : s[i] = r) ELSE s
Linked(r) == Contains(unitPort, r) \/ Contains(readRequests, r) \/ Contains(writeRequests, r)

\* What ReplyMsg does wrong when it is called on r in the present state.
ReplyFault(r) ==
    CASE replied[r] -> "replied twice"
      [] ~replied[r] /\ Linked(r) -> "replied while queued"
      [] OTHER -> "none"

\* The worker has a pointer to the request and is about to use it.
InHand(r) == pc \in {"dispatch", "rcopy", "wsend"} /\ io = r

\* What AbortIO's ReplyMsg does wrong besides: the worker goes on with a request
\* it has in hand, the USB stack with the data of a write.
AbortFault(r) ==
    CASE ~replied[r] /\ InHand(r) -> "replied while in hand"
      [] ~replied[r] /\ ~InHand(r) /\ xfer[r] = "flight" -> "replied while in flight"
      [] OTHER -> ReplyFault(r)

\* AbortIO walks or relinks a list in a client's task, under the mutex.  Nobody
\* else may change that list meanwhile, and the handlers of the reply port do not
\* ask for the mutex.
Walked(commands) == \E r \in Req : abort[r] = "search" /\ cmd[r] \in commands

\* SendIO of a USBIOReq that the USB stack or the reply port still owns, and of
\* one that GetMsg has just returned.
SendFault(x) == IF usb[x] = "idle" THEN "none" ELSE "sent while in use"
ResendFault(x) == IF usb[x] = "replied" THEN "none" ELSE "sent while in use"

(***************************************************************************)
(* State of the program when the worker reaches its main loop: the device  *)
(* is added, the interrupt transfer has just been sent.                    *)
(***************************************************************************)
Init ==
    /\ unitPort = <<>> /\ usbPort = <<>> /\ stackPort = <<>>
    /\ readRequests = <<>> /\ writeRequests = <<>>
    /\ signals = {} /\ mutex = Free
    /\ pc = "drain" /\ io = Free /\ woken = {} /\ detached = FALSE
    /\ usb = [x \in Transfers |-> IF x = "I" THEN "flight" ELSE "idle"]
    /\ rOffset = 0 /\ rActual = 0 /\ wio = Free /\ werr = "ok"
    /\ client = [r \in Req |-> "idle"] /\ abort = [r \in Req |-> "none"]
    /\ cmd = [r \in Req |-> "other"] /\ len = [r \in Req |-> 0]
    /\ act = [r \in Req |-> 0] /\ err = [r \in Req |-> "ok"]
    /\ quick = [r \in Req |-> FALSE] /\ replied = [r \in Req |-> TRUE]
    /\ expunged = FALSE
    /\ accepted = <<>> /\ xfer = [r \in Req |-> "none"]
    /\ fault = "none"

(***************************************************************************)
(* The clients: BeginIO, AbortIO, and taking back a finished request.      *)
(***************************************************************************)

NoReadOut == \A r \in Req : client[r] = "idle" \/ cmd[r] # "read"

\* BeginIO of a command for the worker, up to and with PutMsg: the node is
\* marked NT_MESSAGE, the arguments have been checked.  The worker may serve
\* and answer the request before the client's task runs on.
BeginQueued(r, c, n, q) ==
    /\ fault = "none" /\ ~expunged
    /\ client[r] = "idle" /\ c \in Submits
    /\ (c = "read" /\ OneRead) => NoReadOut
    /\ client' = [client EXCEPT ![r] = "putting"]
    /\ cmd' = [cmd EXCEPT ![r] = c]
    /\ len' = [len EXCEPT ![r] = n]
    /\ quick' = [quick EXCEPT ![r] = q]
    /\ replied' = [replied EXCEPT ![r] = FALSE]
    /\ unitPort' = Append(unitPort, r)
    /\ signals' = signals \cup {"unit"}
    /\ accepted' = IF c = "write" THEN Append(accepted, r) ELSE accepted
    /\ xfer' = [xfer EXCEPT ![r] = "none"]
    /\ UNCHANGED <<listVars, usbPort, stackPort, mutex, workerVars, usbVars,
                   abort, act, err, expunged, fault>>

\* A slip: IOF_QUICK stays set.
BeginReturnQuick(r) ==
    /\ fault = "none"
    /\ client[r] = "putting"
    /\ client' = [client EXCEPT ![r] = "out"]
    /\ UNCHANGED <<unitPort, listVars, usbPort, stackPort, signals, mutex,
                   workerVars, usbVars, abort, cmd, len, quick, expunged, act,
                   err, replied, ghostVars, fault>>

\* A slip: io_Error is cleared after PutMsg, not before.
BeginReturnClearing(r) ==
    /\ fault = "none"
    /\ client[r] = "putting"
    /\ quick' = [quick EXCEPT ![r] = FALSE]
    /\ client' = [client EXCEPT ![r] = "out"]
    /\ err' = [err EXCEPT ![r] = "ok"]
    /\ UNCHANGED <<unitPort, listVars, usbPort, stackPort, signals, mutex,
                   workerVars, usbVars, abort, cmd, len, expunged, act, replied,
                   ghostVars, fault>>

\* The rest of BeginIO of such a command: io_Flags &= ~IOF_QUICK, return.
BeginReturn(r) ==
    /\ fault = "none"
    /\ client[r] = "putting"
    /\ quick' = [quick EXCEPT ![r] = FALSE]
    /\ client' = [client EXCEPT ![r] = "out"]
    /\ UNCHANGED <<unitPort, listVars, usbPort, stackPort, signals, mutex,
                   workerVars, usbVars, abort, cmd, len, expunged, act, err,
                   replied, ghostVars, fault>>

\* BeginIO of a command it finishes itself.  A quick request is not replied.
BeginImmediate(r, c, q, e) ==
    /\ fault = "none" /\ ~expunged
    /\ client[r] = "idle" /\ "immediate" \in Submits
    /\ c # "immediate" => e = "bad"
    /\ client' = [client EXCEPT ![r] = "out"]
    /\ cmd' = [cmd EXCEPT ![r] = c]
    /\ quick' = [quick EXCEPT ![r] = q]
    /\ err' = [err EXCEPT ![r] = e]
    /\ replied' = [replied EXCEPT ![r] = ~q]
    /\ UNCHANGED <<unitPort, listVars, usbPort, stackPort, signals, mutex,
                   workerVars, usbVars, abort, len, expunged, act, ghostVars,
                   fault>>

\* A client finds its request complete and takes it back (CheckIO, WaitIO).
\* What the fields held is forgotten.
Collect(r) ==
    /\ fault = "none"
    /\ client[r] = "out" /\ abort[r] \in {"none", "done"}
    /\ replied[r] \/ quick[r]
    /\ client' = [client EXCEPT ![r] = "idle"]
    /\ abort' = [abort EXCEPT ![r] = "none"]
    /\ cmd' = [cmd EXCEPT ![r] = "other"]
    /\ len' = [len EXCEPT ![r] = 0]
    /\ act' = [act EXCEPT ![r] = 0]
    /\ err' = [err EXCEPT ![r] = "ok"]
    /\ quick' = [quick EXCEPT ![r] = FALSE]
    /\ replied' = [replied EXCEPT ![r] = TRUE]
    /\ xfer' = [xfer EXCEPT ![r] = "none"]
    /\ accepted' = Without(accepted, r)
    /\ UNCHANGED <<unitPort, listVars, usbPort, stackPort, signals, mutex,
                   workerVars, usbVars, expunged, fault>>

\* AbortIO of a read or write, refused ones included: MutexObtain in the client's
\* task.  The walk begins here: a list that is changed after MutexObtain and before
\* the walk might as well have been changed before MutexObtain.
AbortLock(r) ==
    /\ fault = "none" /\ r \in Abortable
    /\ client[r] = "out" /\ abort[r] = "none"
    /\ cmd[r] \in Reads \cup Writes
    /\ mutex = Free
    /\ mutex' = r
    /\ abort' = [abort EXCEPT ![r] = "search"]
    /\ UNCHANGED <<unitPort, listVars, usbPort, stackPort, signals, workerVars,
                   usbVars, client, cmd, len, quick, expunged, act, err,
                   replied, ghostVars, fault>>

\* A slip: the request is found but stays in the list.
AbortReadKept(r) ==
    /\ fault = "none" /\ abort[r] = "search" /\ cmd[r] \in Reads
    /\ Contains(readRequests, r)
    /\ mutex' = Free
    /\ abort' = [abort EXCEPT ![r] = "found"]
    /\ UNCHANGED <<unitPort, listVars, usbPort, stackPort, signals, workerVars,
                   usbVars, client, cmd, len, quick, expunged, act, err,
                   replied, ghostVars, fault>>

\* _pl2303_io_read_abort takes the request out of the list; the transfer that
\* was started for it goes on.
AbortRead(r) ==
    /\ fault = "none" /\ abort[r] = "search" /\ cmd[r] \in Reads
    /\ Contains(readRequests, r)
    /\ readRequests' = Without(readRequests, r)
    /\ mutex' = Free
    /\ abort' = [abort EXCEPT ![r] = "found"]
    /\ UNCHANGED <<unitPort, writeRequests, usbPort, stackPort, signals,
                   workerVars, usbVars, client, cmd, len, quick, expunged, act,
                   err, replied, ghostVars, fault>>

\* _pl2303_io_write_abort of the tail: removed, then AbortIO( WriteUsbIO ).
\* A transfer in flight now ends early; UsbWriteDone already allows that.
AbortWriteTail(r) ==
    /\ fault = "none" /\ abort[r] = "search" /\ cmd[r] \in Writes
    /\ writeRequests # <<>>
    /\ Last(writeRequests) = r
    /\ writeRequests' = Without(writeRequests, r)
    /\ abort' = [abort EXCEPT ![r] = "waitio"]
    /\ UNCHANGED <<unitPort, readRequests, usbPort, stackPort, signals, mutex,
                   workerVars, usbVars, client, cmd, len, quick, expunged, act,
                   err, replied, ghostVars, fault>>

\* WaitIO( WriteUsbIO ) in the client's task, the mutex held.  It ends when
\* the transfer has been replied and takes it from the reply port; nothing
\* wakes the client, for the port signals the worker.  If the worker has taken
\* the message first, WaitIO removes a node that is in no list.
AbortWaitIO(r) ==
    /\ fault = "none" /\ abort[r] = "waitio"
    /\ usb["W"] # "flight"
    /\ IF usb["W"] = "replied"
         THEN /\ usbPort' = Without(usbPort, "W")
              /\ usb' = [usb EXCEPT !["W"] = "idle"]
              /\ fault' = "none"
         ELSE fault' = "removed while in no list" /\ UNCHANGED <<usbPort, usb>>
    /\ mutex' = Free
    /\ abort' = [abort EXCEPT ![r] = "found"]
    /\ UNCHANGED <<unitPort, listVars, stackPort, signals, workerVars, rOffset,
                   rActual, wio, werr, client, cmd, len, quick, expunged, act,
                   err, replied, ghostVars>>

\* A write that is listed but not last: removed, whatever WriteUsbIO does.
AbortWriteListed(r) ==
    /\ fault = "none" /\ abort[r] = "search" /\ cmd[r] \in Writes
    /\ Contains(writeRequests, r)
    /\ Last(writeRequests) # r
    /\ writeRequests' = Without(writeRequests, r)
    /\ mutex' = Free
    /\ abort' = [abort EXCEPT ![r] = "found"]
    /\ UNCHANGED <<unitPort, readRequests, usbPort, stackPort, signals,
                   workerVars, usbVars, client, cmd, len, quick, expunged, act,
                   err, replied, ghostVars, fault>>

\* The request is in neither list: still in unit_MsgPort, in the worker's
\* hand, or finished.
AbortMissing(r) ==
    /\ fault = "none" /\ abort[r] = "search"
    /\ IF cmd[r] \in Reads THEN ~Contains(readRequests, r) ELSE ~Contains(writeRequests, r)
    /\ mutex' = Free
    /\ abort' = [abort EXCEPT ![r] = "missing"]
    /\ UNCHANGED <<unitPort, listVars, usbPort, stackPort, signals, workerVars,
                   usbVars, client, cmd, len, quick, expunged, act, err,
                   replied, ghostVars, fault>>

\* The end of AbortIO: io_Error is set when the request was not found, and
\* ReplyMsg is called in any case.
AbortReply(r) ==
    /\ fault = "none" /\ abort[r] \in {"found", "missing"}
    /\ err' = [err EXCEPT ![r] = IF abort[r] = "missing" THEN "aborted" ELSE @]
    /\ replied' = [replied EXCEPT ![r] = TRUE]
    /\ fault' = AbortFault(r)
    /\ abort' = [abort EXCEPT ![r] = "done"]
    /\ UNCHANGED <<unitPort, listVars, usbPort, stackPort, signals, mutex,
                   workerVars, usbVars, client, cmd, len, quick, expunged, act,
                   ghostVars>>

\* AbortIO of any other command.
AbortOther(r) ==
    /\ fault = "none" /\ r \in Abortable
    /\ client[r] = "out" /\ abort[r] = "none"
    /\ cmd[r] \notin Reads \cup Writes
    /\ err' = [err EXCEPT ![r] = "nocmd"]
    /\ replied' = [replied EXCEPT ![r] = TRUE]
    /\ fault' = AbortFault(r)
    /\ abort' = [abort EXCEPT ![r] = "done"]
    /\ UNCHANGED <<unitPort, listVars, usbPort, stackPort, signals, mutex,
                   workerVars, usbVars, client, cmd, len, quick, expunged, act,
                   ghostVars>>

(***************************************************************************)
(* The USB stack and the system.                                           *)
(***************************************************************************)

\* The bulk-in transfer ends with n bytes; none when it failed.
UsbReadDone(n) ==
    /\ fault = "none" /\ usb["R"] = "flight"
    /\ usb' = [usb EXCEPT !["R"] = "replied"]
    /\ rActual' = n
    /\ usbPort' = Append(usbPort, "R")
    /\ signals' = signals \cup {"usb"}
    /\ UNCHANGED <<unitPort, listVars, stackPort, mutex, workerVars, rOffset,
                   wio, werr, clientVars, act, err, replied, ghostVars, fault>>

UsbWriteDone(e) ==
    /\ fault = "none" /\ usb["W"] = "flight"
    /\ usb' = [usb EXCEPT !["W"] = "replied"]
    /\ werr' = e
    /\ xfer' = [xfer EXCEPT ![wio] = IF e = "ok" THEN "ok" ELSE "failed"]
    /\ usbPort' = Append(usbPort, "W")
    /\ signals' = signals \cup {"usb"}
    /\ UNCHANGED <<unitPort, listVars, stackPort, mutex, workerVars, rOffset,
                   rActual, wio, clientVars, act, err, replied, accepted, fault>>

UsbInterruptDone ==
    /\ fault = "none" /\ LineReports /\ usb["I"] = "flight"
    /\ usb' = [usb EXCEPT !["I"] = "replied"]
    /\ usbPort' = Append(usbPort, "I")
    /\ signals' = signals \cup {"usb"}
    /\ UNCHANGED <<unitPort, listVars, stackPort, mutex, workerVars, rOffset,
                   rActual, wio, werr, clientVars, act, err, replied, ghostVars,
                   fault>>

StackNotify(n) ==
    /\ fault = "none" /\ Len(stackPort) < MaxNotes
    /\ stackPort' = Append(stackPort, n)
    /\ signals' = signals \cup {"stack"}
    /\ UNCHANGED <<unitPort, listVars, usbPort, mutex, workerVars, usbVars,
                   clientVars, act, err, replied, ghostVars, fault>>

\* Exec expunges the device, which nobody has open: no client has a request
\* out.  The device base is freed and the worker gets SIGF_SINGLE.
Expunge ==
    /\ fault = "none" /\ ~expunged
    /\ \A r \in Req : client[r] = "idle"
    /\ pc # "exit" /\ ~detached
    /\ Expunging # "never"
    /\ Expunging = "at rest" => pc = "wait"
    /\ expunged' = TRUE
    /\ signals' = signals \cup {"single"}
    /\ UNCHANGED <<unitPort, listVars, usbPort, stackPort, mutex, workerVars,
                   usbVars, client, abort, cmd, len, quick, act, err, replied,
                   ghostVars, fault>>

(***************************************************************************)
(* The worker: the main loop of _usbfd_function_RunFunction.               *)
(*   drain     GetMsg on the unit port        dispatch  a request in hand  *)
(*   wait      Wait                           usb       GetMsg on usbPort  *)
(*   rhead     loop over the bytes read       rcopy     GetHead has found  *)
(*                                                      a read request     *)
(*   wnext     a write is answered            wsend     GetHead has found  *)
(*                                                      a write request    *)
(*   notify    UsbStackMsgPort                exit      the loop is left   *)
(* The handlers of the reply port do not take the mutex.                   *)
(***************************************************************************)

\* Everything but Wait reads the device base, which Expunge frees.
AtWork(p) == fault = "none" /\ pc = p /\ ~expunged

UseFreedBase ==
    /\ fault = "none" /\ expunged /\ pc \notin {"wait", "exit"}
    /\ fault' = "used after expunge"
    /\ UNCHANGED <<unitPort, listVars, usbPort, stackPort, signals, mutex,
                   workerVars, usbVars, clientVars, act, err, replied, ghostVars>>

\* A slip: io_Actual and io_Offset keep what the last transfer left in them.
RequestInputUncleared ==
    usb' = [usb EXCEPT !["R"] = "flight"] /\ UNCHANGED <<rOffset, rActual>>

\* ReadUsbIO is cleared and sent for more input.
RequestInput ==
    /\ rOffset' = 0 /\ rActual' = 0
    /\ usb' = [usb EXCEPT !["R"] = "flight"]

\* A slip: the last byte is overlooked.
InputLeftButOne == rOffset + 1 < rActual

\* Bytes of the last transfer have not been handed out.
InputLeft == rOffset < rActual

\* Two slips: the test is missing; the test comes after AddTail.
NoWriteListedUntested == TRUE
NoWriteListedLate == FALSE

\* isWriteRequestsEmpty
NoWriteListed == writeRequests = <<>>

\* Two slips: a write is listed only if it is sent at once; a write goes before
\* those that wait.
ListWriteIfSent(r) ==
    writeRequests' = IF writeRequests = <<>> THEN <<r>> ELSE writeRequests
ListWriteFirst(r) == writeRequests' = <<r>> \o writeRequests

\* AddTail
ListWrite(r) == writeRequests' = Append(writeRequests, r)

TakeRequest ==
    /\ AtWork("drain") /\ unitPort # <<>>
    /\ io' = Head(unitPort)
    /\ unitPort' = Tail(unitPort)
    /\ act' = [act EXCEPT ![Head(unitPort)] = 0]
    /\ pc' = "dispatch"
    /\ UNCHANGED <<listVars, usbPort, stackPort, signals, mutex, woken, detached,
                   usbVars, clientVars, err, replied, ghostVars, fault>>

UnitPortEmpty ==
    /\ AtWork("drain") /\ unitPort = <<>>
    /\ pc' = "wait"
    /\ UNCHANGED <<unitPort, listVars, usbPort, stackPort, signals, mutex, io,
                   woken, detached, usbVars, clientVars, act, err, replied,
                   ghostVars, fault>>

\* CMD_READ, nobody waits, and bytes of the last transfer are left.
ReadBuffered ==
    /\ AtWork("dispatch") /\ cmd[io] = "read" /\ mutex = Free
    /\ readRequests = <<>> /\ InputLeft
    /\ IF len[io] <= rActual - rOffset
         THEN /\ act' = [act EXCEPT ![io] = len[io]]
              /\ rOffset' = rOffset + len[io]
              /\ err' = [err EXCEPT ![io] = "ok"]
              /\ replied' = [replied EXCEPT ![io] = TRUE]
              /\ fault' = ReplyFault(io)
              /\ UNCHANGED <<readRequests, usb, rActual>>
         ELSE \* all that is left goes to the request, then more is asked for
              /\ act' = [act EXCEPT ![io] = rActual - rOffset]
              /\ RequestInput
              /\ fault' = SendFault("R")
              /\ readRequests' = <<io>>
              /\ UNCHANGED <<err, replied>>
    /\ pc' = "drain" /\ io' = Free
    /\ UNCHANGED <<unitPort, writeRequests, usbPort, stackPort, signals, mutex,
                   woken, detached, wio, werr, clientVars, ghostVars>>

\* CMD_READ otherwise: ReadUsbIO is sent, also when reads wait already.
ReadSubmit ==
    /\ AtWork("dispatch") /\ cmd[io] = "read" /\ mutex = Free
    /\ ~(readRequests = <<>> /\ InputLeft)
    /\ readRequests' = Append(readRequests, io)
    /\ RequestInput
    /\ fault' = SendFault("R")
    /\ pc' = "drain" /\ io' = Free
    /\ UNCHANGED <<unitPort, writeRequests, usbPort, stackPort, signals, mutex,
                   woken, detached, wio, werr, clientVars, act, err, replied,
                   ghostVars>>

\* A slip: WriteUsbIO goes on pointing at the first data it was given.
SendWriteStale(r) ==
    /\ usb' = [usb EXCEPT !["W"] = "flight"]
    /\ wio' = IF wio = Free THEN r ELSE wio
    /\ accepted' = Without(accepted, r)
    /\ xfer' = [xfer EXCEPT ![r] = "flight"]
    /\ fault' = SendFault("W")

\* SendIO( WriteUsbIO ) with the data of request r.
SendWrite(r) ==
    /\ usb' = [usb EXCEPT !["W"] = "flight"]
    /\ wio' = r
    /\ accepted' = Without(accepted, r)
    /\ xfer' = [xfer EXCEPT ![r] = "flight"]
    /\ fault' = SendFault("W")

\* CMD_WRITE: sent at once when no write is listed.
WriteAccept ==
    /\ AtWork("dispatch") /\ cmd[io] = "write" /\ mutex = Free
    /\ ListWrite(io)
    /\ IF NoWriteListed
         THEN SendWrite(io)
         ELSE UNCHANGED <<usb, wio, ghostVars, fault>>
    /\ pc' = "drain" /\ io' = Free
    /\ UNCHANGED <<unitPort, readRequests, usbPort, stackPort, signals, mutex,
                   woken, detached, rOffset, rActual, werr, clientVars, act, err,
                   replied>>

\* SDCMD_SETPARAMS (the control transfer's result is ignored) and the commands
\* the worker does not know.
AnswerAtOnce ==
    /\ AtWork("dispatch") /\ cmd[io] \notin {"read", "write"}
    /\ err' = [err EXCEPT ![io] = IF cmd[io] = "params" THEN "ok" ELSE "nocmd"]
    /\ replied' = [replied EXCEPT ![io] = TRUE]
    /\ fault' = ReplyFault(io)
    /\ pc' = "drain" /\ io' = Free
    /\ UNCHANGED <<unitPort, listVars, usbPort, stackPort, signals, mutex, woken,
                   detached, usbVars, clientVars, act, ghostVars>>

WaitSignal ==
    /\ fault = "none" /\ pc = "wait" /\ signals # {}
    /\ woken' = signals \cap {"usb", "stack"}
    /\ signals' = {}
    /\ pc' = IF "single" \in signals THEN "exit" ELSE "usb"
    /\ UNCHANGED <<unitPort, listVars, usbPort, stackPort, mutex, io, detached,
                   usbVars, clientVars, act, err, replied, ghostVars, fault>>

\* A slip: one message is taken where there may be several.
PortServedOnce(signal, port) == TRUE

\* The loop over a port ends when GetMsg finds nothing; without the signal of
\* the port it is not entered.
PortServed(signal, port) == signal \notin woken \/ port = <<>>

UsbPortDone ==
    /\ AtWork("usb")
    /\ PortServed("usb", usbPort)
    /\ pc' = "notify"
    /\ UNCHANGED <<unitPort, listVars, usbPort, stackPort, signals, mutex, io,
                   woken, detached, usbVars, clientVars, act, err, replied,
                   ghostVars, fault>>

\* GetMsg returns the completed transfer x.
TakeUsb(x) ==
    /\ AtWork("usb") /\ "usb" \in woken
    /\ usbPort # <<>> /\ Head(usbPort) = x
    /\ usbPort' = Tail(usbPort)

\* A slip: a read that brought nothing is not repeated.
NothingReadIgnored == FALSE

NothingRead == rActual = 0

ReadReplied ==
    /\ TakeUsb("R")
    /\ IF NothingRead
         THEN /\ rOffset' = 0 /\ usb' = [usb EXCEPT !["R"] = "flight"] /\ pc' = "usb"
              /\ fault' = ResendFault("R")
         ELSE /\ usb' = [usb EXCEPT !["R"] = "idle"]
              /\ pc' = IF rOffset < rActual THEN "rhead" ELSE "usb"
              /\ UNCHANGED <<rOffset, fault>>
    /\ UNCHANGED <<unitPort, listVars, stackPort, signals, mutex, io, woken,
                   detached, rActual, wio, werr, clientVars, act, err, replied,
                   ghostVars>>

\* A slip: GetHead is not asked whether there is a request.
ReadHeadUntested ==
    /\ AtWork("rhead")
    /\ pc' = "rcopy"
    /\ io' = IF readRequests = <<>> THEN Free ELSE Head(readRequests)
    /\ UNCHANGED <<unitPort, listVars, usbPort, stackPort, signals, mutex, woken,
                   detached, usbVars, clientVars, act, err, replied, ghostVars,
                   fault>>

\* GetHead of the read requests, bytes being left in the buffer.
ReadHead ==
    /\ AtWork("rhead")
    /\ IF readRequests = <<>>
         THEN pc' = "usb" /\ io' = io
         ELSE pc' = "rcopy" /\ io' = Head(readRequests)
    /\ UNCHANGED <<unitPort, listVars, usbPort, stackPort, signals, mutex, woken,
                   detached, usbVars, clientVars, act, err, replied, ghostVars,
                   fault>>

\* A slip: a read that is answered stays listed.
ReadsAfterKept(r) == readRequests

\* Remove
ReadsAfter(r) == Without(readRequests, r)

\* The buffer holds what the request still lacks: copied, removed, replied.
\* CopyMem copies io_Length bytes to io_Data + io_Actual.
ReadServe ==
    /\ AtWork("rcopy")
    /\ len[io] - act[io] <= rActual - rOffset
    /\ LET rest == ReadsAfter(io)
           done == rOffset + len[io]
           more == done = rActual /\ rest # <<>>
       IN /\ readRequests' = rest
          /\ IF more
               THEN RequestInput
               ELSE rOffset' = done /\ UNCHANGED <<rActual, usb>>
          /\ pc' = IF ~more /\ done < rActual THEN "rhead" ELSE "usb"
          /\ fault' = CASE act[io] > 0 -> "copied past the end"
                        [] act[io] = 0 /\ ~Contains(readRequests, io) ->
                              "removed while in no list"
                        [] act[io] = 0 /\ Contains(readRequests, io) /\ Walked(Reads) ->
                              "changed while walked"
                        [] OTHER -> IF more THEN SendFault("R") ELSE "none"
    /\ act' = [act EXCEPT ![io] = len[io]]
    /\ err' = [err EXCEPT ![io] = "ok"]
    /\ replied' = [replied EXCEPT ![io] = TRUE]
    /\ io' = Free
    /\ UNCHANGED <<unitPort, writeRequests, usbPort, stackPort, signals, mutex,
                   woken, detached, wio, werr, clientVars, ghostVars>>

\* The buffer holds less: all of it is copied, and more is asked for.
ReadPart ==
    /\ AtWork("rcopy")
    /\ len[io] - act[io] > rActual - rOffset
    /\ act' = [act EXCEPT ![io] = rActual - rOffset]
    /\ IF readRequests # <<>>
         THEN RequestInput
         ELSE rOffset' = rActual /\ UNCHANGED <<rActual, usb>>
    /\ fault' = CASE ~Contains(readRequests, io) -> "copied to a removed request"
                  [] Contains(readRequests, io) -> SendFault("R")
    /\ pc' = "usb" /\ io' = Free
    /\ UNCHANGED <<unitPort, listVars, usbPort, stackPort, signals, mutex, woken,
                   detached, wio, werr, clientVars, err, replied, ghostVars>>

\* A slip: io_Error is not passed on.
WriteResultLost == "ok"

WriteResult == werr

\* RemHead of the write requests, with no test for an empty list, and ReplyMsg.
WriteReplied ==
    /\ TakeUsb("W")
    /\ usb' = [usb EXCEPT !["W"] = "idle"]
    /\ IF writeRequests = <<>>
         THEN fault' = "no request to answer" /\ UNCHANGED <<writeRequests, err, replied>>
         ELSE /\ writeRequests' = Tail(writeRequests)
              /\ err' = [err EXCEPT ![Head(writeRequests)] = WriteResult]
              /\ replied' = [replied EXCEPT ![Head(writeRequests)] = TRUE]
              /\ fault' = CASE Walked(Writes) -> "changed while walked"
                            [] ~Walked(Writes) /\ replied[Head(writeRequests)] ->
                                  "replied twice"
                            [] OTHER -> "none"
    /\ pc' = "wnext"
    /\ UNCHANGED <<unitPort, readRequests, stackPort, signals, mutex, io, woken,
                   detached, rOffset, rActual, wio, werr, clientVars, act,
                   ghostVars>>

\* GetHead of the write requests.
WriteNext ==
    /\ AtWork("wnext")
    /\ IF writeRequests = <<>>
         THEN pc' = "usb" /\ io' = io
         ELSE pc' = "wsend" /\ io' = Head(writeRequests)
    /\ UNCHANGED <<unitPort, listVars, usbPort, stackPort, signals, mutex, woken,
                   detached, usbVars, clientVars, act, err, replied, ghostVars,
                   fault>>

\* Its data is sent, wherever the request is by now.
WriteSend ==
    /\ AtWork("wsend")
    /\ SendWrite(io)
    /\ pc' = "usb" /\ io' = Free
    /\ UNCHANGED <<unitPort, listVars, usbPort, stackPort, signals, mutex, woken,
                   detached, rOffset, rActual, werr, clientVars, act, err, replied>>

\* The interrupt transfer is sent again unless it failed.
InterruptReplied ==
    /\ TakeUsb("I")
    /\ \/ usb' = [usb EXCEPT !["I"] = "flight"] /\ fault' = ResendFault("I")
       \/ usb' = [usb EXCEPT !["I"] = "idle"] /\ fault' = "none"
    /\ UNCHANGED <<unitPort, listVars, stackPort, signals, mutex, workerVars,
                   rOffset, rActual, wio, werr, clientVars, act, err, replied,
                   ghostVars>>

TakeNotification ==
    /\ AtWork("notify") /\ "stack" \in woken /\ stackPort # <<>>
    /\ stackPort' = Tail(stackPort)
    /\ detached' = (detached \/ Head(stackPort) = "detach")
    /\ UNCHANGED <<unitPort, listVars, usbPort, signals, mutex, pc, io, woken,
                   usbVars, clientVars, act, err, replied, ghostVars, fault>>

\* A slip: the break leaves the loop over the notifications only.
LeavesLoopNever == FALSE

\* The condition of the main loop.
LeavesLoop == detached

LoopEnd ==
    /\ AtWork("notify")
    /\ PortServed("stack", stackPort)
    /\ woken' = {}
    /\ pc' = IF LeavesLoop THEN "exit" ELSE "drain"
    /\ UNCHANGED <<unitPort, listVars, usbPort, stackPort, signals, mutex, io,
                   detached, usbVars, clientVars, act, err, replied, ghostVars,
                   fault>>

Worker ==
    \/ UseFreedBase
    \/ TakeRequest \/ UnitPortEmpty
    \/ ReadBuffered \/ ReadSubmit \/ WriteAccept \/ AnswerAtOnce
    \/ WaitSignal
    \/ UsbPortDone \/ ReadReplied \/ ReadHead \/ ReadServe \/ ReadPart
    \/ WriteReplied \/ WriteNext \/ WriteSend \/ InterruptReplied
    \/ TakeNotification \/ LoopEnd

Client(r) ==
    \/ \E n \in ReadLengths, q \in Quicks : BeginQueued(r, "read", n, q)
    \/ \E c \in {"write", "params", "other"}, q \in Quicks : BeginQueued(r, c, 0, q)
    \/ \E c \in Immediate, q \in Quicks, e \in {"ok", "bad"} : BeginImmediate(r, c, q, e)
    \/ BeginReturn(r)
    \/ Collect(r)

Aborter(r) ==
    \/ AbortLock(r) \/ AbortRead(r) \/ AbortWriteTail(r) \/ AbortWaitIO(r)
    \/ AbortWriteListed(r) \/ AbortMissing(r) \/ AbortReply(r) \/ AbortOther(r)

Host ==
    \/ \E n \in 0..MaxPacket : UsbReadDone(n)
    \/ \E e \in {"ok", "usb"} : UsbWriteDone(e)
    \/ UsbInterruptDone
    \/ \E n \in Notes : StackNotify(n)
    \/ Expunge

\* The loop has been left, or the program has misused exec.
Stopped == (pc = "exit" \/ fault # "none") /\ UNCHANGED vars

Next ==
    \/ Worker
    \/ \E r \in Req : Client(r) \/ Aborter(r)
    \/ Host
    \/ Stopped

Spec == Init /\ [][Next]_vars

(***************************************************************************)
(* Fairness.  The worker is a task that exec keeps scheduling, a client    *)
(* inside BeginIO runs on, and the USB stack ends every bulk-out transfer. *)
(* A bulk-in transfer that is repeated again and again brings data some    *)
(* time: the other side keeps sending.                                     *)
(***************************************************************************)
Fairness ==
    /\ WF_vars(Worker)
    /\ \A r \in Req : WF_vars(BeginReturn(r))
    /\ WF_vars(\E e \in {"ok", "usb"} : UsbWriteDone(e))
    /\ SF_vars(\E n \in 1..MaxPacket : UsbReadDone(n))

FairSpec == Spec /\ Fairness

(***************************************************************************)
(* Type invariant.                                                         *)
(***************************************************************************)

PortsOK ==
    /\ unitPort \in Seq(Req)
    /\ readRequests \in Seq(Req) /\ writeRequests \in Seq(Req)
    /\ usbPort \in Seq(Transfers) /\ stackPort \in Seq(Notes)
    /\ signals \in SUBSET {"unit", "usb", "stack", "single"}

WorkerOK ==
    /\ mutex \in Req \cup {Free}
    /\ pc \in {"drain", "dispatch", "wait", "usb", "rhead", "rcopy", "wnext",
               "wsend", "notify", "exit"}
    /\ io \in Req \cup {Free} /\ (pc \in {"dispatch", "rcopy", "wsend"} => io \in Req)
    /\ woken \in SUBSET {"usb", "stack"}
    /\ detached \in BOOLEAN /\ expunged \in BOOLEAN

TransfersOK ==
    /\ usb \in [Transfers -> {"idle", "flight", "replied"}]
    /\ rOffset \in Nat /\ rActual \in Nat
    /\ wio \in Req \cup {Free} /\ werr \in {"ok", "usb"}

RequestsOK ==
    /\ client \in [Req -> {"idle", "putting", "out"}]
    /\ abort \in [Req -> {"none", "search", "waitio", "found", "missing", "done"}]
    /\ cmd \in [Req -> Commands]
    /\ len \in [Req -> Nat] /\ act \in [Req -> Nat]
    /\ err \in [Req -> Errors]
    /\ quick \in [Req -> BOOLEAN] /\ replied \in [Req -> BOOLEAN]

GhostsOK ==
    /\ accepted \in Seq(Req)
    /\ xfer \in [Req -> {"none", "flight", "ok", "failed"}]
    /\ fault \in {"none", "replied twice", "replied while queued",
                  "replied while in hand", "replied while in flight",
                  "sent while in use", "copied past the end",
                  "removed while in no list", "copied to a removed request",
                  "changed while walked", "no request to answer",
                  "used after expunge"}

\* Type correctness of the state of the I/O path.
TypeOK == PortsOK /\ WorkerOK /\ TransfersOK /\ RequestsOK /\ GhostsOK

(***************************************************************************)
(* Safety.                                                                 *)
(***************************************************************************)

\* As long as nobody calls AbortIO, at most one read is outstanding and reads
\* ask for one byte, the worker never misuses exec: no transfer is sent
\* while it is in use, no request answered twice or while it is in a list, no
\* node removed from a list it is not in, no copy beyond a client's buffer.
NoMisuse == fault = "none"

\* The worker never sleeps over a message: when it waits and a port holds
\* something, the signal of that port is set (the loops up to Wait and the
\* clearing of signals by Wait leave no gap).
NoLostWakeup ==
    pc = "wait" =>
        /\ unitPort # <<>> => "unit" \in signals
        /\ usbPort # <<>> => "usb" \in signals
        /\ stackPort # <<>> => "stack" \in signals

\* The input buffer is never read past the bytes it holds, and nothing in it is
\* counted while the USB stack fills it - even if reads are aborted.
BufferBounds ==
    fault = "none" =>
        /\ rOffset <= rActual
        /\ pc \in {"rhead", "rcopy"} => rOffset < rActual
        /\ usb["R"] = "flight" => rActual = 0

\* WriteUsbIO always carries the data of the oldest listed write, the one that
\* RemHead takes when the transfer is replied, and a listed write always has
\* that transfer under way or is about to be sent.
WriteOwnership ==
    /\ usb["W"] # "idle" => writeRequests # <<>> /\ Head(writeRequests) = wio
    /\ writeRequests # <<>> => usb["W"] # "idle" \/ pc \in {"wnext", "wsend"}

\* A listed read always has ReadUsbIO under way or is being served, and
\* ReadUsbIO is never under way for nobody: between reads it is idle, so the
\* next CMD_READ may send it and the teardown may free it.
ReadOwnership ==
    /\ readRequests # <<>> => usb["R"] # "idle" \/ pc \in {"rhead", "rcopy"}
    /\ usb["R"] # "idle" => readRequests # <<>> /\ rOffset = 0

\* The places in which the driver holds request r.
Custodians(r) ==
    {<<"port", i>> : i \in {j \in 1..Len(unitPort) : unitPort[j] = r}} \cup
    {<<"read", i>> : i \in {j \in 1..Len(readRequests) : readRequests[j] = r}} \cup
    {<<"write", i>> : i \in {j \in 1..Len(writeRequests) : writeRequests[j] = r}} \cup
    {<<"hand", 0>> : h \in {p \in {pc} : p = "dispatch" /\ io = r}}

\* Custody: from PutMsg to ReplyMsg a request is in exactly one place of the
\* driver - never lost, never in two lists - and in none otherwise, nor once its
\* AbortIO has taken it out.  Whoever aborts whatever, but only up to the first
\* misuse: the worker's change of a list that AbortIO is walking is one.
Custody ==
    fault = "none" =>
        \A r \in Req :
            Cardinality(Custodians(r)) =
                IF /\ client[r] # "idle" /\ ~replied[r] /\ cmd[r] \notin Immediate
                   /\ abort[r] \notin {"waitio", "found"}
                  THEN 1 ELSE 0

\* When BeginIO has returned and left IOF_QUICK set (DoIO then does not wait),
\* the driver has nothing more to do with the request.
QuickMeansDone ==
    \A r \in Req : client[r] = "out" /\ quick[r] =>
        ~Linked(r) /\ ~(pc = "dispatch" /\ io = r)

\* A write is answered with success exactly if its own data went over the wire.
ReplyReflectsTransfer ==
    \A r \in Req : client[r] # "idle" /\ cmd[r] = "write" /\ replied[r] =>
        IF err[r] = "ok" THEN xfer[r] = "ok" ELSE xfer[r] = "failed"

(***************************************************************************)
(* What a step may never do.                                               *)
(***************************************************************************)

\* Writes go over the wire in the order in which BeginIO accepted them.
WriteOrder ==
    [][\A r \in Req : xfer[r] # "flight" /\ xfer'[r] = "flight" =>
          accepted # <<>> /\ Head(accepted) = r]_vars

\* Once a request is answered the driver leaves its result alone until the
\* client takes it back, unless the step is a misuse of exec: no AbortIO reaches
\* an answered request, and the worker none that was aborted, in any other way.
ReplyIsFinal ==
    [][fault' = "none" =>
          \A r \in Req : replied[r] /\ client[r] # "idle" /\ client'[r] # "idle" =>
              act'[r] = act[r] /\ err'[r] = err[r] /\ replied'[r]]_vars

\* There is no safe moment for AbortIO but one: a call that ends without misuse has
\* found its read or write in a list, or was made for a request that the worker never
\* had and nobody has replied, one that BeginIO finished with IOF_QUICK set.
HarmlessAbort ==
    [][fault' = "none" =>
          \A r \in Req : abort[r] # "done" /\ abort'[r] = "done" =>
              abort[r] = "found" \/ (cmd[r] \in Immediate /\ ~replied[r])]_vars

\* When the input buffer is given back to the USB stack, every byte in it has
\* been handed out: what was left goes to one request on that very step.
NoInputDiscarded ==
    [][rOffset < rActual /\ rActual' = 0 =>
          \E r \in Req : act'[r] = act[r] + (rActual - rOffset)]_vars

(***************************************************************************)
(* What the clients are promised.                                          *)
(***************************************************************************)

Status(r) ==
    CASE client[r] = "idle" -> "idle"
      [] client[r] # "idle" /\ ~replied[r] -> "pending"
      [] OTHER -> "answered"

\* What waits in the driver, in the order of its service: the list behind the
\* write that is on the wire or waits for its answer, the worker's hand, the
\* unit port.
Waiting ==
    (IF usb["W"] = "idle" THEN writeRequests ELSE Tail(writeRequests))
    \o (IF pc = "dispatch" THEN <<io>> ELSE <<>>)
    \o unitPort
Precedes(s, a, b) == \E i, j \in 1..Len(s) : i < j /\ s[i] = a /\ s[j] = b

\* The list, the worker's hand and the unit port together are one queue: the
\* writes in it are those that BeginIO has accepted and that have not been sent,
\* each once and in the order of their acceptance.
OneQueue ==
    /\ IsInjective(accepted)
    /\ ToSet(accepted) = {r \in ToSet(Waiting) : cmd[r] = "write"}
    /\ \A i, j \in 1..Len(accepted) :
          i < j => Precedes(Waiting, accepted[i], accepted[j])

statusBar == [r \in Req |-> Status(r)]
kindBar == [r \in Req |-> IF client[r] = "idle" THEN "none" ELSE cmd[r]]
resultBar == [r \in Req |-> IF Status(r) = "answered" THEN err[r] ELSE "none"]
wireBar == IF usb["W"] = "flight" THEN wio ELSE Free
outcomeBar == [r \in Req |-> IF xfer[r] = "flight" THEN "none" ELSE xfer[r]]
availableBar == rActual - rOffset

Device == INSTANCE SerialDevice WITH
    Nobody    <- Free,
    Lengths   <- ReadLengths,
    Burst     <- MaxPacket,
    status    <- statusBar,
    kind      <- kindBar,
    want      <- len,
    result    <- resultBar,
    unsent    <- accepted,
    wire      <- wireBar,
    outcome   <- outcomeBar,
    available <- availableBar

\* As long as nobody calls AbortIO, at most one read is outstanding and reads
\* ask for one byte, the driver keeps the promise: the accepted writes leave
\* one at a time in their order and are answered with their own outcome, and the
\* read buffer hands out what came in, through every interleaving of clients,
\* worker and USB stack.
DeviceKept == Device!Spec

(***************************************************************************)
(* Liveness, under FairSpec.                                               *)
(***************************************************************************)

\* The condition of what follows, which the code does not ensure: the worker gets
\* back to Wait, or in the end takes no more messages.  It does neither when the
\* messages of a port come as fast as it takes them - requests of clients, or a
\* bulk-in transfer that fails at once and is sent again within the loop over the
\* reply port.  Then nothing else is served, not even a detach.
NoFlood ==
    \/ []<>(pc \in {"wait", "exit"})
    \/ <>[][~(TakeRequest \/ TakeNotification \/ \E x \in Transfers : TakeUsb(x))]_vars

\* Unless a port is flooded, every write is answered or the device goes away.
WriteAnswered ==
    NoFlood => \A r \in Req : client[r] # "idle" /\ cmd[r] = "write" ~> replied[r] \/ detached

\* Unless a port is flooded, every read is answered or the device goes away, as
\* long as the other side keeps sending.
ReadAnswered ==
    NoFlood => \A r \in Req : client[r] # "idle" /\ cmd[r] = "read" ~> replied[r] \/ detached

\* Unless a port is flooded, a detach notification ends the main loop.
DetachNoticed == NoFlood => (Contains(stackPort, "detach") ~> pc = "exit")

(***************************************************************************)
(* Statements of the source that the code does not keep (violation runs).  *)
(***************************************************************************)

\* pl2303_manager_begin_io.c: requests are queued "so two tasks sending
\* commands at the same time don't cause a problem".  Says that ReadUsbIO is
\* sent only when the worker owns it.
SentWhenIdle == fault # "sent while in use"

\* pl2303_devicebase.h: "Mutex for accing the floowing read/write lists".  Says that
\* no list changes under a client that has the mutex and is inside the list.
ListsUnderMutex == fault # "changed while walked"

\* pl2303_manager_abort_io.c: "If the IORequest was already complete, nothing
\* happens".  Says that AbortIO leaves an answered request as it is.
CompleteNotAborted ==
    [][\A r \in Req : replied[r] /\ abort[r] # "done" /\ abort'[r] = "done" =>
          err'[r] = err[r] /\ fault' = "none"]_vars
=============================================================================
