----------------------------- MODULE PL2303Unit -----------------------------
(***************************************************************************)
(* The life of the device: clients open and close pl2303.device, the       *)
(* system may expunge it, and the USB function-driver task (the worker)    *)
(* creates it, serves it, and takes it away when the adapter is detached.  *)
(* What the worker does while it serves requests is PL2303IO's matter:     *)
(* here it is "busy" or waits.                                             *)
(*                                                                         *)
(* A use of the device base after DeleteLibrary has freed it is undefined  *)
(* behaviour: "fault" records it and the behaviour ends.                   *)
(***************************************************************************)
EXTENDS Naturals, FiniteSets

CONSTANTS
    Client,       \* the tasks that open the device
    SharedUsers,  \* those of them that open it with SERF_SHARED
    Forbid,       \* exec calls the manager's methods with task switching forbidden
    SystemExpunge,\* "never", "at rest" (while the worker waits) or "any time"
    ChipMayFail   \* the setup of the chip or of its line coding may fail

ASSUME ClientAssumption == IsFiniteSet(Client)
ASSUME SharedAssumption == SharedUsers \subseteq Client
ASSUME ModeAssumption ==
    /\ Forbid \in BOOLEAN /\ ChipMayFail \in BOOLEAN
    /\ SystemExpunge \in {"never", "at rest", "any time"}

VARIABLES
    base,       \* the device base: "none", "live" or "freed"
    listed,     \* the device is in exec's device list
    openCnt,    \* lib_OpenCnt
    shared,     \* SERF_SHARED in io_SerFlags of the base
    delexp,     \* LIBF_DELEXP
    call,       \* what each client does: "closed", "opening", "open"
    seen,       \* lib_OpenCnt as the client's Open found it
    params,     \* SDCMD_SETPARAMS of each client: "none", "queued", "applying"
    loaded,     \* SERF_SHARED as the worker has loaded it with io_SerFlags
    expunge,    \* progress of Expunge called by the system or by the worker
    single,     \* SIGF_SINGLE of the worker
    worker,     \* progress of the worker, see below
    fault       \* "none" or the first use of the base after it was freed

paramVars == <<params, loaded>>
vars == <<base, listed, openCnt, shared, delexp, call, seen, paramVars, expunge,
          single, worker, fault>>

Callers == {"system", "worker"}

Init ==
    /\ base = "none" /\ listed = FALSE
    /\ openCnt = 0 /\ shared = FALSE /\ delexp = FALSE
    /\ call = [c \in Client |-> "closed"] /\ seen = [c \in Client |-> 0]
    /\ params = [c \in Client |-> "none"] /\ loaded = FALSE
    /\ expunge = [p \in Callers |-> "none"]
    /\ single \in BOOLEAN      \* SIGF_SINGLE may be left over from the setup
    /\ worker = "setup"
    /\ fault = "none"

\* With task switching forbidden a call of the manager runs to its end.
NoClientCall == Forbid => \A c \in Client : call[c] # "opening"
NoExpungeBy(p) == Forbid => expunge[p] = "none"
Undisturbed == NoClientCall /\ \A p \in Callers : NoExpungeBy(p)

(***************************************************************************)
(* The clients.                                                            *)
(***************************************************************************)

\* A slip: a reference is not counted.
TakeReferenceUncounted == UNCHANGED openCnt

TakeReference == openCnt' = openCnt + 1
GiveBack == openCnt' = openCnt - 1

\* Open takes its reference first: __sync_fetch_and_add of lib_OpenCnt.
OpenStart(c) ==
    /\ fault = "none" /\ listed /\ call[c] = "closed" /\ Undisturbed
    /\ TakeReference
    /\ seen' = [seen EXCEPT ![c] = openCnt]
    /\ call' = [call EXCEPT ![c] = "opening"]
    /\ UNCHANGED <<base, listed, shared, delexp, expunge, single, worker,
                   paramVars, fault>>

\* A slip: the count is taken for the one after the increment.
BusyLate(c) == seen[c] > 1 /\ ~shared

\* The unit is refused to c: somebody had it open, and not shared.
Busy(c) == seen[c] > 0 /\ ~shared

\* The error exit of Open: the reference is given back; io_Error tells the caller.
OpenFails(c) ==
    /\ fault = "none" /\ call[c] = "opening"
    /\ base = "live"
    /\ GiveBack
    /\ call' = [call EXCEPT ![c] = "closed"]
    /\ seen' = [seen EXCEPT ![c] = 0]
    /\ UNCHANGED <<base, listed, shared, delexp, expunge, single, worker,
                   paramVars, fault>>

\* A slip: the busy unit is refused with a return in place of the error exit.
OpenBusyAtOnce(c) ==
    /\ fault = "none" /\ call[c] = "opening"
    /\ base = "live" /\ Busy(c)
    /\ call' = [call EXCEPT ![c] = "closed"]
    /\ seen' = [seen EXCEPT ![c] = 0]
    /\ UNCHANGED <<base, listed, openCnt, shared, delexp, expunge, single, worker,
                   paramVars, fault>>

\* The three ways to it: a request that is too short or a unit that does not exist,
\* which only the caller decides, and a unit that is busy.
OpenInvalid(c) == OpenFails(c)
OpenBusy(c) == Busy(c) /\ OpenFails(c)
OpenRefused(c) == OpenInvalid(c) \/ OpenBusy(c)

OpenGranted(c) ==
    /\ fault = "none" /\ call[c] = "opening"
    /\ base = "live" /\ ~Busy(c)
    /\ shared' = (shared \/ c \in SharedUsers)
    /\ delexp' = FALSE
    /\ call' = [call EXCEPT ![c] = "open"]
    /\ seen' = [seen EXCEPT ![c] = 0]
    /\ UNCHANGED <<base, listed, openCnt, expunge, single, worker, paramVars,
                   fault>>

\* The base is gone before Open or Close has done its work.
ClientOnFreed(c) ==
    /\ fault = "none" /\ call[c] # "closed" /\ base = "freed"
    /\ fault' = "called on freed base"
    /\ UNCHANGED <<base, listed, openCnt, shared, delexp, call, seen, expunge,
                   single, worker, paramVars>>

\* BeginIO of SDCMD_SETPARAMS, up to the unit port.
SetParams(c) ==
    /\ fault = "none" /\ call[c] = "open" /\ base = "live" /\ params[c] = "none"
    /\ params' = [params EXCEPT ![c] = "queued"]
    /\ UNCHANGED <<base, listed, openCnt, shared, delexp, call, seen, loaded,
                   expunge, single, worker, fault>>

\* Clients take back their requests before they close.
Close(c) ==
    /\ fault = "none" /\ call[c] = "open" /\ Undisturbed
    /\ base = "live" /\ params[c] = "none"
    /\ GiveBack
    /\ call' = [call EXCEPT ![c] = "closed"]
    /\ UNCHANGED <<base, listed, shared, delexp, seen, expunge, single, worker,
                   paramVars, fault>>

(***************************************************************************)
(* Expunge, called by the system or, through RemDevice, by the worker.     *)
(***************************************************************************)

\* A slip: the open count is not looked at.
ExpungeUnchecked(p) == expunge' = [expunge EXCEPT ![p] = "checked"] /\ UNCHANGED delexp

\* The open count is looked at; if it is not 0 the expunge is put off.
ExpungeCheck(p) ==
    /\ IF openCnt # 0
         THEN delexp' = TRUE /\ expunge' = [expunge EXCEPT ![p] = "refused"]
         ELSE expunge' = [expunge EXCEPT ![p] = "checked"] /\ UNCHANGED delexp

\* Exec is short of memory and asks the device to go.
SystemExpunges ==
    /\ fault = "none" /\ listed /\ expunge["system"] = "none" /\ Undisturbed
    /\ SystemExpunge # "never"
    /\ SystemExpunge = "at rest" => worker \in {"wait", "parked"}
    /\ ExpungeCheck("system")
    /\ UNCHANGED <<base, listed, openCnt, shared, call, seen, single, worker,
                   paramVars, fault>>

\* Remove and DeleteLibrary.
ExpungeFree(p) ==
    /\ fault = "none" /\ expunge[p] = "checked"
    /\ base' = "freed" /\ listed' = FALSE
    /\ fault' = CASE base = "freed" -> "freed twice"
                  [] base = "live" /\ ~listed -> "removed while in no list"
                  [] OTHER -> "none"
    /\ expunge' = [expunge EXCEPT ![p] = "freed"]
    /\ UNCHANGED <<openCnt, shared, delexp, call, seen, single, worker,
                   paramVars>>

\* A slip: only the worker itself is thought to expunge, nobody is signalled.
SignalNobody == UNCHANGED single

\* Signal( devBase->pl2303_USBFDTask,SIGF_SINGLE ).  The task is read from the
\* freed base: if another task runs in between, the memory may hold anything.
SignalWorker == single' = TRUE \/ (~Forbid /\ UNCHANGED single)

ExpungeSignal(p) ==
    /\ fault = "none" /\ expunge[p] = "freed"
    /\ SignalWorker
    /\ expunge' = [expunge EXCEPT ![p] = "signalled"]
    /\ UNCHANGED <<base, listed, openCnt, shared, delexp, call, seen, worker,
                   paramVars, fault>>

\* The system's call returns.
ExpungeReturn ==
    /\ fault = "none" /\ expunge["system"] \in {"refused", "signalled"}
    /\ expunge' = [expunge EXCEPT !["system"] = "none"]
    /\ UNCHANGED <<base, listed, openCnt, shared, delexp, call, seen, single,
                   worker, paramVars, fault>>

(***************************************************************************)
(* The worker, from its start to the end of its cleanup:                   *)
(*   setup     what the device needs is being acquired                     *)
(*   created   the chip is being set up    added    AddDevice has returned *)
(*   wait      in Wait of the main loop    busy     elsewhere in the loop  *)
(*   applying  in the middle of changing io_SerFlags                       *)
(*   left      the main loop has been left, or the chip could not be set up*)
(*   remove    SIGF_SINGLE is cleared      removing in RemDevice           *)
(*   parked    waits for the expunge       freeing  frees mutex, requests, *)
(*   done      the task has ended                   buffers and port       *)
(***************************************************************************)
Moves(from, to) ==
    /\ fault = "none" /\ worker = from /\ worker' = to
    /\ NoClientCall /\ NoExpungeBy("system")

\* CreateLibrary: the base exists, nobody can find it yet.
CreateBase ==
    /\ Moves("setup", "created")
    /\ base' = "live"
    /\ UNCHANGED <<listed, openCnt, shared, delexp, call, seen, expunge,
                   single, paramVars, fault>>

\* Something the device needs cannot be had: a jump into the cleanup.
SetupFails ==
    /\ Moves("setup", "freeing")
    /\ UNCHANGED <<base, listed, openCnt, shared, delexp, call, seen, expunge,
                   single, paramVars, fault>>

ChipFails ==
    /\ ChipMayFail /\ Moves("created", "left")
    /\ UNCHANGED <<base, listed, openCnt, shared, delexp, call, seen, expunge,
                   single, paramVars, fault>>

AddDevice ==
    /\ Moves("created", "added")
    /\ listed' = TRUE
    /\ UNCHANGED <<base, openCnt, shared, delexp, call, seen, expunge, single,
                   paramVars, fault>>

\* A slip: SIGF_SINGLE is taken to be clear.
KeepSingle == UNCHANGED single

\* SetSignal( 0,SIGF_SINGLE )
ClearSingle == single' = FALSE

\* The signal is cleared before the main loop.
EnterLoop ==
    /\ Moves("added", "busy")
    /\ ClearSingle
    /\ UNCHANGED <<base, listed, openCnt, shared, delexp, call, seen, expunge,
                   paramVars, fault>>

\* The loop works on the device base all the time but in Wait.
Work ==
    /\ Moves("busy", "wait")
    /\ fault' = IF base = "freed" THEN "worked on freed base" ELSE "none"
    /\ UNCHANGED <<base, listed, openCnt, shared, delexp, call, seen, expunge,
                   single, paramVars>>

\* The worker applies the parameters of a client: the parity flags change in
\* io_SerFlags, the byte in which Open sets SERF_SHARED.  The worker is not
\* alone between the load of that byte and the store.
LoadFlags(c) ==
    /\ Moves("busy", "applying") /\ params[c] = "queued"
    /\ params' = [params EXCEPT ![c] = "applying"]
    /\ loaded' = shared
    /\ fault' = IF base = "freed" THEN "worked on freed base" ELSE "none"
    /\ UNCHANGED <<base, listed, openCnt, shared, delexp, call, seen, expunge,
                   single>>

StoreFlags(c) ==
    /\ Moves("applying", "busy") /\ params[c] = "applying"
    /\ params' = [params EXCEPT ![c] = "none"]
    /\ shared' = loaded
    /\ fault' = IF base = "freed" THEN "worked on freed base" ELSE "none"
    /\ UNCHANGED <<base, listed, openCnt, delexp, call, seen, loaded, expunge,
                   single>>

\* Wait returns for a message of a client or of the USB stack.
WakeForWork ==
    /\ Moves("wait", "busy") /\ ~single
    /\ UNCHANGED <<base, listed, openCnt, shared, delexp, call, seen, expunge,
                   single, paramVars, fault>>

WakeForExpunge ==
    /\ Moves("wait", "freeing") /\ single
    /\ single' = FALSE
    /\ UNCHANGED <<base, listed, openCnt, shared, delexp, call, seen, expunge,
                   paramVars, fault>>

\* The detach notification ends the loop.
Detach ==
    /\ Moves("busy", "left")
    /\ UNCHANGED <<base, listed, openCnt, shared, delexp, call, seen, expunge,
                   single, paramVars, fault>>

ClearSignal ==
    /\ Moves("left", "remove")
    /\ ClearSingle
    /\ UNCHANGED <<base, listed, openCnt, shared, delexp, call, seen, expunge,
                   paramVars, fault>>

RemDevice ==
    /\ Moves("remove", "removing")
    /\ IF base = "freed"
         THEN fault' = "removed freed base" /\ UNCHANGED <<delexp, expunge>>
         ELSE fault' = "none" /\ ExpungeCheck("worker")
    /\ UNCHANGED <<base, listed, openCnt, shared, call, seen, single,
                   paramVars>>

RemDeviceReturn ==
    /\ Moves("removing", "parked")
    /\ expunge["worker"] \in {"refused", "signalled"}
    /\ expunge' = [expunge EXCEPT !["worker"] = "none"]
    /\ UNCHANGED <<base, listed, openCnt, shared, delexp, call, seen, single,
                   paramVars, fault>>

\* Wait( SIGF_SINGLE ).
Unpark ==
    /\ Moves("parked", "freeing") /\ single
    /\ single' = FALSE
    /\ UNCHANGED <<base, listed, openCnt, shared, delexp, call, seen, expunge,
                   paramVars, fault>>

FreeResources ==
    /\ Moves("freeing", "done")
    /\ UNCHANGED <<base, listed, openCnt, shared, delexp, call, seen, expunge,
                   single, paramVars, fault>>

Worker ==
    \/ CreateBase \/ SetupFails \/ ChipFails \/ AddDevice \/ EnterLoop \/ Work
    \/ (\E c \in Client : LoadFlags(c) \/ StoreFlags(c))
    \/ WakeForWork \/ WakeForExpunge \/ Detach
    \/ ClearSignal \/ RemDevice \/ RemDeviceReturn \/ Unpark \/ FreeResources

Expunging(p) == ExpungeFree(p) \/ ExpungeSignal(p)

ClientStep(c) ==
    \/ OpenStart(c) \/ OpenRefused(c) \/ OpenGranted(c) \/ ClientOnFreed(c)
    \/ SetParams(c) \/ Close(c)

\* The program has ended, waits for an expunge, or has used freed memory.
Stopped == (worker \in {"parked", "done"} \/ fault # "none") /\ UNCHANGED vars

Next ==
    \/ \E c \in Client : ClientStep(c)
    \/ SystemExpunges \/ ExpungeReturn
    \/ \E p \in Callers : Expunging(p)
    \/ Worker
    \/ Stopped

Spec == Init /\ [][Next]_vars

(***************************************************************************)
(* Fairness.  The worker and whoever is inside a call of the manager are   *)
(* tasks that exec keeps scheduling; a signal that is set ends Wait also   *)
(* when calls of clients come in between.  Nothing forces clients to open  *)
(* or close, nor the system to expunge.                                    *)
(***************************************************************************)
Fairness ==
    /\ SF_vars(Worker)
    /\ WF_vars(ExpungeReturn)
    /\ \A p \in Callers : WF_vars(Expunging(p))
    /\ \A c \in Client : WF_vars(OpenRefused(c) \/ OpenGranted(c))

FairSpec == Spec /\ Fairness

-----------------------------------------------------------------------------
TypeOK ==
    /\ base \in {"none", "live", "freed"} /\ listed \in BOOLEAN
    /\ openCnt \in Nat /\ shared \in BOOLEAN /\ delexp \in BOOLEAN
    /\ call \in [Client -> {"closed", "opening", "open"}]
    /\ seen \in [Client -> Nat]
    /\ params \in [Client -> {"none", "queued", "applying"}] /\ loaded \in BOOLEAN
    /\ expunge \in [Callers -> {"none", "refused", "checked", "freed", "signalled"}]
    /\ single \in BOOLEAN
    /\ worker \in {"setup", "created", "added", "wait", "busy", "applying", "left",
                   "remove", "removing", "parked", "freeing", "done"}
    /\ fault \in {"none", "called on freed base", "freed twice",
                  "removed while in no list", "worked on freed base",
                  "removed freed base"}

\* lib_OpenCnt counts the clients that have the device open or are in Open:
\* every way through Open and Close keeps the balance, whatever interleaves.
CountMatches == openCnt = Cardinality({c \in Client : call[c] # "closed"})

\* While SERF_SHARED is not set in the base at most one client has the unit:
\* the atomic increment decides between clients that open it at the same time.
AloneUnlessShared ==
    ~shared => \A c, d \in Client : call[c] = "open" /\ call[d] = "open" => c = d

\* SERF_SHARED, once set, is not lost: when the worker stores the flags it has
\* loaded earlier, no Open has set SERF_SHARED in between.  (Who has parameters
\* to set has the device open, so that nobody new gets in without SERF_SHARED.)
SharedKept == [][shared => shared']_vars

\* A client that is in Open or has the device open finds the base, and the
\* worker has not freed the mutex, the requests and the buffer behind it.
InPlace ==
    \A c \in Client : call[c] # "closed" =>
        base = "live" /\ worker \notin {"freeing", "done"}

\* pl2303_manager_open.c refuses a unit because it is "opened exclusive".
\* Says that of two clients that ask for exclusive access one has the unit.
ExclusiveKept ==
    \A c, d \in Client \ SharedUsers :
        call[c] = "open" /\ call[d] = "open" => c = d

\* pl2303_manager_expunge.c: if the system expunges the device "the USB FD must
\* be notified that the device is about vanish [...] That's taken care by the
\* signaling to the USB FD Task".  Says that after such an expunge the signal is
\* pending, or has been seen, as long as the task has not misused the base.
WorkerTold ==
    base = "freed" /\ fault = "none" /\ (\A p \in Callers : expunge[p] = "none") =>
        single \/ worker \in {"freeing", "done"}
=============================================================================
