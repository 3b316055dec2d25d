---------------------------- MODULE PL2303Driver ----------------------------
(***************************************************************************)
(* One adapter from plugging in to the last free: the worker climbs the    *)
(* ladder of PL2303Resources, creates the base, sets up the chip as in     *)
(* PL2303Chip, lives and ends as in PL2303Unit, and gives everything back; *)
(* the code it runs is the library of USBFDLibrary.                        *)
(***************************************************************************)
EXTENDS PL2303Unit, Sequences

CONSTANTS
    Adapters,     \* the adapters that may be plugged in
    DebugLevel,   \* the default build has debug level 1
    Openers       \* who may open pl2303.usbfd

ASSUME AdapterAssumption ==
    Adapters \subseteq
        [class : Nat, packet : Nat, usb : Nat, version : Nat,
         status : BOOLEAN,    \* answers the read of the HX status
         stalls : BOOLEAN]    \* an HXD clone: stalls the read of its line coding
ASSUME DebugAssumption == DebugLevel \in Nat
ASSUME OpenerAssumption == "stack" \in Openers

VARIABLES
    rung, held, exit,                                          \* PL2303Resources
    adapter, step, type, quirks, at, regs, found, stalled,     \* PL2303Chip
    code, libCnt, openers                                      \* USBFDLibrary

Resources == INSTANCE PL2303Resources
Chip      == INSTANCE PL2303Chip
Library   == INSTANCE USBFDLibrary

resourceVars == <<rung, held, exit>>
chipVars     == <<adapter, step, type, quirks, at, regs, found, stalled>>
libraryVars  == <<code, libCnt, openers>>
driverVars   == <<vars, resourceVars, chipVars, libraryVars>>

DriverInit ==
    /\ Init /\ Resources!Init /\ Chip!Init /\ Library!Init

(***************************************************************************)
(* The worker.                                                             *)
(***************************************************************************)

\* One rung of the ladder.
Climb ==
    /\ fault = "none" /\ worker = "setup" /\ Resources!Acquire
    /\ UNCHANGED <<vars, chipVars, libraryVars>>

ClimbFails ==
    /\ SetupFails /\ Resources!Fail
    /\ UNCHANGED <<chipVars, libraryVars>>

CreateDevice ==
    /\ CreateBase /\ Resources!Complete
    /\ UNCHANGED <<chipVars, libraryVars>>

\* The chip is identified and set up through the base, which nobody else knows.
SetUpChip ==
    /\ fault = "none" /\ worker = "created" /\ Chip!Next
    /\ UNCHANGED <<vars, resourceVars, libraryVars>>

\* The jumps to exit_initialze_chip_failed and exit_linecoding_failed.
ChipSetupFails ==
    /\ step = "failed" /\ ChipFails
    /\ UNCHANGED <<resourceVars, chipVars, libraryVars>>

Offer ==
    /\ step = "ready" /\ AddDevice
    /\ UNCHANGED <<resourceVars, chipVars, libraryVars>>

\* The main loop and the taking away of the device.
Serve ==
    /\ \/ EnterLoop \/ Work \/ WakeForWork \/ WakeForExpunge \/ Detach
       \/ (\E c \in Client : LoadFlags(c) \/ StoreFlags(c))
       \/ ClearSignal \/ RemDevice \/ RemDeviceReturn \/ Unpark
    /\ UNCHANGED <<resourceVars, chipVars, libraryVars>>

GiveUp ==
    /\ fault = "none" /\ worker = "freeing" /\ Resources!Release
    /\ UNCHANGED <<vars, chipVars, libraryVars>>

EndTask ==
    /\ FreeResources /\ Resources!Released
    /\ UNCHANGED <<chipVars, libraryVars>>

DriverWorker ==
    \/ Climb \/ ClimbFails \/ CreateDevice \/ SetUpChip \/ ChipSetupFails
    \/ Offer \/ Serve \/ GiveUp \/ EndTask

(***************************************************************************)
(* The clients and the system, for the device and for the library.         *)
(***************************************************************************)

UnitOthers ==
    /\ \/ \E c \in Client : ClientStep(c)
       \/ SystemExpunges \/ ExpungeReturn
       \/ \E p \in Callers : Expunging(p)
    /\ UNCHANGED <<resourceVars, chipVars, libraryVars>>

\* The USB stack closes the library when the task it started has ended.
StackCloses ==
    /\ worker = "done" /\ Library!Close("stack")
    /\ UNCHANGED <<vars, resourceVars, chipVars>>

\* With task switching forbidden the methods of the two managers do not mix.
LibraryOthers ==
    /\ fault = "none" /\ Undisturbed
    /\ Library!Others \/ Library!ExpungeStart \/ Library!ExpungeEnd
    /\ UNCHANGED <<vars, resourceVars, chipVars>>

DriverNext ==
    \/ DriverWorker
    \/ UnitOthers \/ StackCloses \/ LibraryOthers
    \/ Stopped /\ UNCHANGED driverVars

DriverSpec == DriverInit /\ [][DriverNext]_driverVars

(***************************************************************************)
(* Fairness as in PL2303Unit; nothing forces the USB stack or the system   *)
(* to close or to expunge the library.                                     *)
(***************************************************************************)
DriverFairness ==
    /\ SF_driverVars(DriverWorker)
    /\ WF_driverVars(ExpungeReturn /\ UNCHANGED <<resourceVars, chipVars, libraryVars>>)
    /\ \A p \in Callers :
          WF_driverVars(Expunging(p) /\ UNCHANGED <<resourceVars, chipVars, libraryVars>>)
    /\ \A c \in Client :
          WF_driverVars(/\ OpenRefused(c) \/ OpenGranted(c)
                        /\ UNCHANGED <<resourceVars, chipVars, libraryVars>>)

DriverFairSpec == DriverSpec /\ DriverFairness

-----------------------------------------------------------------------------
DriverTypeOK ==
    /\ TypeOK
    /\ rung \in 1..Len(Resources!Rungs)
    /\ held \subseteq {Resources!Releases[i] : i \in 1..Len(Resources!Releases)}
    /\ exit \in 1..Len(Resources!Releases) + 1
    /\ adapter \in Adapters
    /\ step \in {"detect", "buffer", "clone", "lines", "program", "coding",
                 "look", "ready", "failed"}
    /\ type \in {"H", "HX", "TA", "TB", "HXD", "HXN", "UNKNOWN"}
    /\ quirks \subseteq {"LEGACY", "NO_BREAK_GETLINE"}
    /\ at \in 1..12 /\ found \in BOOLEAN /\ stalled \in 0..2
    /\ DOMAIN regs \subseteq {0, 1, 2, \h404}
    /\ regs \in [DOMAIN regs -> {0, 1, \h24, \h44}]
    /\ code \in {"resident", "leaving", "gone"} /\ libCnt \in Nat
    /\ openers \subseteq Openers

\* On every way out of the worker - a failure on any rung, a chip that cannot be
\* set up, a detach, an expunge - the statements that are still to come give
\* back exactly what is held: nothing leaks and nothing is given back twice.
HeldIsFreed ==
    worker = "freeing" => held = Resources!StillToFree

\* As long as there is a base, what it points at has not been given back.
BaseBacked == base = "live" => Resources!BaseNeeds \subseteq held

\* Freed memory is never used.  The one misuse of exec that remains is the
\* Remove of a device that was never added, and it takes a chip that failed.
MisuseOnlyAfterFailedSetup ==
    fault # "none" => fault = "removed while in no list" /\ step = "failed"

\* The code stays in memory while the worker runs, and while somebody is in a
\* method of the device or has it open.
CodeStays ==
    code = "gone" =>
        /\ worker = "done"
        /\ \A c \in Client : call[c] = "closed"
        /\ \A p \in Callers : expunge[p] = "none"

\* Whoever expunges the device - the system or the worker through RemDevice -
\* the worker gets to know, frees what it holds and ends.
ExpungeEnds ==
    base = "freed" /\ fault = "none" ~> (worker = "done" /\ held = {}) \/ fault # "none"

\* A chip that is offered to clients has taken the whole init sequence of its
\* type, as stated in PL2303Chip.
ChipProgrammed == Chip!ChipProgrammed

\* A clone found by its stall is not asked for its line coding a second time, as
\* stated in PL2303Chip.
CloneAskedOnce == Chip!CloneAskedOnce
=============================================================================
