---------------------------- MODULE USBFDLibrary ----------------------------
(***************************************************************************)
(* pl2303.usbfd as a library: its manager counts who has it open and, when *)
(* nobody has, lets the system take the code away.  The code of the worker *)
(* and of the methods of pl2303.device lies in it.                         *)
(***************************************************************************)
EXTENDS Naturals, FiniteSets

CONSTANTS
    Openers,   \* who may open the library
    Forbid     \* exec calls the manager's methods with task switching forbidden

VARIABLES
    code,      \* "resident", "leaving" (in Expunge past the check) or "gone"
    libCnt,    \* lib_OpenCnt of the library
    openers    \* who has it open

libraryVars == <<code, libCnt, openers>>

\* The USB stack opens the library before it starts the worker.
Init == code = "resident" /\ libCnt = 1 /\ openers = {"stack"}

Findable == code = "resident" \/ (code = "leaving" /\ ~Forbid)

\* _usbfd_manager_Open
Open(o) ==
    /\ Findable /\ o \notin openers
    /\ libCnt' = libCnt + 1
    /\ openers' = openers \cup {o}
    /\ UNCHANGED code

\* _usbfd_manager_Close
Close(o) ==
    /\ o \in openers /\ (code = "leaving" => ~Forbid)
    /\ libCnt' = libCnt - 1
    /\ openers' = openers \ {o}
    /\ UNCHANGED code

\* A slip: the open count is not looked at.
NobodyHasItUnchecked == TRUE

NobodyHasIt == libCnt = 0

\* _usbfd_manager_Expunge, called when memory is short: a library in use only
\* notes the wish (LIBF_DELEXP, which nobody reads).
ExpungeStart ==
    /\ code = "resident" /\ NobodyHasIt
    /\ code' = "leaving"
    /\ UNCHANGED <<libCnt, openers>>

\* Remove, DeleteLibrary; exec unloads the segment list that is returned.
ExpungeEnd ==
    /\ code = "leaving"
    /\ code' = "gone"
    /\ UNCHANGED <<libCnt, openers>>

Others == \E o \in Openers \ {"stack"} : Open(o) \/ Close(o)
=============================================================================
