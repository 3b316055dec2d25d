-------------------------- MODULE PL2303Resources --------------------------
(***************************************************************************)
(* The ladder of _usbfd_function_RunFunction: what the worker acquires     *)
(* before it creates the device base, one after the other, and the labels  *)
(* through which it gives everything back.  A failure on one rung jumps to *)
(* the label that rung names.                                              *)
(***************************************************************************)
EXTENDS Naturals, Sequences

VARIABLES
    rung,    \* the next thing to acquire
    held,    \* what has been acquired and not given back
    exit     \* the next thing to give back

resourceVars == <<rung, held, exit>>

\* In the order of the code.  Some rungs only look something up.
Rungs ==
    <<"IUSBSys", "UsbIO", "UsbStackMsgPort", "UsbFunction", "deviceDescriptor",
      "configurationDescriptors", "configuration", "endpointDescriptors",
      "UsbInterface", "readEndpoint", "writeEndpoint", "interruptEndpoint",
      "InterruptUsbIO", "lineStatus", "ReadUsbIO", "inBuffer", "WriteUsbIO",
      "lineCoding", "mutex", "devBase">>

LookedUp ==
    {"configuration", "endpointDescriptors", "readEndpoint", "writeEndpoint",
     "interruptEndpoint"}

\* The statements behind the labels, from exit_create_device_failed on.
Releases ==
    <<"mutex", "lineCoding", "WriteUsbIO", "inBuffer", "ReadUsbIO", "lineStatus",
      "InterruptUsbIO", "UsbInterface", "configurationDescriptors",
      "deviceDescriptor", "UsbFunction", "UsbStackMsgPort", "UsbIO", "IUSBSys">>

\* The statement behind the label to which a failure on the rung jumps.
Label ==
    [IUSBSys |-> 15,           UsbIO |-> 14,
     UsbStackMsgPort |-> 13,   UsbFunction |-> 12,
     deviceDescriptor |-> 11,  configurationDescriptors |-> 10,
     configuration |-> 9,      endpointDescriptors |-> 9,
     UsbInterface |-> 9,       readEndpoint |-> 8,
     writeEndpoint |-> 8,      interruptEndpoint |-> 8,
     InterruptUsbIO |-> 8,     lineStatus |-> 7,
     ReadUsbIO |-> 6,          inBuffer |-> 5,
     WriteUsbIO |-> 4,         lineCoding |-> 3,
     mutex |-> 2,              devBase |-> 1]

\* A slip: a rung jumps to the label of the rung after it.
FailsToLate == Label[Rungs[rung]] - 1

FailsTo == Label[Rungs[rung]]

\* What the device base points at (initTab).
BaseNeeds == {"IUSBSys", "UsbIO", "ReadUsbIO", "WriteUsbIO", "UsbFunction", "mutex"}

Init == rung = 1 /\ held = {} /\ exit = 1

Acquire ==
    /\ rung < Len(Rungs)
    /\ held' = held \cup ({Rungs[rung]} \ LookedUp)
    /\ rung' = rung + 1
    /\ UNCHANGED exit

Fail ==
    /\ exit' = FailsTo
    /\ UNCHANGED <<rung, held>>

\* CreateLibrary is the last rung; the base is given back by Expunge.
Complete == rung = Len(Rungs) /\ UNCHANGED resourceVars

Release ==
    /\ exit <= Len(Releases)
    /\ held' = held \ {Releases[exit]}
    /\ exit' = exit + 1
    /\ UNCHANGED rung

Released == exit > Len(Releases) /\ UNCHANGED resourceVars

\* What the statements from here to the end of the function give back.
StillToFree == {Releases[i] : i \in exit..Len(Releases)}
=============================================================================
