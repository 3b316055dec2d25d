----------------------------- MODULE PL2303Line -----------------------------
(***************************************************************************)
(* The line configuration.  During the setup the worker reads the coding   *)
(* the chip starts with into the device base and sets 115200 8N1.  Then    *)
(* SDCMD_SETPARAMS is checked by BeginIO in the client's task, waits in    *)
(* the unit port, and is applied by the worker through one line coding     *)
(* buffer, a control transfer to the chip and the copy of the              *)
(* configuration in the device base.                                       *)
(***************************************************************************)
EXTENDS PL2303Baud, Sequences

CONSTANTS
    Chips,      \* the chip types looked at
    Bauds,      \* the rates clients ask for
    Bits,       \* the data bits clients ask for
    Stops,      \* the stop bits clients ask for
    Parities,   \* the sets of parity flags clients give
    PowerOn,    \* the codings a chip may have when it is plugged in
    DebugLevel, \* the default build has debug level 1
    MaxQueued   \* bound: parameter requests waiting in the unit port

\* What a line coding may say; 1.5 stop bits, which no request asks for, are left out.
Codings ==
    [rate : Seq(0..255), bits : Nat, parity : {"none", "odd", "even", "mark", "space"},
     stop : 1..2]

ASSUME LineAssumption ==
    /\ Chips \subseteq Types
    /\ Bauds \subseteq Nat /\ Bits \subseteq Nat /\ Stops \subseteq Nat
    /\ Parities \subseteq SUBSET {"odd", "on", "mark", "mspon"}
    /\ PowerOn \subseteq Codings
    /\ DebugLevel \in Nat /\ MaxQueued \in Nat

VARIABLES
    type,        \* pl2303_Type
    phase,       \* "clone", "look", "set", "check", "serving" or "failed"
    quirk,       \* PL2303_QUIRK_NO_BREAK_GETLINE
    queue,       \* parameter requests in unit_MsgPort, all accepted by BeginIO
    chip,        \* the line coding the chip works with
    dev,         \* io_Baud, io_ReadLen, io_StopBits, io_SerFlags, io_ExtFlags of the base
    asked        \* ghost: the request last applied with success

setupVars == <<phase, quirk>>
vars == <<type, setupVars, queue, chip, dev, asked>>

\* SERF_PARTY_ODD, SERF_PARTY_ON, SEXTF_MARK, SEXTF_MSPON.
Flags == SUBSET {"odd", "on", "mark", "mspon"}

Requests ==
    [baud : Bauds, read : Bits, write : Bits, stop : Stops, flags : Parities]

\* The checks of _pl2303_serial_setparams.  "found" is what the search for a
\* supported rate returned.
Accepted(p, found) ==
    /\ p.read = p.write
    /\ p.read \in 5..8 \cup {16}
    /\ p.stop \in 1..2
    /\ ~({"on", "mspon"} \subseteq p.flags)
    /\ p.baud <= MaxBaud[type]
    /\ type \notin NoDivisors => p.baud = found

\* The parity the worker makes of the flags: testing io_SerFlags for "odd" clears
\* all its other flags, testing io_ExtFlags for "mark" all others there.
AppliedParity(flags) ==
    CASE "odd" \in flags -> "odd"
      [] "odd" \notin flags /\ "mark" \in flags -> "mark"
      [] OTHER -> "none"

\* What the flags stand for: pl2303_update_state_line_request_from_buffer reads
\* them so, one after the other and without clearing any.
FlagsParity(flags) ==
    CASE "odd" \in flags -> "odd"
      [] "odd" \notin flags /\ "on" \in flags -> "even"
      [] {"odd", "on"} \cap flags = {} /\ "mark" \in flags -> "mark"
      [] {"odd", "on", "mark"} \cap flags = {} /\ "mspon" \in flags -> "space"
      [] OTHER -> "none"

Coding(p) ==
    [rate |-> RateBytes(type, p.baud), bits |-> p.read,
     parity |-> AppliedParity(p.flags), stop |-> p.stop]

\* The flag each parity stands for in the base.
ParityFlag == [odd |-> "odd", even |-> "on", mark |-> "mark", space |-> "mspon"]

\* A slip: no parity leaves the flags as they are.
ParityFlagsKept(flags, parity) ==
    IF parity = "none" THEN flags ELSE flags \cup {ParityFlag[parity]}

\* The parity flags are only ever added to, unless there is no parity.
ParityFlags(flags, parity) ==
    IF parity = "none" THEN {} ELSE flags \cup {ParityFlag[parity]}

\* pl2303_update_state_line_request
Updated(d, lc) ==
    [rate |-> lc.rate, bits |-> lc.bits, stop |-> lc.stop,
     flags |-> ParityFlags(d.flags, lc.parity)]

Setup == [baud |-> 115200, read |-> 8, write |-> 8, stop |-> 1, flags |-> {}]
SetupCoding ==
    [rate |-> DirectBytes(115200), bits |-> 8, parity |-> "none", stop |-> 1]

\* CreateLibrary has cleared the base; only a HXD may turn out to be a clone.
Cleared == [rate |-> <<0, 0, 0, 0>>, bits |-> 0, stop |-> 0, flags |-> {}]

Init ==
    /\ type \in Chips
    /\ phase = IF type = "HXD" THEN "clone" ELSE "look"
    /\ quirk = FALSE
    /\ queue = <<>>
    /\ chip \in PowerOn
    /\ dev = Cleared
    /\ asked = Setup

(***************************************************************************)
(* The setup, before AddDevice.                                            *)
(***************************************************************************)

\* pl2303_get_line_request: a chip with the quirk is not asked, else the base is
\* updated when the chip has answered.
GetLine(ok) == dev' = IF ok /\ ~quirk THEN Updated(dev, chip) ELSE dev

\* pl2303_is_hxd_clone: a chip that stalls the request is a clone.
CheckClone ==
    /\ phase = "clone"
    /\ \E result \in {"ok", "stall", "error"} :
        /\ GetLine(result = "ok")
        /\ quirk' = (result = "stall")
    /\ phase' = "look"
    /\ UNCHANGED <<type, queue, chip, asked>>

\* The coding is shown, in a debug build.
Look(from, to) ==
    /\ phase = from /\ phase' = to
    /\ IF DebugLevel > 0 THEN \E ok \in BOOLEAN : GetLine(ok) ELSE UNCHANGED dev
    /\ UNCHANGED <<type, quirk, queue, chip, asked>>

\* The chip is set to 115200 8N1; if that fails the device is not offered.
SetLine(ok) ==
    /\ phase = "set"
    /\ IF ok
         THEN chip' = SetupCoding /\ dev' = Updated(dev, SetupCoding) /\ phase' = "check"
         ELSE UNCHANGED <<chip, dev>> /\ phase' = "failed"
    /\ UNCHANGED <<type, quirk, queue, asked>>

SetUp ==
    \/ CheckClone \/ Look("look", "set")
    \/ (\E ok \in BOOLEAN : SetLine(ok))
    \/ Look("check", "serving")

(***************************************************************************)
(* The device serves clients.                                              *)
(***************************************************************************)

\* BeginIO of SDCMD_SETPARAMS that passes the checks: PutMsg.
SetParams(p) ==
    /\ phase = "serving" /\ Len(queue) < MaxQueued
    /\ \E found \in SupportedBaud(p.baud) : Accepted(p, found)
    /\ queue' = Append(queue, p)
    /\ UNCHANGED <<type, setupVars, chip, dev, asked>>

\* A slip: the base is updated before the transfer is known to have worked.
ApplyUnchecked(ok) ==
    /\ queue # <<>>
    /\ queue' = Tail(queue)
    /\ dev' = Updated(dev, Coding(Head(queue)))
    /\ chip' = IF ok THEN Coding(Head(queue)) ELSE chip
    /\ asked' = IF ok THEN Head(queue) ELSE asked
    /\ UNCHANGED <<type, setupVars>>

\* The worker applies the oldest request and answers it with success, whether
\* the control transfer has succeeded or not.
Apply(ok) ==
    /\ queue # <<>>
    /\ queue' = Tail(queue)
    /\ IF ok
         THEN /\ chip' = Coding(Head(queue))
              /\ dev' = Updated(dev, Coding(Head(queue)))
              /\ asked' = Head(queue)
         ELSE UNCHANGED <<chip, dev, asked>>
    /\ UNCHANGED <<type, setupVars>>

Next ==
    \/ SetUp
    \/ \E p \in Requests : SetParams(p)
    \/ \E ok \in BOOLEAN : Apply(ok)

Spec == Init /\ [][Next]_vars

-----------------------------------------------------------------------------
TypeOK ==
    /\ type \in Types
    /\ phase \in {"clone", "look", "set", "check", "serving", "failed"}
    /\ quirk \in BOOLEAN
    /\ queue \in Seq(Requests)
    /\ chip \in Codings
    /\ dev \in [rate : Seq(0..255), bits : Nat, stop : Nat, flags : Flags]
    /\ asked \in Requests \cup {Setup}

\* The checks in the client's task are all the encoder needs: the worker never
\* divides by a rate of 0, and asks no chip for more than it can do.
QueuedIsEncodable ==
    \A i \in 1..Len(queue) :
        /\ queue[i].baud <= MaxBaud[type]
        /\ type \notin NoDivisors => queue[i].baud > 0

WithinOnePercent(a, b) == 100 * (a - b) <= b /\ 100 * (b - a) <= b

\* The chip of a device that is offered runs within one percent of the rate last
\* set, through divisor, rounding, packing into bytes and the chip's reading of them.
RateWithinOnePercent ==
    phase = "serving" => WithinOnePercent(ChipRate(type, chip.rate), asked.baud)

\* What Open tells a client of the base is what the chip does, from the first
\* coding that is set and whatever control transfers have failed: the data bits, the
\* stop bits and, if the rate was set as a number, the rate the chip runs at.  If it
\* was set as a divisor, io_Baud is no rate - its top bit is set - though
\* pl2303_devicebase.h calls it "true baud"; it then is a divisor for the chip's rate.
BaseMatchesChip ==
    phase \in {"check", "serving"} =>
        /\ dev.bits = chip.bits /\ dev.stop = chip.stop
        /\ IF IsDivisor(chip.rate)
             THEN IsDivisor(dev.rate) /\ ChipRate(type, dev.rate) = ChipRate(type, chip.rate)
             ELSE ~IsDivisor(dev.rate) /\ Number(dev.rate) = ChipRate(type, chip.rate)

\* The parity flags in the base, which the next opener is told, hold the flag of
\* the parity the chip works with, and none exactly when it works without -
\* whatever the chip started with and whatever transfers have failed.
ParityKept ==
    phase \in {"check", "serving"} =>
        IF chip.parity = "none"
          THEN dev.flags = {}
          ELSE ParityFlag[chip.parity] \in dev.flags

\* usbfd_function_run_function.c: "All parameters have already been checked that
\* they are supported in _pl2303_serial_setparams, so just apply".  Says that the
\* chip gets the parity the flags of the request stand for.
ParityApplied == phase = "serving" => chip.parity = FlagsParity(asked.flags)
=============================================================================
