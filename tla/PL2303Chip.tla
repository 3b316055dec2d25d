----------------------------- MODULE PL2303Chip -----------------------------
(***************************************************************************)
(* From CreateLibrary to AddDevice the worker finds out which chip it has, *)
(* programs it by vendor requests and sets its line coding.  Every control *)
(* transfer and every allocation may fail.                                 *)
(***************************************************************************)
EXTENDS Naturals, Sequences, FiniteSets

CONSTANTS
    Adapters,   \* the adapters that may be plugged in
    DebugLevel  \* the default build has debug level 1

VARIABLES
    adapter,   \* the one plugged in
    step,      \* "detect", "buffer", "clone", "lines", "program", "coding",
               \* "look", "ready" or "failed"
    type,      \* pl2303_Type
    quirks,    \* pl2303_Quirks
    at,        \* the next entry of the init sequence
    regs,      \* what the chip has taken of the init sequence, by register
    found,     \* ghost: pl2303_is_hxd_clone has found a clone
    stalled    \* how often the chip has stalled a read of its line coding

chipVars == <<adapter, step, type, quirks, at, regs, found, stalled>>

\* The results a control transfer may have.
Outcomes(possible) == IF possible THEN {"ok", "error"} ELSE {"stall", "error"}

\* pl2303_supports_hx_status: FALSE without memory, else the BOOL of
\* pl2303_vendor_read - TRUE for success - compared with USBERR_NOERROR, 0.
HxStatus == {~(o = "ok") : o \in Outcomes(adapter.status)} \cup {FALSE}

\* pl2303_detect_type.  "status" is what pl2303_supports_hx_status answers.
Detected(a, status) ==
    CASE a.class = \h02 \/ a.packet # \h40 -> "H"
      [] a.class # \h02 /\ a.packet = \h40 /\ a.usb \in {\h101, \h110} ->
            IF a.version = \h400 THEN "HXD" ELSE "HX"
      [] a.class # \h02 /\ a.packet = \h40 /\ a.usb = \h200 ->
            (CASE a.version = \h300 /\ status -> "TA"
               [] a.version = \h500 /\ status -> "TB"
               [] a.version \in {\h300, \h500} /\ ~status -> "HXN"
               [] a.version \in {\h100, \h105, \h305, \h400, \h405, \h505,
                                 \h600, \h605, \h700, \h705} -> "HXN"
               [] OTHER -> "UNKNOWN")
      [] OTHER -> "UNKNOWN"

\* pl2303_type_data[ type ].quirks
TypeQuirks(t) == IF t = "H" THEN {"LEGACY"} ELSE {}

\* initseq and initseq_legacy: reads, and writes of an index to a register.
Read(r) == [op |-> "read", reg |-> r]
Write(r, x) == [op |-> "write", reg |-> r, index |-> x]
Sequence ==
    <<Read(\h8484), Write(\h404, 0), Read(\h8484), Read(\h8383), Read(\h8484),
      Write(\h404, 1), Read(\h8484), Read(\h8383), Write(0, 1), Write(1, 0),
      Write(2, IF "LEGACY" \in quirks THEN \h24 ELSE \h44)>>

Init ==
    /\ adapter \in Adapters
    /\ step = "detect" /\ type = "UNKNOWN" /\ quirks = {}
    /\ at = 1 /\ regs = [r \in {} |-> 0]
    /\ found = FALSE /\ stalled = 0

Detect ==
    /\ step = "detect"
    /\ \E status \in HxStatus : type' = Detected(adapter, status)
    /\ quirks' = TypeQuirks(type')
    /\ step' = "buffer"
    /\ UNCHANGED <<adapter, at, regs, found, stalled>>

\* pl2303_initialze_chip: the buffer for its reads; a HX chip is left alone.
GetBuffer ==
    /\ step = "buffer"
    /\ step' \in {CASE type = "HX" -> "coding"
                    [] type = "HXD" -> "clone"
                    [] OTHER -> "lines",
                  "failed"}
    /\ UNCHANGED <<adapter, type, quirks, at, regs, found, stalled>>

\* A slip: the quirk of a clone is not kept.
CloneQuirkLost == quirks

CloneQuirk == quirks \cup {"NO_BREAK_GETLINE"}

\* GET_LINE, unless the quirk says that the chip cannot: then the answer comes
\* from the device base.
AsksChip == "NO_BREAK_GETLINE" \notin quirks
LineResults == IF AsksChip THEN Outcomes(~adapter.stalls) ELSE {"ok"}
Count(o) == stalled' = IF o = "stall" THEN stalled + 1 ELSE stalled

\* pl2303_is_hxd_clone: without memory the chip is not asked.
CheckClone ==
    /\ step = "clone"
    /\ \E o \in LineResults \cup {"no memory"} :
        /\ found' = (o = "stall")
        /\ quirks' = IF found' THEN CloneQuirk ELSE quirks
        /\ Count(o)
    /\ step' = "lines"
    /\ UNCHANGED <<adapter, type, at, regs>>

\* DTR and RTS; nobody looks at the result.
SetControlLines ==
    /\ step = "lines"
    /\ step' = "program"
    /\ UNCHANGED <<adapter, type, quirks, at, regs, found, stalled>>

\* A slip: a write that fails is passed over.
GoesOnAfterWrite(entry, ok) == ok \/ entry.op = "write"

GoesOn(entry, ok) == ok

\* One vendor request of the sequence; a failure ends the setup.
ProgramStep ==
    /\ step = "program" /\ at <= Len(Sequence)
    /\ \E ok \in BOOLEAN :
        LET entry == Sequence[at] IN
        /\ regs' = IF ok /\ entry.op = "write"
                     THEN [r \in DOMAIN regs \cup {entry.reg} |->
                              IF r = entry.reg THEN entry.index ELSE regs[r]]
                     ELSE regs
        /\ step' = IF GoesOn(entry, ok) THEN "program" ELSE "failed"
    /\ at' = at + 1
    /\ UNCHANGED <<adapter, type, quirks, found, stalled>>

Programmed ==
    /\ step = "program" /\ at > Len(Sequence)
    /\ step' = "coding"
    /\ UNCHANGED <<adapter, type, quirks, at, regs, found, stalled>>

\* The worker's own reads of the line coding exist for debugging only.
LooksAtCoding ==
    IF DebugLevel > 0 THEN \E o \in LineResults : Count(o) ELSE UNCHANGED stalled

\* The coding is looked at, then set to 115200 8N1.
SetCoding ==
    /\ step = "coding"
    /\ LooksAtCoding
    /\ step' \in {"look", "failed"}
    /\ UNCHANGED <<adapter, type, quirks, at, regs, found>>

LookAgain ==
    /\ step = "look"
    /\ LooksAtCoding
    /\ step' = "ready"
    /\ UNCHANGED <<adapter, type, quirks, at, regs, found>>

Next ==
    \/ Detect \/ GetBuffer \/ CheckClone \/ SetControlLines
    \/ ProgramStep \/ Programmed \/ SetCoding \/ LookAgain

Spec == Init /\ [][Next]_chipVars

-----------------------------------------------------------------------------
\* A chip that is offered to clients has taken the whole sequence of its type:
\* no failure of a single request is passed over, and the old chips get the
\* value made for them.  HX chips are offered as they are.
ChipProgrammed ==
    step = "ready" =>
        \/ type = "HX" /\ regs = [r \in {} |-> 0]
        \/ /\ DOMAIN regs = {0, 1, 2, \h404}
           /\ regs[0] = 1 /\ regs[1] = 0 /\ regs[\h404] = 1
           /\ regs[2] = IF adapter.class = \h02 \/ adapter.packet # \h40
                          THEN \h24 ELSE \h44

\* A clone that was found because it stalls the read of its line coding is not
\* asked for it again: the quirk outlives the setup.
CloneAskedOnce == found => stalled = 1
=============================================================================
