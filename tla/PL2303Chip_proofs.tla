-------------------------- MODULE PL2303Chip_proofs --------------------------
(***************************************************************************)
(* Proofs about the setup of the chip, for any set of adapters and any     *)
(* failures of transfers and allocations.                                  *)
(***************************************************************************)
EXTENDS PL2303Chip, TLAPS

(***************************************************************************)
(* The init sequence.                                                      *)
(***************************************************************************)

\* The registers written before the n-th entry.
Touched(n) ==
    (IF n > 2 THEN {\h404} ELSE {}) \cup (IF n > 9 THEN {0} ELSE {})
    \cup (IF n > 10 THEN {1} ELSE {}) \cup (IF n > 11 THEN {2} ELSE {})

Old == adapter.class = \h02 \/ adapter.packet # \h40

\* What the chip has taken when the n-th entry is next.
Taken(n) ==
    /\ DOMAIN regs = Touched(n)
    /\ n > 6 => regs[\h404] = 1
    /\ n > 9 => regs[0] = 1
    /\ n > 10 => regs[1] = 0
    /\ n > 11 => regs[2] = IF Old THEN \h24 ELSE \h44

ProgramInv ==
    /\ step \in {"detect", "buffer", "clone", "lines", "program", "coding", "look",
                 "ready", "failed"}
    /\ at \in 1..12
    /\ step \in {"detect", "buffer", "clone", "lines"} => at = 1 /\ regs = [r \in {} |-> 0]
    /\ type = "HX" => at = 1 /\ regs = [r \in {} |-> 0] /\ step \notin {"clone", "lines", "program"}
    /\ step # "detect" => (type = "H" <=> Old) /\ ("LEGACY" \in quirks <=> type = "H")
    /\ step = "program" => Taken(at)
    /\ step \in {"coding", "look", "ready"} /\ type # "HX" => Taken(12)

LEMMA DetectedOld ==
    ASSUME NEW status
    PROVE  Detected(adapter, status) = "H" <=> Old
    BY DEF Detected, Old

LEMMA SequenceLength == Len(Sequence) = 11
    BY DEF Sequence

LEMMA ProgramStepStep ==
    ASSUME ProgramInv, ProgramStep
    PROVE  ProgramInv'
<1> USE DEF ProgramInv
<1>1. /\ step = "program" /\ at \in 1..11 /\ at' = at + 1 /\ type # "HX" /\ Taken(at)
      /\ UNCHANGED <<adapter, type, quirks>>
    BY SequenceLength DEF ProgramStep
<1>2. PICK ok \in BOOLEAN :
        /\ regs' = IF ok /\ Sequence[at].op = "write"
                     THEN [r \in DOMAIN regs \cup {Sequence[at].reg} |->
                              IF r = Sequence[at].reg THEN Sequence[at].index ELSE regs[r]]
                     ELSE regs
        /\ step' = IF ok THEN "program" ELSE "failed"
    BY DEF ProgramStep, GoesOn
<1>3. CASE ~ok
    BY <1>1, <1>2, <1>3 DEF Old
<1>4. CASE ok
    <2>1. Sequence[at].op = "read" => UNCHANGED regs
        BY <1>2
    <2>2. Sequence[at].op = "write" =>
            regs' = [r \in DOMAIN regs \cup {Sequence[at].reg} |->
                        IF r = Sequence[at].reg THEN Sequence[at].index ELSE regs[r]]
        BY <1>2, <1>4
    <2>3. CASE at \in {1, 3, 4, 5, 7, 8}
        <3>1. Sequence[at].op = "read"
            BY <2>3 DEF Sequence, Read, Write
        <3> QED
            BY <1>1, <1>2, <1>4, <2>1, <2>3, <3>1 DEF Taken, Touched, Old
    <2>4. CASE at = 2
        <3>1. Sequence[at] = Write(\h404, 0)
            BY <2>4 DEF Sequence
        <3> QED
            BY <1>1, <1>2, <1>4, <2>2, <2>4, <3>1 DEF Taken, Touched, Old, Write
    <2>5. CASE at = 6
        <3>1. Sequence[at] = Write(\h404, 1)
            BY <2>5 DEF Sequence
        <3> QED
            BY <1>1, <1>2, <1>4, <2>2, <2>5, <3>1 DEF Taken, Touched, Old, Write
    <2>6. CASE at = 9
        <3>1. Sequence[at] = Write(0, 1)
            BY <2>6 DEF Sequence
        <3> QED
            BY <1>1, <1>2, <1>4, <2>2, <2>6, <3>1 DEF Taken, Touched, Old, Write
    <2>7. CASE at = 10
        <3>1. Sequence[at] = Write(1, 0)
            BY <2>7 DEF Sequence
        <3> QED
            BY <1>1, <1>2, <1>4, <2>2, <2>7, <3>1 DEF Taken, Touched, Old, Write
    <2>8. CASE at = 11
        <3>1. Sequence[at] = Write(2, IF Old THEN \h24 ELSE \h44)
            BY <1>1, <2>8 DEF Sequence
        <3> QED
            BY <1>1, <1>2, <1>4, <2>2, <2>8, <3>1 DEF Taken, Touched, Old, Write
    <2> QED
        BY <1>1, <2>3, <2>4, <2>5, <2>6, <2>7, <2>8
<1> QED
    BY <1>3, <1>4

LEMMA ProgramInvStep ==
    ASSUME ProgramInv, [Next]_chipVars
    PROVE  ProgramInv'
<1> USE DEF ProgramInv
<1>1. CASE Detect
    <2>1. PICK status \in HxStatus : type' = Detected(adapter, status)
        BY <1>1 DEF Detect
    <2>2. type' = "H" <=> Old
        BY <2>1, DetectedOld
    <2> QED
        BY <1>1, <2>2 DEF Detect, TypeQuirks, Old
<1>2. CASE GetBuffer
    BY <1>2 DEF GetBuffer, Old, Taken, Touched
<1>3. CASE CheckClone
    BY <1>3 DEF CheckClone, CloneQuirk, Old
<1>4. CASE SetControlLines
    BY <1>4 DEF SetControlLines, Old, Taken, Touched
<1>5. CASE ProgramStep
    BY <1>5, ProgramStepStep
<1>6. CASE Programmed
    BY <1>6, SequenceLength DEF Programmed, Old, Taken, Touched
<1>7. CASE SetCoding \/ LookAgain
    BY <1>7 DEF SetCoding, LookAgain, Old, Taken, Touched
<1>8. CASE UNCHANGED chipVars
    BY <1>8 DEF chipVars, Old, Taken, Touched
<1> QED
    BY <1>1, <1>2, <1>3, <1>4, <1>5, <1>6, <1>7, <1>8 DEF Next

\* A chip that is offered to clients has taken the whole init sequence of its
\* type: the failure of a single request, wherever it comes, ends the setup.
THEOREM ProgrammedAlways == Spec => []ChipProgrammed
<1>1. Init => ProgramInv
    BY DEF Init, ProgramInv
<1>2. ProgramInv /\ [Next]_chipVars => ProgramInv'
    BY ProgramInvStep
<1>3. ProgramInv => ChipProgrammed
    BY DEF ProgramInv, Taken, Touched, Old, ChipProgrammed
<1> QED
    BY <1>1, <1>2, <1>3, PTL DEF Spec

(***************************************************************************)
(* The clones.                                                             *)
(***************************************************************************)
CloneInv ==
    /\ step \in {"detect", "buffer", "clone"} => ~found /\ stalled = 0
    /\ found => stalled = 1 /\ "NO_BREAK_GETLINE" \in quirks

LEMMA CloneStep ==
    ASSUME CloneInv, [Next]_chipVars
    PROVE  CloneInv'
<1> USE DEF CloneInv
<1>1. CASE Detect
    BY <1>1 DEF Detect
<1>2. CASE CheckClone
    <2>1. PICK o : /\ found' = (o = "stall")
                   /\ quirks' = IF found' THEN CloneQuirk ELSE quirks
                   /\ Count(o)
        BY <1>2 DEF CheckClone
    <2>2. step = "clone" /\ step' = "lines" /\ stalled = 0
        BY <1>2 DEF CheckClone
    <2>3. CASE o = "stall"
        BY <2>1, <2>2, <2>3 DEF CloneQuirk, Count
    <2>4. CASE o # "stall"
        BY <2>1, <2>2, <2>4
    <2> QED
        BY <2>3, <2>4
<1>3. CASE SetCoding \/ LookAgain
    <2>1. found => stalled' = stalled
        BY <1>3 DEF SetCoding, LookAgain, LooksAtCoding, LineResults, AsksChip, Count
    <2> QED
        BY <1>3, <2>1 DEF SetCoding, LookAgain
<1>4. CASE GetBuffer \/ SetControlLines \/ ProgramStep \/ Programmed
    BY <1>4 DEF GetBuffer, SetControlLines, ProgramStep, Programmed
<1>5. CASE UNCHANGED chipVars
    BY <1>5 DEF chipVars
<1> QED
    BY <1>1, <1>2, <1>3, <1>4, <1>5 DEF Next

\* A clone found by its stall is never asked for its line coding again.
THEOREM ClonesAskedOnce == Spec => []CloneAskedOnce
<1>1. Init => CloneInv
    BY DEF Init, CloneInv
<1>2. CloneInv /\ [Next]_chipVars => CloneInv'
    BY CloneStep
<1>3. CloneInv => CloneAskedOnce
    BY DEF CloneInv, CloneAskedOnce
<1> QED
    BY <1>1, <1>2, <1>3, PTL DEF Spec

(***************************************************************************)
(* Types.                                                                  *)
(***************************************************************************)
Registers == {0, 1, 2, \h404}
Values == {0, 1, \h24, \h44}

\* A stall counts at most once while the chip is looked for, and once for each
\* of the worker's own two reads of the coding.
StallInv ==
    /\ stalled \in 0..2
    /\ step \in {"detect", "buffer", "clone"} => stalled = 0
    /\ step \in {"lines", "program", "coding"} => found \/ stalled = 0
    /\ step = "look" => stalled \in 0..1

ChipTypes ==
    /\ adapter \in Adapters
    /\ type \in {"H", "HX", "TA", "TB", "HXD", "HXN", "UNKNOWN"}
    /\ quirks \subseteq {"LEGACY", "NO_BREAK_GETLINE"} /\ found \in BOOLEAN
    /\ DOMAIN regs \subseteq Registers /\ regs \in [DOMAIN regs -> Values]

LEMMA WritesFit ==
    ASSUME NEW n \in 1..11, Sequence[n].op = "write"
    PROVE  Sequence[n].reg \in Registers /\ Sequence[n].index \in Values
<1>1. CASE n \in {1, 3, 4, 5, 7, 8}
    BY <1>1 DEF Sequence, Read, Write
<1>2. CASE n = 2
    BY <1>2 DEF Sequence, Write, Registers, Values
<1>3. CASE n = 6
    BY <1>3 DEF Sequence, Write, Registers, Values
<1>4. CASE n = 9
    BY <1>4 DEF Sequence, Write, Registers, Values
<1>5. CASE n = 10
    BY <1>5 DEF Sequence, Write, Registers, Values
<1>6. CASE n = 11
    BY <1>6 DEF Sequence, Write, Registers, Values
<1> QED
    BY <1>1, <1>2, <1>3, <1>4, <1>5, <1>6

LEMMA StallStep ==
    ASSUME CloneInv, StallInv, [Next]_chipVars
    PROVE  StallInv'
<1> USE DEF StallInv
<1>1. CASE Detect \/ GetBuffer
    BY <1>1 DEF Detect, GetBuffer
<1>2. CASE CheckClone
    <2>1. PICK o : found' = (o = "stall") /\ Count(o)
        BY <1>2 DEF CheckClone
    <2>2. step' = "lines" /\ stalled = 0
        BY <1>2 DEF CheckClone
    <2>3. o = "stall" => found'
        BY <2>1, Zenon
    <2>4. stalled' = IF o = "stall" THEN 1 ELSE 0
        BY <2>1, <2>2 DEF Count
    <2> QED
        BY <2>2, <2>3, <2>4
<1>3. CASE SetControlLines \/ ProgramStep \/ Programmed
    BY <1>3 DEF SetControlLines, ProgramStep, Programmed
<1>4. ASSUME LooksAtCoding
      PROVE  (found /\ stalled' = stalled) \/ stalled' \in {stalled, stalled + 1}
    BY <1>4 DEF LooksAtCoding, Count
<1>5. found => stalled = 1 /\ (LooksAtCoding => stalled' = stalled)
    BY DEF CloneInv, LooksAtCoding, LineResults, AsksChip, Count
<1>6. CASE SetCoding
    BY <1>4, <1>5, <1>6 DEF SetCoding
<1>7. CASE LookAgain
    BY <1>4, <1>5, <1>7 DEF LookAgain
<1>8. CASE UNCHANGED chipVars
    BY <1>8 DEF chipVars
<1> QED
    BY <1>1, <1>2, <1>3, <1>6, <1>7, <1>8 DEF Next

LEMMA ChipTypesStep ==
    ASSUME ProgramInv, ChipTypes, [Next]_chipVars
    PROVE  ChipTypes'
<1> USE DEF ChipTypes
<1>1. CASE Detect
    <2>1. PICK status \in HxStatus : type' = Detected(adapter, status)
        BY <1>1 DEF Detect
    <2>2. type' \in {"H", "HX", "TA", "TB", "HXD", "HXN", "UNKNOWN"}
        BY <2>1 DEF Detected
    <2> QED
        BY <1>1, <2>2 DEF Detect, TypeQuirks
<1>2. CASE CheckClone
    <2>1. PICK o : found' = (o = "stall") /\ quirks' = IF found' THEN CloneQuirk ELSE quirks
        BY <1>2 DEF CheckClone
    <2> QED
        BY <1>2, <2>1 DEF CheckClone, CloneQuirk
<1>3. CASE ProgramStep
    <2>1. /\ at \in 1..11 /\ UNCHANGED <<adapter, type, quirks, found>>
          /\ \/ UNCHANGED regs
             \/ /\ Sequence[at].op = "write"
                /\ regs' = [r \in DOMAIN regs \cup {Sequence[at].reg} |->
                              IF r = Sequence[at].reg THEN Sequence[at].index ELSE regs[r]]
        BY <1>3, SequenceLength DEF ProgramStep, ProgramInv
    <2>2. CASE UNCHANGED regs
        BY <2>1, <2>2
    <2>3. CASE ~UNCHANGED regs
        <3>1. Sequence[at].reg \in Registers /\ Sequence[at].index \in Values
            BY <2>1, <2>3, WritesFit
        <3> QED
            BY <2>1, <2>3, <3>1
    <2> QED
        BY <2>2, <2>3
<1>4. CASE GetBuffer \/ SetControlLines \/ Programmed \/ SetCoding \/ LookAgain
    BY <1>4 DEF GetBuffer, SetControlLines, Programmed, SetCoding, LookAgain
<1>5. CASE UNCHANGED chipVars
    BY <1>5 DEF chipVars
<1> QED
    BY <1>1, <1>2, <1>3, <1>4, <1>5 DEF Next

\* The init sequence writes only registers and values of its table, its position
\* stays in the table, and no read of the line coding stalls more than twice.
THEOREM ChipTypeCorrect == Spec => [](ProgramInv /\ StallInv /\ ChipTypes)
<1>1. Init => ProgramInv /\ CloneInv /\ StallInv
    BY DEF Init, ProgramInv, CloneInv, StallInv
<1>2. Init => ChipTypes
    BY DEF Init, ChipTypes
<1> QED
    BY <1>1, <1>2, ProgramInvStep, CloneStep, StallStep, ChipTypesStep, PTL DEF Spec
=============================================================================
