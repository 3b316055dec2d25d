------------------------- MODULE PL2303Driver_proofs -------------------------
(***************************************************************************)
(* Proofs about the driver as a whole: it behaves as PL2303Unit says, so   *)
(* that what is proved there holds for it, and on every way out the worker *)
(* gives back what it holds.                                               *)
(***************************************************************************)
EXTENDS PL2303Driver, PL2303Unit_proofs

\* What has been acquired when rung r is next.
Climbed(r) == {Resources!Rungs[i] : i \in 1..(r - 1)} \ Resources!LookedUp

\* What the statements from the e-th on give back.
FreedFrom(e) == {Resources!Releases[i] : i \in e..14}

LEMMA Lengths ==
    Len(Resources!Rungs) = 20 /\ Len(Resources!Releases) = 14
    BY DEF Resources!Rungs, Resources!Releases

LEMMA ReleasesDiffer ==
    \A i, j \in 1..14 : Resources!Releases[i] = Resources!Releases[j] => i = j
    BY DEF Resources!Releases

\* The label of each rung gives back exactly what has been acquired below it.
LEMMA LabelsFit ==
    ASSUME NEW r \in 1..20
    PROVE  /\ Resources!Label[Resources!Rungs[r]] \in 1..15
           /\ FreedFrom(Resources!Label[Resources!Rungs[r]]) = Climbed(r)
<1> USE DEF FreedFrom, Climbed, Resources!Rungs, Resources!Releases, Resources!Label,
            Resources!LookedUp
<1>1. CASE r = 1
    BY <1>1
<1>2. CASE r = 2
    BY <1>2
<1>3. CASE r = 3
    BY <1>3
<1>4. CASE r = 4
    BY <1>4
<1>5. CASE r = 5
    BY <1>5
<1>6. CASE r = 6
    BY <1>6
<1>7. CASE r = 7
    BY <1>7
<1>8. CASE r = 8
    BY <1>8
<1>9. CASE r = 9
    BY <1>9
<1>10. CASE r = 10
    BY <1>10
<1>11. CASE r = 11
    BY <1>11
<1>12. CASE r = 12
    BY <1>12
<1>13. CASE r = 13
    BY <1>13
<1>14. CASE r = 14
    BY <1>14
<1>15. CASE r = 15
    BY <1>15
<1>16. CASE r = 16
    BY <1>16
<1>17. CASE r = 17
    BY <1>17
<1>18. CASE r = 18
    BY <1>18
<1>19. CASE r = 19
    BY <1>19
<1>20. CASE r = 20
    BY <1>20
<1> QED
    BY <1>1, <1>2, <1>3, <1>4, <1>5, <1>6, <1>7, <1>8, <1>9, <1>10, <1>11, <1>12, <1>13,
       <1>14, <1>15, <1>16, <1>17, <1>18, <1>19, <1>20
(***************************************************************************)
(* The driver implements PL2303Unit.                                       *)
(***************************************************************************)
LEMMA DriverStep == [DriverNext]_driverVars => [Next]_vars
<1> SUFFICES ASSUME [DriverNext]_driverVars PROVE [Next]_vars
    OBVIOUS
<1>1. CASE DriverWorker
    BY <1>1 DEF DriverWorker, Climb, ClimbFails, CreateDevice, SetUpChip, ChipSetupFails,
       Offer, Serve, GiveUp, EndTask, Next, Worker
<1>2. CASE UnitOthers
    BY <1>2 DEF UnitOthers, Next
<1>3. CASE StackCloses \/ LibraryOthers
    BY <1>3 DEF StackCloses, LibraryOthers
<1>4. CASE Stopped
    BY <1>4 DEF Next
<1>5. CASE UNCHANGED driverVars
    BY <1>5 DEF driverVars
<1> QED
    BY <1>1, <1>2, <1>3, <1>4, <1>5 DEF DriverNext

\* Whatever the ladder, the chip and the library do, the device lives as
\* PL2303Unit says: every step of the driver is one of its steps or none.
THEOREM DriverImplementsUnit == DriverSpec => Spec
<1>1. DriverInit => Init
    BY DEF DriverInit
<1> QED
    BY <1>1, DriverStep, PTL DEF DriverSpec, Spec

(***************************************************************************)
(* What the worker holds.                                                  *)
(***************************************************************************)
ResourceInv ==
    /\ rung \in 1..20 /\ exit \in 1..15
    /\ worker = "setup" => exit = 1 /\ held = Climbed(rung)
    /\ worker \notin {"setup", "freeing", "done"} => exit = 1 /\ held = FreedFrom(1)
    /\ worker = "freeing" => held = FreedFrom(exit)

\* One statement behind a label gives back one thing.
LEMMA ReleaseOne ==
    ASSUME NEW e \in 1..14
    PROVE  FreedFrom(e) \ {Resources!Releases[e]} = FreedFrom(e + 1)
<1>1. ASSUME NEW x \in FreedFrom(e), x # Resources!Releases[e] PROVE x \in FreedFrom(e + 1)
    BY <1>1 DEF FreedFrom
<1>2. ASSUME NEW x \in FreedFrom(e + 1)
      PROVE  x \in FreedFrom(e) /\ x # Resources!Releases[e]
    BY <1>2, ReleasesDiffer DEF FreedFrom
<1> QED
    BY <1>1, <1>2

LEMMA ClimbOne ==
    ASSUME NEW r \in 1..19
    PROVE  Climbed(r) \cup ({Resources!Rungs[r]} \ Resources!LookedUp) = Climbed(r + 1)
    BY DEF Climbed

LEMMA ResourceInit == DriverInit => ResourceInv
    BY DEF DriverInit, Init, Resources!Init, ResourceInv, Climbed

LEMMA ResourceStep ==
    ASSUME ResourceInv, [DriverNext]_driverVars
    PROVE  ResourceInv'
<1> USE DEF ResourceInv
<1>1. CASE Climb
    <2>1. rung \in 1..19 /\ worker = "setup" /\ UNCHANGED <<worker, exit>>
        BY <1>1, Lengths DEF Climb, Resources!Acquire, vars
    <2>2. rung' = rung + 1 /\ held' = Climbed(rung + 1)
        BY <1>1, <2>1, ClimbOne DEF Climb, Resources!Acquire
    <2> QED
        BY <2>1, <2>2 DEF Climbed
<1>2. CASE ClimbFails
    <2>1. worker = "setup" /\ worker' = "freeing" /\ UNCHANGED <<rung, held>>
        BY <1>2 DEF ClimbFails, SetupFails, Moves, Resources!Fail
    <2>2. exit' = Resources!Label[Resources!Rungs[rung]]
        BY <1>2 DEF ClimbFails, Resources!Fail, Resources!FailsTo
    <2>3. exit' \in 1..15 /\ FreedFrom(exit') = Climbed(rung)
        BY <2>2, LabelsFit
    <2> QED
        BY <2>1, <2>3 DEF FreedFrom
<1>3. CASE CreateDevice
    <2>1. /\ worker = "setup" /\ worker' = "created" /\ UNCHANGED <<rung, held, exit>>
          /\ rung = 20
        BY <1>3, Lengths
           DEF CreateDevice, CreateBase, Moves, Resources!Complete, Resources!resourceVars
    <2>2. Resources!Label[Resources!Rungs[20]] = 1
        BY DEF Resources!Rungs, Resources!Label
    <2>3. FreedFrom(1) = Climbed(20)
        BY <2>2, LabelsFit
    <2> QED
        BY <2>1, <2>3 DEF FreedFrom
<1>4. CASE GiveUp
    <2>1. worker = "freeing" /\ exit \in 1..14 /\ UNCHANGED <<worker, rung>>
        BY <1>4, Lengths DEF GiveUp, Resources!Release, vars
    <2>2. held' = FreedFrom(exit + 1) /\ exit' = exit + 1
        BY <1>4, <2>1, ReleaseOne DEF GiveUp, Resources!Release
    <2> QED
        BY <2>1, <2>2 DEF FreedFrom
<1>5. ASSUME UNCHANGED <<rung, held, exit>>,
             worker' = worker
               \/ (worker \notin {"setup", "freeing", "done"} /\ worker' # "setup")
               \/ worker' = "done"
      PROVE  ResourceInv'
    BY <1>5 DEF FreedFrom, Climbed
<1>6. CASE EndTask
    BY <1>5, <1>6
       DEF EndTask, FreeResources, Moves, Resources!Released, Resources!resourceVars
<1>7. CASE ChipSetupFails \/ Offer \/ Serve
    BY <1>5, <1>7 DEF ChipSetupFails, Offer, Serve, ChipFails, AddDevice, EnterLoop, Work,
       LoadFlags, StoreFlags, WakeForWork, WakeForExpunge, Detach, ClearSignal, RemDevice,
       RemDeviceReturn, Unpark, Moves, resourceVars
<1>8. CASE SetUpChip \/ StackCloses \/ LibraryOthers \/ UNCHANGED driverVars
    BY <1>5, <1>8
       DEF SetUpChip, StackCloses, LibraryOthers, driverVars, vars, resourceVars
<1>9. CASE UnitOthers
    <2>1. UNCHANGED worker
        BY <1>9 DEF UnitOthers, ClientStep, OpenStart, OpenRefused, OpenInvalid, OpenBusy, OpenFails,
           OpenGranted, ClientOnFreed,
           SetParams, Close, SystemExpunges, ExpungeReturn, Expunging, ExpungeFree,
           ExpungeSignal
    <2> QED
        BY <1>5, <1>9, <2>1 DEF UnitOthers, resourceVars
<1> QED
    BY <1>1, <1>2, <1>3, <1>4, <1>6, <1>7, <1>8, <1>9 DEF DriverNext, DriverWorker

LEMMA ResourceAlways == DriverSpec => []ResourceInv
    BY ResourceInit, ResourceStep, PTL DEF DriverSpec

\* Nothing leaks and nothing is given back twice, on every way out of the
\* worker and with every call interruptible.
THEOREM HeldIsFreedAlways == DriverSpec => []HeldIsFreed
<1>1. ResourceInv => HeldIsFreed
    BY Lengths DEF ResourceInv, HeldIsFreed, FreedFrom, Resources!StillToFree
<1> QED
    BY <1>1, ResourceAlways, PTL

\* As long as there is a base, nothing it points at has been given back.
THEOREM BaseIsBacked ==
    ASSUME Forbid
    PROVE  DriverSpec => []BaseBacked
<1>1. LifeInv /\ ResourceInv => BaseBacked
    <2> SUFFICES ASSUME LifeInv, ResourceInv, base = "live" PROVE Resources!BaseNeeds \subseteq held
        BY DEF BaseBacked
    <2>1. held = FreedFrom(1)
        BY DEF LifeInv, PlaceInv, BasePhase, Living, ResourceInv
    <2> QED
        BY <2>1 DEF FreedFrom, Resources!BaseNeeds, Resources!Releases
<1> QED
    BY <1>1, ResourceAlways, LifeAlways, DriverImplementsUnit, PTL
(***************************************************************************)
(* Misuse of exec.                                                         *)
(***************************************************************************)

\* A device that is taken away without having been listed had a chip that failed.
FailedInv ==
    /\ base = "live" /\ ~listed /\ worker # "created" => step = "failed"
    /\ fault # "none" => step = "failed"

LEMMA FailedStep ==
    ASSUME SafeInv, FailedInv, SafeInv', [DriverNext]_driverVars
    PROVE  FailedInv'
<1> USE DEF FailedInv
<1>1. CASE UNCHANGED <<base, listed, worker, fault, step>>
    BY <1>1
<1>2. CASE SetUpChip
    BY <1>2 DEF SetUpChip, vars
<1>3. CASE Climb \/ GiveUp \/ StackCloses \/ LibraryOthers \/ UNCHANGED driverVars
    BY <1>1, <1>3 DEF Climb, GiveUp, StackCloses, LibraryOthers, driverVars, vars, chipVars
<1>4. CASE ClimbFails \/ CreateDevice \/ Offer
    <2>1. /\ UNCHANGED step /\ fault' = "none" /\ fault = "none"
          /\ worker \in {"setup", "created"}
          /\ listed' \/ worker' = "created" \/ base' = base
        BY <1>4 DEF ClimbFails, CreateDevice, Offer, SetupFails, CreateBase, AddDevice, Moves,
           chipVars
    <2>2. worker = "setup" => base = "none"
        BY DEF SafeInv, LifeInv, PlaceInv, BasePhase
    <2> QED
        BY <1>4, <2>1, <2>2 DEF ClimbFails, CreateDevice, Offer, SetupFails, CreateBase,
           AddDevice, Moves
<1>5. CASE ChipSetupFails
    BY <1>5 DEF ChipSetupFails, ChipFails, Moves, chipVars
<1>6. CASE Serve \/ EndTask
    <2>1. /\ UNCHANGED <<base, listed, step>> /\ worker # "created"
          /\ fault' \in {"none", "worked on freed base", "removed freed base"}
        BY <1>6 DEF Serve, EndTask, EnterLoop, Work, LoadFlags, StoreFlags, WakeForWork,
           WakeForExpunge, Detach, ClearSignal, RemDevice, RemDeviceReturn, Unpark,
           FreeResources, Moves, chipVars
    <2>2. fault' = "none"
        BY <2>1 DEF SafeInv, RestInv, OnlyMisuse
    <2> QED
        BY <2>1, <2>2
<1>7. CASE UnitOthers
    <2>1. UNCHANGED <<step, worker>>
        BY <1>7 DEF UnitOthers, ClientStep, OpenStart, OpenRefused, OpenInvalid, OpenBusy, OpenFails,
           OpenGranted, ClientOnFreed,
           SetParams, Close, SystemExpunges, ExpungeReturn, Expunging, ExpungeFree,
           ExpungeSignal, chipVars
    <2>2. ASSUME NEW p \in Callers, ExpungeFree(p)
          PROVE  FailedInv'
        <3>1. base' = "freed" /\ base = "live" /\ worker # "created"
            BY <2>2 DEF ExpungeFree, SafeInv, LifeInv, PlaceInv, Stages, Unpublished
        <3> QED
            BY <2>1, <2>2, <3>1 DEF ExpungeFree
    <2>3. CASE ~ \E p \in Callers : ExpungeFree(p)
        <3>1. UNCHANGED <<base, listed>>
            BY <1>7, <2>3 DEF UnitOthers, ClientStep, OpenStart, OpenRefused, OpenInvalid, OpenBusy, OpenFails,
               OpenGranted,
               ClientOnFreed, SetParams, Close, SystemExpunges, ExpungeReturn, Expunging,
               ExpungeSignal
        <3>2. fault' = fault \/ fault' = "called on freed base"
            BY <1>7, <2>3 DEF UnitOthers, ClientStep, OpenStart, OpenRefused, OpenInvalid, OpenBusy, OpenFails,
               OpenGranted,
               ClientOnFreed, SetParams, Close, SystemExpunges, ExpungeReturn, Expunging,
               ExpungeSignal
        <3>3. fault' = fault \/ fault' = "none"
            BY <3>2 DEF SafeInv, RestInv, OnlyMisuse
        <3> QED
            BY <2>1, <3>1, <3>3
    <2> QED
        BY <2>2, <2>3
<1> QED
    BY <1>2, <1>3, <1>4, <1>5, <1>6, <1>7 DEF DriverNext, DriverWorker

\* Nobody uses the freed base, and the one misuse of exec that is left takes a
\* chip whose setup has failed, if the methods are not interrupted and the
\* system expunges the device while the worker waits.
THEOREM MisuseTakesFailedSetup ==
    ASSUME Forbid, SystemExpunge # "any time"
    PROVE  DriverSpec => []MisuseOnlyAfterFailedSetup
<1>1. DriverInit => FailedInv
    BY DEF DriverInit, Init, FailedInv
<1>2. DriverSpec => []SafeInv
    BY DriverImplementsUnit, SafeAlways, PTL
<1>3. SafeInv /\ SafeInv' /\ FailedInv /\ [DriverNext]_driverVars => FailedInv'
    BY FailedStep
<1>4. SafeInv /\ FailedInv => MisuseOnlyAfterFailedSetup
    BY DEF SafeInv, RestInv, OnlyMisuse, FailedInv, MisuseOnlyAfterFailedSetup
<1> QED
    BY <1>1, <1>2, <1>3, <1>4, PTL DEF DriverSpec

(***************************************************************************)
(* The code of the library.                                                *)
(***************************************************************************)
LibraryInv ==
    /\ IsFiniteSet(openers) /\ libCnt = Cardinality(openers)
    /\ code # "resident" => openers = {}
    /\ "stack" \notin openers => worker = "done"
    /\ code = "gone" => \A p \in Callers : expunge[p] = "none"

LEMMA LibraryInit == DriverInit => LibraryInv
<1> SUFFICES ASSUME DriverInit PROVE LibraryInv
    OBVIOUS
<1>1. IsFiniteSet({"stack"}) /\ Cardinality({"stack"}) = 1
    BY FS_Singleton
<1> QED
    BY <1>1 DEF DriverInit, Library!Init, LibraryInv

LEMMA LibraryStep ==
    ASSUME Forbid, LifeInv, LibraryInv, [DriverNext]_driverVars
    PROVE  LibraryInv'
<1> USE DEF LibraryInv
<1>1. ASSUME UNCHANGED libraryVars, worker = "done" => worker' = "done",
             code = "gone" => UNCHANGED expunge
      PROVE  LibraryInv'
    BY <1>1 DEF libraryVars
<1>2. code = "gone" => worker = "done"
    OBVIOUS
<1>3. CASE DriverWorker
    <2>1. UNCHANGED libraryVars /\ worker # "done"
        BY <1>3 DEF DriverWorker, Climb, ClimbFails, CreateDevice, SetUpChip, ChipSetupFails,
           Offer, Serve, GiveUp, EndTask, SetupFails, CreateBase, ChipFails, AddDevice,
           EnterLoop, Work, LoadFlags, StoreFlags, WakeForWork, WakeForExpunge, Detach,
           ClearSignal, RemDevice, RemDeviceReturn, Unpark, FreeResources, Moves
    <2> QED
        BY <1>1, <1>2, <2>1
<1>4. CASE UnitOthers
    <2>1. UNCHANGED libraryVars /\ UNCHANGED worker
        BY <1>4 DEF UnitOthers, ClientStep, OpenStart, OpenRefused, OpenInvalid, OpenBusy, OpenFails,
           OpenGranted, ClientOnFreed,
           SetParams, Close, SystemExpunges, ExpungeReturn, Expunging, ExpungeFree,
           ExpungeSignal
    <2>2. code = "gone" => UNCHANGED expunge
        <3> SUFFICES ASSUME code = "gone" PROVE UNCHANGED expunge
            OBVIOUS
        <3>1. ~listed /\ \A p \in Callers : expunge[p] = "none"
            BY <1>2 DEF LifeInv, PlaceInv, BasePhase, Living
        <3> QED
            BY <1>4, <3>1 DEF UnitOthers, ClientStep, OpenStart, OpenRefused, OpenInvalid, OpenBusy, OpenFails,
               OpenGranted,
               ClientOnFreed, SetParams, Close, SystemExpunges, ExpungeReturn, Expunging,
               ExpungeFree, ExpungeSignal, Callers
    <2> QED
        BY <1>1, <2>1, <2>2
<1>5. CASE StackCloses
    BY <1>5, FS_RemoveElement DEF StackCloses, Library!Close, vars
<1>6. CASE LibraryOthers
    <2>1. UNCHANGED <<worker, expunge>> /\ \A p \in Callers : expunge[p] = "none"
        BY <1>6 DEF LibraryOthers, vars, Undisturbed, NoExpungeBy
    <2>2. CASE Library!ExpungeStart
        BY <2>1, <2>2, FS_EmptySet DEF Library!ExpungeStart, Library!NobodyHasIt
    <2>3. CASE Library!ExpungeEnd
        BY <2>1, <2>3 DEF Library!ExpungeEnd
    <2>4. ASSUME NEW o \in Openers \ {"stack"}, Library!Open(o)
          PROVE  LibraryInv'
        BY <2>1, <2>4, FS_AddElement DEF Library!Open, Library!Findable
    <2>5. ASSUME NEW o \in Openers \ {"stack"}, Library!Close(o)
          PROVE  LibraryInv'
        BY <2>1, <2>5, FS_RemoveElement DEF Library!Close
    <2> QED
        BY <1>6, <2>2, <2>3, <2>4, <2>5 DEF LibraryOthers, Library!Others
<1>7. CASE UNCHANGED driverVars
    BY <1>1, <1>7 DEF driverVars, vars
<1> QED
    BY <1>3, <1>4, <1>5, <1>6, <1>7 DEF DriverNext

\* The code is not unloaded under the worker or under anybody in a method of the
\* device, if exec calls the methods with task switching forbidden.
THEOREM CodeStaysLoaded ==
    ASSUME Forbid
    PROVE  DriverSpec => []CodeStays
<1>1. DriverSpec => []LifeInv
    BY DriverImplementsUnit, LifeAlways, PTL
<1>2. LifeInv /\ LibraryInv /\ [DriverNext]_driverVars => LibraryInv'
    BY LibraryStep
<1>3. LifeInv /\ LibraryInv => CodeStays
    BY DEF LifeInv, PlaceInv, UsersFindBase, BasePhase, Living, LibraryInv, CodeStays
<1> QED
    BY <1>1, <1>2, <1>3, LibraryInit, PTL DEF DriverSpec
(***************************************************************************)
(* The driver implements PL2303Chip.                                       *)
(***************************************************************************)
ChipFacts == INSTANCE PL2303Chip_proofs

LEMMA DriverChipStep == [DriverNext]_driverVars => [Chip!Next]_chipVars
<1> SUFFICES ASSUME [DriverNext]_driverVars PROVE [Chip!Next]_chipVars
    OBVIOUS
<1>1. CASE SetUpChip
    BY <1>1 DEF SetUpChip
<1>2. CASE ~SetUpChip
    <2>1. UNCHANGED chipVars
        BY <1>2 DEF DriverNext, DriverWorker, Climb, ClimbFails, CreateDevice, ChipSetupFails,
           Offer, Serve, GiveUp, EndTask, UnitOthers, StackCloses, LibraryOthers, driverVars
    <2> QED
        BY <2>1
<1> QED
    BY <1>1, <1>2

\* The chip of the driver is set up as PL2303Chip says.
THEOREM DriverImplementsChip == DriverSpec => Chip!Spec
<1>1. DriverInit => Chip!Init
    BY DEF DriverInit
<1>3. [DriverNext]_driverVars => [Chip!Next]_(Chip!chipVars)
    BY DriverChipStep DEF chipVars, Chip!chipVars
<1> QED
    BY <1>1, <1>3, PTL DEF DriverSpec, Chip!Spec

LEMMA SameSetup == Chip!Spec => ChipFacts!Spec
<1>1. Chip!Init <=> ChipFacts!Init
    BY DEF Chip!Init, ChipFacts!Init
<1>2. [Chip!Next]_(Chip!chipVars) <=> [ChipFacts!Next]_(ChipFacts!chipVars)
    BY DEF Chip!Next, Chip!Detect, Chip!GetBuffer, Chip!CheckClone,
           Chip!SetControlLines, Chip!ProgramStep, Chip!Programmed, Chip!SetCoding,
           Chip!LookAgain, Chip!chipVars, ChipFacts!Next, ChipFacts!Detect,
           ChipFacts!GetBuffer, ChipFacts!CheckClone, ChipFacts!SetControlLines,
           ChipFacts!ProgramStep, ChipFacts!Programmed, ChipFacts!SetCoding,
           ChipFacts!LookAgain, ChipFacts!chipVars, Chip!HxStatus, Chip!Outcomes,
           Chip!Detected, Chip!TypeQuirks, Chip!CloneQuirk, Chip!AsksChip,
           Chip!LineResults, Chip!Count, Chip!LooksAtCoding, Chip!GoesOn,
           Chip!Sequence, Chip!Read, Chip!Write, ChipFacts!HxStatus,
           ChipFacts!Outcomes, ChipFacts!Detected, ChipFacts!TypeQuirks,
           ChipFacts!CloneQuirk, ChipFacts!AsksChip, ChipFacts!LineResults,
           ChipFacts!Count, ChipFacts!LooksAtCoding, ChipFacts!GoesOn,
           ChipFacts!Sequence, ChipFacts!Read, ChipFacts!Write
<1> QED
    BY <1>1, <1>2, PTL DEF Chip!Spec, ChipFacts!Spec

\* Clients are offered only chips that have taken their whole init sequence.
THEOREM OfferedChipsProgrammed == DriverSpec => []ChipProgrammed
<1>1. ChipFacts!Spec => []ChipFacts!ChipProgrammed
    BY ChipFacts!ProgrammedAlways
<1>2. ChipFacts!ChipProgrammed <=> ChipProgrammed
    BY DEF ChipProgrammed, Chip!ChipProgrammed, ChipFacts!ChipProgrammed
<1> QED
    BY <1>1, <1>2, DriverImplementsChip, SameSetup, PTL

\* A clone is asked for its line coding once and never again.
THEOREM DriverAsksClonesOnce == DriverSpec => []CloneAskedOnce
<1>1. ChipFacts!Spec => []ChipFacts!CloneAskedOnce
    BY ChipFacts!ClonesAskedOnce
<1>2. ChipFacts!CloneAskedOnce <=> CloneAskedOnce
    BY DEF CloneAskedOnce, Chip!CloneAskedOnce, ChipFacts!CloneAskedOnce
<1> QED
    BY <1>1, <1>2, DriverImplementsChip, SameSetup, PTL

\* What PL2303Unit promises the clients holds for the whole driver: nobody loses
\* the device under his feet.
THEOREM DriverKeepsInPlace ==
    ASSUME Forbid
    PROVE  DriverSpec => []InPlace
    BY DriverImplementsUnit, InPlaceKept, PTL

(***************************************************************************)
(* Types.                                                                  *)
(***************************************************************************)
CodeInv == code \in {"resident", "leaving", "gone"} /\ openers \subseteq Openers

LEMMA CodeStep ==
    ASSUME CodeInv, [DriverNext]_driverVars
    PROVE  CodeInv'
<1> USE DEF CodeInv
<1>1. CASE StackCloses
    BY <1>1 DEF StackCloses, Library!Close
<1>2. CASE LibraryOthers
    BY <1>2 DEF LibraryOthers, Library!Others, Library!Open, Library!Close,
       Library!ExpungeStart, Library!ExpungeEnd
<1>3. CASE ~(StackCloses \/ LibraryOthers)
    <2>1. UNCHANGED <<code, openers>>
        BY <1>3 DEF DriverNext, DriverWorker, Climb, ClimbFails, CreateDevice, SetUpChip,
           ChipSetupFails, Offer, Serve, GiveUp, EndTask, UnitOthers, driverVars, libraryVars
    <2> QED
        BY <2>1
<1> QED
    BY <1>1, <1>2, <1>3

HeldKnown == held \subseteq FreedFrom(1)

LEMMA AllRungs == Climbed(20) = FreedFrom(1)
<1>1. Resources!Label[Resources!Rungs[20]] = 1
    BY DEF Resources!Rungs, Resources!Label
<1> QED
    BY <1>1, LabelsFit

LEMMA ClimbedBelow ==
    ASSUME NEW r \in 1..20
    PROVE  Climbed(r) \subseteq Climbed(20)
<1> SUFFICES ASSUME NEW x \in Climbed(r) PROVE x \in Climbed(20)
    OBVIOUS
<1>1. PICK i \in 1..(r - 1) : x = Resources!Rungs[i]
    BY DEF Climbed
<1>2. i \in 1..(20 - 1) /\ x \notin Resources!LookedUp
    BY DEF Climbed
<1> QED
    BY <1>1, <1>2 DEF Climbed

LEMMA HeldStep ==
    ASSUME ResourceInv, ResourceInv', HeldKnown, [DriverNext]_driverVars
    PROVE  HeldKnown'
<1> USE DEF HeldKnown
<1>1. CASE worker' = "done"
    <2>1. UNCHANGED held
        BY <1>1 DEF DriverNext, DriverWorker, Climb, ClimbFails, CreateDevice, SetUpChip,
           ChipSetupFails, Offer, Serve, GiveUp, EndTask, UnitOthers, StackCloses,
           LibraryOthers, driverVars, resourceVars, vars, Resources!Fail,
           Resources!Complete, Resources!Released, Resources!resourceVars
    <2> QED
        BY <2>1 DEF FreedFrom
<1>2. CASE worker' = "setup"
    <2>1. rung' \in 1..20 /\ held' = Climbed(rung')
        BY <1>2 DEF ResourceInv, Climbed
    <2>2. Climbed(rung') \subseteq Climbed(20)
        BY <2>1, ClimbedBelow
    <2> QED
        BY <2>1, <2>2, AllRungs DEF FreedFrom
<1>3. CASE worker' \notin {"setup", "done"}
    <2>1. exit' \in 1..15 /\ (held' = FreedFrom(1) \/ held' = FreedFrom(exit'))
        BY <1>3 DEF ResourceInv, FreedFrom
    <2>2. FreedFrom(exit') \subseteq FreedFrom(1)
        BY <2>1 DEF FreedFrom
    <2> QED
        BY <2>1, <2>2 DEF FreedFrom
<1> QED
    BY <1>1, <1>2, <1>3

\* What the setup of the chip keeps, said with the driver's own variables.
SetupTypes ==
    /\ adapter \in Adapters
    /\ step \in {"detect", "buffer", "clone", "lines", "program", "coding",
                 "look", "ready", "failed"}
    /\ type \in {"H", "HX", "TA", "TB", "HXD", "HXN", "UNKNOWN"}
    /\ quirks \subseteq {"LEGACY", "NO_BREAK_GETLINE"}
    /\ at \in 1..12 /\ found \in BOOLEAN /\ stalled \in 0..2
    /\ DOMAIN regs \subseteq {0, 1, 2, \h404}
    /\ regs \in [DOMAIN regs -> {0, 1, \h24, \h44}]

LEMMA SetupTypeCorrect == DriverSpec => []SetupTypes
<1>1. ChipFacts!Spec =>
        [](ChipFacts!ProgramInv /\ ChipFacts!StallInv /\ ChipFacts!ChipTypes)
    BY ChipFacts!ChipTypeCorrect
<1>2. ChipFacts!ProgramInv /\ ChipFacts!StallInv /\ ChipFacts!ChipTypes => SetupTypes
    BY DEF SetupTypes, ChipFacts!ProgramInv, ChipFacts!StallInv, ChipFacts!ChipTypes,
           ChipFacts!Registers, ChipFacts!Values
<1> QED
    BY <1>1, <1>2, DriverImplementsChip, SameSetup, PTL

\* All parts of the driver keep their types: the ladder never runs past its ends,
\* the count of the library never falls below zero, and the chip is only ever
\* given registers and values of the init sequence.
THEOREM DriverTypeCorrect ==
    ASSUME Forbid
    PROVE  DriverSpec => []DriverTypeOK
<1>1. DriverInit => CodeInv
    BY OpenerAssumption DEF DriverInit, Library!Init, CodeInv
<1>2. DriverSpec => []LifeInv
    BY DriverImplementsUnit, LifeAlways, PTL
<1>3. DriverSpec => []TypeOK
    BY DriverImplementsUnit, UnitTypeCorrect, PTL
<1>4. LifeInv /\ LibraryInv /\ [DriverNext]_driverVars => LibraryInv'
    BY LibraryStep
<1>5. LibraryInv => libCnt \in Nat
    BY FS_CardinalityType DEF LibraryInv
<1>6. ResourceInv => rung \in 1..20 /\ exit \in 1..15
    BY DEF ResourceInv
<1>7. ResourceInv /\ HeldKnown => held \subseteq {Resources!Releases[i] : i \in 1..14}
    BY DEF HeldKnown, FreedFrom
<1>8. TypeOK /\ SetupTypes /\ CodeInv /\ LibraryInv /\ ResourceInv /\ HeldKnown => DriverTypeOK
    BY <1>5, <1>6, <1>7, Lengths DEF DriverTypeOK, SetupTypes, CodeInv
<1>9. DriverInit => HeldKnown
    BY DEF DriverInit, Resources!Init, HeldKnown
<1> QED
    BY <1>1, <1>2, <1>3, <1>4, <1>8, <1>9, CodeStep, HeldStep, LibraryInit, ResourceAlways,
       SetupTypeCorrect, PTL DEF DriverSpec
=============================================================================
