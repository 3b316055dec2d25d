------------------------- MODULE PL2303Unit_proofs -------------------------
(***************************************************************************)
(* Proofs about opening and closing the device, for any number of clients, *)
(* for calls that interleave in any way and for an expunge at any time.    *)
(***************************************************************************)
EXTENDS PL2303Unit, FiniteSetTheorems, TLAPS

Users == {c \in Client : call[c] # "closed"}

\* The variables Open and Close work on.
CountType ==
    /\ openCnt \in Nat
    /\ call \in [Client -> {"closed", "opening", "open"}]
    /\ seen \in [Client -> Nat]
    /\ shared \in BOOLEAN

\* An Open that found nobody is the only one that did, and nobody has the
\* device open, as long as the flag SERF_SHARED does not let others in.
FirstAlone ==
    ~shared => \A c, d \in Client :
        call[c] = "opening" /\ seen[c] = 0 /\ c # d =>
            call[d] = "closed" \/ (call[d] = "opening" /\ seen[d] > 0)

OpenInv == CountType /\ CountMatches /\ FirstAlone /\ AloneUnlessShared

\* The open count rises by one with a new user and falls by one without one.
LEMMA UsersAdd ==
    ASSUME CountMatches, openCnt \in Nat, NEW c \in Client, c \notin Users
    PROVE  Cardinality(Users \cup {c}) = openCnt + 1
<1>1. IsFiniteSet(Users)
    BY ClientAssumption, FS_Subset DEF Users
<1> QED
    BY <1>1, FS_AddElement DEF CountMatches, Users

LEMMA UsersRemove ==
    ASSUME CountMatches, openCnt \in Nat, NEW c \in Client, c \in Users
    PROVE  Cardinality(Users \ {c}) = openCnt - 1 /\ openCnt - 1 \in Nat
<1>1. IsFiniteSet(Users)
    BY ClientAssumption, FS_Subset DEF Users
<1>2. Cardinality(Users \ {c}) = openCnt - 1
    BY <1>1, FS_RemoveElement DEF CountMatches, Users
<1>3. Cardinality(Users \ {c}) \in Nat
    BY <1>1, FS_RemoveElement, FS_CardinalityType
<1> QED
    BY <1>2, <1>3

\* If the count is 0 nobody is a user.
LEMMA NoUsers ==
    ASSUME CountMatches, openCnt = 0
    PROVE  \A c \in Client : call[c] = "closed"
<1>1. IsFiniteSet(Users)
    BY ClientAssumption, FS_Subset DEF Users
<1>2. Users = {}
    BY <1>1, FS_EmptySet DEF CountMatches, Users
<1> QED
    BY <1>2 DEF Users

\* If somebody is a user the count is not 0.
LEMMA SomeUser ==
    ASSUME CountMatches, openCnt \in Nat, NEW c \in Client, call[c] # "closed"
    PROVE  openCnt > 0
    BY NoUsers

LEMMA OpenStartStep ==
    ASSUME OpenInv, NEW c \in Client, OpenStart(c)
    PROVE  OpenInv'
<1> USE DEF OpenInv, OpenStart, TakeReference
<1>1. CountType'
    BY DEF CountType
<1>2. CountMatches'
    <2>1. Users' = Users \cup {c} /\ c \notin Users
        BY DEF Users, CountType
    <2> QED
        BY <2>1, UsersAdd DEF CountMatches, CountType, Users
<1>3. FirstAlone'
    <2> SUFFICES ASSUME ~shared, NEW a \in Client, NEW d \in Client, a # d,
                        call'[a] = "opening", seen'[a] = 0
                 PROVE  call'[d] = "closed" \/ (call'[d] = "opening" /\ seen'[d] > 0)
        BY DEF FirstAlone
    <2>1. CASE a = c
        <3>1. openCnt = 0
            BY <2>1 DEF CountType
        <3> QED
            BY <2>1, <3>1, NoUsers DEF CountType
    <2>2. CASE d = c
        <3>1. call[a] = "opening" /\ seen[a] = 0
            BY <2>2 DEF CountType
        <3>2. openCnt > 0
            BY <3>1, SomeUser DEF CountType
        <3> QED
            BY <2>2, <3>2 DEF CountType
    <2>3. CASE a # c /\ d # c
        BY <2>3 DEF FirstAlone, CountType
    <2> QED
        BY <2>1, <2>2, <2>3
<1>4. AloneUnlessShared'
    BY DEF AloneUnlessShared, CountType
<1> QED
    BY <1>1, <1>2, <1>3, <1>4

\* Open that is refused, and Close, give one reference back.
LEMMA GiveBackStep ==
    ASSUME OpenInv, NEW c \in Client, OpenRefused(c) \/ Close(c)
    PROVE  OpenInv'
<1> USE DEF OpenInv
<1>0. /\ call[c] # "closed" /\ openCnt' = openCnt - 1
      /\ call' = [call EXCEPT ![c] = "closed"]
      /\ seen' \in {seen, [seen EXCEPT ![c] = 0]}
      /\ UNCHANGED shared
    BY DEF OpenRefused, OpenInvalid, OpenBusy, OpenFails, Close, GiveBack
<1>1. Users' = Users \ {c} /\ c \in Users
    BY <1>0 DEF Users, CountType
<1>2. Cardinality(Users \ {c}) = openCnt - 1 /\ openCnt - 1 \in Nat
    BY <1>1, UsersRemove DEF CountType
<1>3. CountType'
    BY <1>0, <1>2 DEF CountType
<1>4. CountMatches'
    BY <1>0, <1>1, <1>2 DEF CountMatches, Users
<1>5. FirstAlone' /\ AloneUnlessShared'
    BY <1>0 DEF FirstAlone, AloneUnlessShared, CountType
<1> QED
    BY <1>3, <1>4, <1>5

LEMMA OpenGrantedStep ==
    ASSUME OpenInv, NEW c \in Client, OpenGranted(c)
    PROVE  OpenInv'
<1> USE DEF OpenInv, OpenGranted
<1>1. CountType'
    BY DEF CountType
<1>2. CountMatches'
    <2>1. Users' = Users
        BY DEF Users, CountType
    <2> QED
        BY <2>1 DEF CountMatches, Users
<1>3. CASE shared'
    BY <1>1, <1>2, <1>3 DEF FirstAlone, AloneUnlessShared
<1>4. CASE ~shared'
    <2>1. ~shared /\ seen[c] = 0
        BY <1>4 DEF Busy, CountType
    <2>2. \A d \in Client \ {c} :
            call[d] = "closed" \/ (call[d] = "opening" /\ seen[d] > 0)
        BY <2>1 DEF FirstAlone
    <2>3. FirstAlone'
        BY <2>2 DEF FirstAlone, CountType
    <2>4. AloneUnlessShared'
        BY <2>2 DEF AloneUnlessShared, CountType
    <2> QED
        BY <1>1, <1>2, <2>3, <2>4
<1> QED
    BY <1>3, <1>4

\* Whoever has parameters to set has the device open, and while the worker is
\* between load and store what it has loaded is what Open would find.
ParamInv ==
    /\ params \in [Client -> {"none", "queued", "applying"}] /\ loaded \in BOOLEAN
    /\ \A c \in Client : params[c] # "none" => call[c] = "open"
    /\ \A c \in Client : params[c] = "applying" => loaded = shared

SharedInv == OpenInv /\ ParamInv

LEMMA ClientParams ==
    ASSUME SharedInv, NEW c \in Client, ClientStep(c)
    PROVE  ParamInv'
<1> USE DEF SharedInv, ParamInv
<1>1. CASE OpenStart(c) \/ OpenRefused(c)
    BY <1>1 DEF OpenStart, OpenRefused, OpenInvalid, OpenBusy, OpenFails,
       paramVars, OpenInv, CountType
<1>2. CASE OpenGranted(c)
    <2>1. ASSUME NEW d \in Client, params[d] = "applying" PROVE shared' = shared
        <3>1. call[d] = "open" /\ call[c] = "opening" /\ c # d
            BY <1>2, <2>1 DEF OpenGranted
        <3>2. shared \/ seen[c] > 0
            BY <3>1 DEF OpenInv, FirstAlone, CountType
        <3>3. shared
            BY <1>2, <3>2 DEF OpenGranted, Busy
        <3> QED
            BY <1>2, <3>3 DEF OpenGranted, OpenInv, CountType
    <2> QED
        BY <1>2, <2>1 DEF OpenGranted, paramVars, OpenInv, CountType
<1>3. CASE ClientOnFreed(c)
    BY <1>3 DEF ClientOnFreed, paramVars
<1>4. CASE SetParams(c)
    BY <1>4 DEF SetParams
<1>5. CASE Close(c)
    BY <1>5 DEF Close, paramVars, OpenInv, CountType
<1> QED
    BY <1>1, <1>2, <1>3, <1>4, <1>5 DEF ClientStep

\* What the worker stores in io_SerFlags is what it finds there.
LEMMA StoreKeepsShared ==
    ASSUME SharedInv, NEW c \in Client, StoreFlags(c)
    PROVE  UNCHANGED shared
    BY DEF SharedInv, ParamInv, StoreFlags

LEMMA WorkerSteps ==
    ASSUME SharedInv, Worker
    PROVE  /\ UNCHANGED <<openCnt, shared, call, seen>>
           /\ ParamInv'
<1>1. CASE \E c \in Client : LoadFlags(c)
    BY <1>1 DEF LoadFlags, SharedInv, ParamInv, OpenInv, CountType
<1>2. CASE \E c \in Client : StoreFlags(c)
    BY <1>2, StoreKeepsShared DEF StoreFlags, SharedInv, ParamInv
<1>3. CASE ~ \E c \in Client : LoadFlags(c) \/ StoreFlags(c)
    BY <1>3 DEF Worker, CreateBase, SetupFails, ChipFails, AddDevice, EnterLoop, Work,
       WakeForWork, WakeForExpunge, Detach, ClearSignal, RemDevice, RemDeviceReturn,
       Unpark, FreeResources, SharedInv, ParamInv, paramVars
<1> QED
    BY <1>1, <1>2, <1>3

LEMMA SharedStep ==
    ASSUME SharedInv, [Next]_vars
    PROVE  SharedInv'
<1>1. ASSUME UNCHANGED <<openCnt, shared, call, seen>>
      PROVE  OpenInv'
    BY <1>1 DEF SharedInv, OpenInv, CountType, CountMatches, FirstAlone, AloneUnlessShared
<1>2. ASSUME NEW c \in Client, ClientStep(c)
      PROVE  SharedInv'
    <2>1. CASE ClientOnFreed(c) \/ SetParams(c)
        BY <1>1, <1>2, <2>1, ClientParams DEF ClientOnFreed, SetParams, SharedInv
    <2> QED
        BY <1>2, <2>1, ClientParams, OpenStartStep, GiveBackStep, OpenGrantedStep
           DEF ClientStep, SharedInv
<1>3. CASE Worker
    BY <1>1, <1>3, WorkerSteps DEF SharedInv
<1>4. CASE SystemExpunges \/ ExpungeReturn \/ \E p \in Callers : Expunging(p)
    <2>1. UNCHANGED <<openCnt, shared, call, seen, paramVars>>
        BY <1>4 DEF SystemExpunges, ExpungeReturn, Expunging, ExpungeFree, ExpungeSignal
    <2> QED
        BY <1>1, <2>1 DEF SharedInv, ParamInv, paramVars
<1>5. CASE UNCHANGED vars
    BY <1>1, <1>5 DEF vars, paramVars, SharedInv, ParamInv
<1> QED
    BY <1>2, <1>3, <1>4, <1>5 DEF Next, Stopped

LEMMA SharedInit == Init => SharedInv
<1> SUFFICES ASSUME Init PROVE SharedInv
    OBVIOUS
<1>1. {c \in Client : call[c] # "closed"} = {}
    BY DEF Init
<1> QED
    BY <1>1, FS_EmptySet
       DEF Init, SharedInv, ParamInv, OpenInv, CountType, CountMatches, FirstAlone,
           AloneUnlessShared

LEMMA SharedAlways == Spec => []SharedInv
    BY SharedInit, SharedStep, PTL DEF Spec

\* lib_OpenCnt is the number of clients that have the device open or are in
\* Open, in every interleaving of any number of clients.
THEOREM CountKept == Spec => []CountMatches
<1>1. SharedInv => CountMatches
    BY DEF SharedInv, OpenInv
<1> QED
    BY <1>1, SharedAlways, PTL

\* Until some client has opened the unit shared, at most one has it open, in
\* every interleaving of any number of clients and without task switching
\* being forbidden.
THEOREM AloneKept == Spec => []AloneUnlessShared
<1>1. SharedInv => AloneUnlessShared
    BY DEF SharedInv, OpenInv
<1> QED
    BY <1>1, SharedAlways, PTL

\* SERF_SHARED is never lost in the byte that the worker loads, changes and
\* stores, though nothing keeps Open from writing it in between.
THEOREM SharedStays == Spec => SharedKept
<1>1. ASSUME SharedInv, [Next]_vars
      PROVE  [shared => shared']_vars
    <2>1. CASE \E c \in Client : ClientStep(c)
        BY <2>1 DEF ClientStep, OpenStart, OpenRefused, OpenInvalid, OpenBusy, OpenFails,
           OpenGranted, ClientOnFreed,
           SetParams, Close
    <2>2. CASE Worker
        BY <1>1, <2>2, WorkerSteps
    <2>3. CASE SystemExpunges \/ ExpungeReturn \/ \E p \in Callers : Expunging(p)
        BY <2>3 DEF SystemExpunges, ExpungeReturn, Expunging, ExpungeFree, ExpungeSignal
    <2>4. CASE UNCHANGED vars
        BY <2>4
    <2> QED
        BY <1>1, <2>1, <2>2, <2>3, <2>4 DEF Next, Stopped
<1> QED
    BY <1>1, SharedAlways, PTL DEF Spec, SharedKept
(***************************************************************************)
(* The base and those who use it, when exec calls the methods of the       *)
(* device with task switching forbidden.                                   *)
(***************************************************************************)
WorkerStates ==
    {"setup", "created", "added", "wait", "busy", "applying", "left", "remove",
     "removing", "parked", "freeing", "done"}

\* Where the worker is as long as there is a base that nobody has freed.
Living == WorkerStates \ {"setup", "freeing", "done"}

LifeType ==
    /\ base \in {"none", "live", "freed"} /\ listed \in BOOLEAN /\ delexp \in BOOLEAN
    /\ expunge \in [Callers -> {"none", "refused", "checked", "freed", "signalled"}]
    /\ single \in BOOLEAN
    /\ worker \in WorkerStates
    /\ fault \in {"none", "called on freed base", "freed twice",
                  "removed while in no list", "worked on freed base",
                  "removed freed base"}

BasePhase ==
    /\ worker = "setup" => base = "none"
    /\ base = "none" => worker \in {"setup", "freeing", "done"}
    /\ base = "live" => worker \in Living
    /\ listed => base = "live"

\* Until AddDevice nobody knows of the device.
Unpublished ==
    worker \in {"setup", "created"} =>
        ~listed /\ base # "freed" /\ \A p \in Callers : expunge[p] = "none"

\* No call of the manager meets another one.
OneCall ==
    \A p \in Callers : expunge[p] # "none" =>
        /\ \A c \in Client : call[c] # "opening"
        /\ \A q \in Callers : expunge[q] # "none" => q = p

\* Between the check of Expunge and the freeing nobody has got the device.
Stages ==
    \A p \in Callers :
        /\ expunge[p] = "checked" => base = "live" /\ \A c \in Client : call[c] = "closed"
        /\ expunge[p] \in {"freed", "signalled"} => base = "freed"

UsersFindBase == \A c \in Client : call[c] # "closed" => base = "live"

\* SIGF_SINGLE is set for an expunge only, but for what is left of the setup.
SignalMeansFreed == base = "live" /\ single => worker \in {"created", "added", "left"}

PlaceInv ==
    /\ LifeType /\ BasePhase /\ Unpublished
    /\ OneCall /\ Stages /\ UsersFindBase /\ SignalMeansFreed

\* The system expunges the device only while the worker waits; the worker's own
\* call is RemDevice.
WhoExpunges ==
    /\ expunge["system"] # "none" => worker \in {"wait", "parked"}
    /\ expunge["worker"] # "none" => worker = "removing"

\* Once the base is freed the worker sleeps and is, or will be, signalled.
FreedIsTold ==
    base = "freed" =>
        /\ worker \in {"wait", "parked", "removing", "freeing", "done"}
        /\ worker \in {"wait", "parked", "removing"} =>
             single \/ \E p \in Callers : expunge[p] = "freed"

\* Only a device whose chip has failed is taken away without having been listed.
Unlisted ==
    base = "live" /\ ~listed =>
        /\ worker \in {"created", "left", "remove", "removing", "parked"}
        /\ worker # "created" => ChipMayFail

OnlyMisuse ==
    fault # "none" => fault = "removed while in no list" /\ ChipMayFail

RestInv == WhoExpunges /\ FreedIsTold /\ Unlisted /\ OnlyMisuse

LifeInv == SharedInv /\ PlaceInv
SafeInv == LifeInv /\ RestInv

LEMMA PlaceInit == Init => PlaceInv
<1> SUFFICES ASSUME Init PROVE PlaceInv
    OBVIOUS
<1>1. LifeType
    BY DEF Init, LifeType, WorkerStates
<1>2. BasePhase /\ Unpublished /\ OneCall /\ Stages /\ UsersFindBase /\ SignalMeansFreed
    BY DEF Init, BasePhase, Unpublished, OneCall, Stages, UsersFindBase, SignalMeansFreed
<1> QED
    BY <1>1, <1>2 DEF PlaceInv

LEMMA ClientPlace ==
    ASSUME Forbid, LifeInv, NEW c \in Client, ClientStep(c)
    PROVE  PlaceInv'
<1> USE DEF LifeInv, PlaceInv, SharedInv, OpenInv, CountType
<1>1. CASE OpenStart(c)
    <2>1. \A p \in Callers : expunge[p] = "none"
        BY <1>1 DEF OpenStart, Undisturbed, NoExpungeBy
    <2> QED
        BY <1>1, <2>1 DEF OpenStart, LifeType, BasePhase, Unpublished, OneCall, Stages,
           UsersFindBase, SignalMeansFreed, paramVars
<1>2. CASE OpenRefused(c) \/ OpenGranted(c) \/ Close(c)
    <2>1. /\ UNCHANGED <<base, listed, expunge, single, worker, fault>>
          /\ delexp' \in BOOLEAN /\ base = "live"
          /\ call' = [call EXCEPT ![c] = "closed"] \/ call' = [call EXCEPT ![c] = "open"]
          /\ call[c] # "closed"
        BY <1>2 DEF OpenRefused, OpenInvalid, OpenBusy, OpenFails,
           OpenGranted, Close, LifeType
    <2>2. LifeType' /\ BasePhase' /\ Unpublished' /\ SignalMeansFreed' /\ UsersFindBase'
        BY <2>1 DEF LifeType, BasePhase, Unpublished, SignalMeansFreed, UsersFindBase
    <2>3. OneCall'
        BY <2>1 DEF OneCall
    <2>4. Stages'
        BY <2>1 DEF Stages
    <2> QED
        BY <2>2, <2>3, <2>4
<1>3. CASE ClientOnFreed(c)
    BY <1>3 DEF ClientOnFreed, UsersFindBase
<1>4. CASE SetParams(c)
    BY <1>4 DEF SetParams, LifeType, BasePhase, Unpublished, OneCall, Stages, UsersFindBase,
       SignalMeansFreed
<1> QED
    BY <1>1, <1>2, <1>3, <1>4 DEF ClientStep

\* Expunge, whoever calls it, finds nobody when it goes on.
LEMMA CheckFindsNobody ==
    ASSUME LifeInv, NEW p \in Callers, ExpungeCheck(p)
    PROVE  /\ \/ expunge' = [expunge EXCEPT ![p] = "refused"]
              \/ /\ expunge' = [expunge EXCEPT ![p] = "checked"]
                 /\ \A c \in Client : call[c] = "closed"
           /\ delexp' \in BOOLEAN
<1>1. CASE openCnt # 0
    BY <1>1 DEF ExpungeCheck
<1>2. CASE openCnt = 0
    <2>1. \A c \in Client : call[c] = "closed"
        BY <1>2, NoUsers DEF LifeInv, SharedInv, OpenInv
    <2> QED
        BY <1>2, <2>1 DEF ExpungeCheck, LifeInv, PlaceInv, LifeType
<1> QED
    BY <1>1, <1>2

LEMMA ExpungePlace ==
    ASSUME Forbid, LifeInv,
           SystemExpunges \/ ExpungeReturn \/ \E p \in Callers : Expunging(p)
    PROVE  PlaceInv'
<1> USE DEF LifeInv, PlaceInv
<1>1. CASE SystemExpunges
    <2>1. /\ \A p \in Callers : expunge[p] = "none"
          /\ \A c \in Client : call[c] # "opening"
        BY <1>1 DEF SystemExpunges, Undisturbed, NoClientCall, NoExpungeBy
    <2>2. base = "live" /\ worker \notin {"setup", "created"}
        BY <1>1 DEF SystemExpunges, BasePhase, Unpublished
    <2>3. /\ \/ expunge' = [expunge EXCEPT !["system"] = "refused"]
             \/ /\ expunge' = [expunge EXCEPT !["system"] = "checked"]
                /\ \A c \in Client : call[c] = "closed"
          /\ delexp' \in BOOLEAN
        BY <1>1, CheckFindsNobody DEF SystemExpunges, Callers
    <2> QED
        BY <1>1, <2>1, <2>2, <2>3 DEF SystemExpunges, LifeType, BasePhase, Unpublished,
           OneCall, Stages, UsersFindBase, SignalMeansFreed, Callers
<1>2. CASE ExpungeReturn
    BY <1>2 DEF ExpungeReturn, LifeType, BasePhase, Unpublished, OneCall, Stages, UsersFindBase,
       SignalMeansFreed, Callers
<1>3. ASSUME NEW p \in Callers, ExpungeFree(p)
      PROVE  PlaceInv'
    <2>1. base = "live" /\ \A c \in Client : call[c] = "closed"
        BY <1>3 DEF ExpungeFree, Stages
    <2>2. LifeType'
        BY <1>3, <2>1 DEF ExpungeFree, LifeType
    <2>3. BasePhase' /\ Unpublished' /\ UsersFindBase' /\ SignalMeansFreed'
        BY <1>3, <2>1 DEF ExpungeFree, BasePhase, Unpublished, UsersFindBase, SignalMeansFreed, Living
    <2>4. OneCall'
        BY <1>3 DEF ExpungeFree, OneCall, LifeType
    <2>5. Stages'
        BY <1>3 DEF ExpungeFree, OneCall, Stages, LifeType
    <2> QED
        BY <2>2, <2>3, <2>4, <2>5
<1>4. ASSUME NEW p \in Callers, ExpungeSignal(p)
      PROVE  PlaceInv'
    <2>1. base = "freed" /\ single' = TRUE
        BY <1>4 DEF ExpungeSignal, Stages, SignalWorker
    <2> QED
        BY <1>4, <2>1 DEF ExpungeSignal, LifeType, BasePhase, Unpublished, OneCall, Stages,
           UsersFindBase, SignalMeansFreed
<1> QED
    BY <1>1, <1>2, <1>3, <1>4 DEF Expunging

\* A step of the worker that calls nobody leaves all in place.
LEMMA WorkerMoves ==
    ASSUME LifeInv, UNCHANGED <<base, delexp, call, expunge>>,
           listed' \in BOOLEAN, listed' => base = "live",
           single' \in BOOLEAN, fault' \in {"none", "worked on freed base"},
           worker' \in WorkerStates \ {"setup", "created"},
           base = "live" => worker' \in Living,
           base = "none" => worker' \in {"freeing", "done"},
           base = "live" /\ single' => worker' \in {"created", "added", "left"}
    PROVE  PlaceInv'
<1>1. LifeType'
    BY DEF LifeInv, PlaceInv, LifeType
<1>2. BasePhase'
    BY DEF BasePhase
<1>5. Unpublished'
    BY DEF Unpublished
<1>4. SignalMeansFreed'
    BY DEF SignalMeansFreed
<1>3. OneCall' /\ Stages' /\ UsersFindBase'
    BY DEF LifeInv, PlaceInv, OneCall, Stages, UsersFindBase
<1> QED
    BY <1>1, <1>2, <1>3, <1>4, <1>5 DEF PlaceInv

LEMMA WorkerPlace ==
    ASSUME Forbid, LifeInv, Worker
    PROVE  PlaceInv'
<1> USE DEF LifeInv, PlaceInv, Moves
<1>1. CASE RemDevice
    <2>1. /\ \A c \in Client : call[c] # "opening"
          /\ expunge["system"] = "none"
        BY <1>1 DEF RemDevice, NoClientCall, NoExpungeBy
    <2>2. CASE base = "freed"
        BY <1>1, <2>2 DEF RemDevice, LifeType, BasePhase, Unpublished, OneCall, Stages, UsersFindBase,
           SignalMeansFreed, WorkerStates, Living
    <2>3. CASE base = "live"
        <3>1. /\ \/ expunge' = [expunge EXCEPT !["worker"] = "refused"]
                 \/ /\ expunge' = [expunge EXCEPT !["worker"] = "checked"]
                    /\ \A c \in Client : call[c] = "closed"
              /\ delexp' \in BOOLEAN
            BY <1>1, <2>3, CheckFindsNobody DEF RemDevice, Callers
        <3> QED
            BY <1>1, <2>1, <2>3, <3>1 DEF RemDevice, LifeType, BasePhase, Unpublished, OneCall, Stages,
               UsersFindBase, SignalMeansFreed, WorkerStates, Living, Callers
    <2> QED
        BY <1>1, <2>2, <2>3 DEF RemDevice, LifeType, BasePhase
<1>2. CASE RemDeviceReturn
    BY <1>2 DEF RemDeviceReturn, LifeType, BasePhase, Unpublished, OneCall, Stages, UsersFindBase,
       SignalMeansFreed, WorkerStates, Living, Callers
<1>3. CASE CreateBase
    <2>2. base' = "live" /\ worker' = "created" /\ base = "none" /\ ~listed
        BY <1>3 DEF CreateBase, BasePhase, LifeType
    <2>3. UNCHANGED <<listed, delexp, call, expunge, single, fault>>
        BY <1>3 DEF CreateBase
    <2>4. LifeType' /\ BasePhase' /\ Unpublished'
        BY <1>3, <2>2, <2>3
           DEF CreateBase, LifeType, BasePhase, Unpublished, WorkerStates, Living
    <2>5. OneCall' /\ UsersFindBase' /\ SignalMeansFreed'
        BY <2>2, <2>3 DEF OneCall, UsersFindBase, SignalMeansFreed
    <2>6. Stages'
        BY <2>2, <2>3 DEF Stages
    <2> QED
        BY <2>4, <2>5, <2>6
<1>4. CASE SetupFails
    BY <1>4, WorkerMoves DEF SetupFails, LifeType, BasePhase, WorkerStates
<1>5. CASE ChipFails \/ AddDevice
    <2>1. /\ UNCHANGED <<base, delexp, call, expunge, single, fault>>
          /\ listed' \in BOOLEAN /\ fault = "none"
          /\ worker = "created" /\ worker' \in {"left", "added"}
        BY <1>5 DEF ChipFails, AddDevice, LifeType
    <2>2. base = "live"
        BY <2>1 DEF BasePhase, Unpublished, LifeType
    <2> QED
        BY <2>1, <2>2, WorkerMoves DEF LifeType, WorkerStates, Living
<1>6. CASE EnterLoop \/ ClearSignal
    <2>1. /\ UNCHANGED <<base, listed, delexp, call, expunge, fault>>
          /\ single' = FALSE /\ fault = "none"
          /\ worker \in {"added", "left"} /\ worker' \in {"busy", "remove"}
        BY <1>6 DEF EnterLoop, ClearSignal, ClearSingle
    <2>2. base # "none" /\ (listed => base = "live") /\ listed \in BOOLEAN
        BY <2>1 DEF LifeType, BasePhase
    <2> QED
        BY <2>1, <2>2, WorkerMoves DEF WorkerStates, Living
<1>7. CASE Detach \/ WakeForWork
    <2>1. /\ UNCHANGED <<base, listed, delexp, call, expunge, single, fault>>
          /\ fault = "none"
          /\ worker \in {"busy", "wait"} /\ worker' \in {"left", "busy"}
        BY <1>7 DEF Detach, WakeForWork
    <2> QED
        BY <2>1, WorkerMoves
           DEF LifeType, BasePhase, SignalMeansFreed, WorkerStates, Living
<1>8. CASE Work \/ \E c \in Client : LoadFlags(c) \/ StoreFlags(c)
    <2>1. /\ UNCHANGED <<base, listed, delexp, call, expunge, single>>
          /\ fault' \in {"none", "worked on freed base"}
          /\ worker \in {"busy", "applying"} /\ worker' \in {"busy", "applying", "wait"}
        BY <1>8 DEF Work, LoadFlags, StoreFlags
    <2> QED
        BY <2>1, WorkerMoves
           DEF LifeType, BasePhase, SignalMeansFreed, WorkerStates, Living
<1>9. CASE WakeForExpunge \/ Unpark \/ FreeResources
    <2>1. base # "live"
        BY <1>9 DEF WakeForExpunge, Unpark, FreeResources, SignalMeansFreed, BasePhase, Living
    <2>2. /\ UNCHANGED <<base, listed, delexp, call, expunge, fault>>
          /\ single' \in BOOLEAN /\ fault = "none"
          /\ worker' \in {"freeing", "done"}
        BY <1>9 DEF WakeForExpunge, Unpark, FreeResources, LifeType
    <2> QED
        BY <2>1, <2>2, WorkerMoves DEF WorkerStates, LifeType, BasePhase
<1> QED
    BY <1>1, <1>2, <1>3, <1>4, <1>5, <1>6, <1>7, <1>8, <1>9 DEF Worker

LEMMA LifeStep ==
    ASSUME Forbid, LifeInv, [Next]_vars
    PROVE  LifeInv'
<1>1. SharedInv'
    BY SharedStep DEF LifeInv
<1>2. CASE UNCHANGED vars
    <2>1. UNCHANGED <<base, listed, delexp, call, expunge, single, worker, fault>>
        BY <1>2 DEF vars
    <2>2. LifeType' /\ BasePhase' /\ Unpublished' /\ SignalMeansFreed'
        BY <2>1 DEF LifeInv, PlaceInv, LifeType, BasePhase, Unpublished, SignalMeansFreed
    <2>3. OneCall' /\ Stages' /\ UsersFindBase'
        BY <2>1 DEF LifeInv, PlaceInv, OneCall, Stages, UsersFindBase
    <2> QED
        BY <1>1, <2>2, <2>3 DEF LifeInv, PlaceInv
<1> QED
    BY <1>1, <1>2, ClientPlace, ExpungePlace, WorkerPlace DEF Next, Stopped, LifeInv

LEMMA LifeAlways ==
    ASSUME Forbid
    PROVE  Spec => []LifeInv
<1>1. Init => LifeInv
    BY SharedInit, PlaceInit DEF LifeInv
<1>2. LifeInv /\ [Next]_vars => LifeInv'
    BY LifeStep
<1> QED
    BY <1>1, <1>2, PTL DEF Spec

\* A client in Open, or with the device open, finds the base, the mutex, the
\* requests and the buffer in place, if exec calls the methods of the device
\* with task switching forbidden - also when the system expunges at the worst time.
THEOREM InPlaceKept ==
    ASSUME Forbid
    PROVE  Spec => []InPlace
<1>1. LifeInv => InPlace
    BY DEF LifeInv, PlaceInv, UsersFindBase, BasePhase, Living, InPlace
<1> QED
    BY <1>1, LifeAlways, PTL

\* The types of PL2303Unit, from the same invariant.
THEOREM UnitTypeCorrect ==
    ASSUME Forbid
    PROVE  Spec => []TypeOK
<1>1. LifeInv => TypeOK
    BY DEF LifeInv, PlaceInv, LifeType, SharedInv, OpenInv, CountType, ParamInv, WorkerStates,
       TypeOK
<1> QED
    BY <1>1, LifeAlways, PTL
(***************************************************************************)
(* The misuses of the freed base and of the device list that the system    *)
(* can be spared, if in addition the system expunges at rest only.         *)
(***************************************************************************)
LEMMA ClientRest ==
    ASSUME SafeInv, NEW c \in Client, ClientStep(c)
    PROVE  RestInv'
<1> USE DEF SafeInv, LifeInv, PlaceInv, RestInv
<1>1. ~ClientOnFreed(c)
    BY DEF ClientOnFreed, UsersFindBase
<1>2. UNCHANGED <<base, listed, expunge, single, worker, fault>>
    BY <1>1 DEF ClientStep, OpenStart, OpenRefused, OpenInvalid, OpenBusy, OpenFails,
       OpenGranted, SetParams, Close
<1> QED
    BY <1>2 DEF WhoExpunges, FreedIsTold, Unlisted, OnlyMisuse

LEMMA ExpungeRest ==
    ASSUME Forbid, SystemExpunge # "any time", SafeInv,
           SystemExpunges \/ ExpungeReturn \/ \E p \in Callers : Expunging(p)
    PROVE  RestInv'
<1> USE DEF SafeInv, LifeInv, PlaceInv, RestInv
<1>1. CASE SystemExpunges
    <2>1. /\ UNCHANGED <<base, listed, single, worker, fault>>
          /\ base = "live" /\ listed /\ fault = "none"
          /\ worker \in {"wait", "parked"}
        BY <1>1, ModeAssumption DEF SystemExpunges, BasePhase
    <2>2. expunge'["worker"] = expunge["worker"]
        BY <1>1 DEF SystemExpunges, ExpungeCheck, LifeType, Callers
    <2> QED
        BY <2>1, <2>2 DEF WhoExpunges, FreedIsTold, Unlisted, OnlyMisuse
<1>2. CASE ExpungeReturn
    <2>1. /\ UNCHANGED <<base, listed, single, worker, fault>>
          /\ expunge["system"] \in {"refused", "signalled"}
          /\ expunge' = [expunge EXCEPT !["system"] = "none"]
        BY <1>2 DEF ExpungeReturn
    <2>2. \A p \in Callers : expunge[p] = "freed" => expunge'[p] = "freed"
        BY <2>1 DEF LifeType, Callers
    <2>3. FreedIsTold'
        BY <2>1, <2>2 DEF FreedIsTold
    <2> QED
        BY <2>1, <2>3 DEF WhoExpunges, Unlisted, OnlyMisuse, LifeType, Callers
<1>3. ASSUME NEW p \in Callers, ExpungeFree(p)
      PROVE  RestInv'
    <2>1. base = "live" /\ base' = "freed" /\ worker' = worker /\ expunge[p] = "checked"
        BY <1>3 DEF ExpungeFree, Stages
    <2>2. worker \in {"wait", "parked", "removing"} /\ expunge'[p] = "freed"
        BY <1>3, <2>1 DEF ExpungeFree, WhoExpunges, Callers, LifeType
    <2>3. worker # "created"
        BY <2>2
    <2>4. OnlyMisuse'
        BY <1>3, <2>1, <2>3 DEF ExpungeFree, OnlyMisuse, Unlisted
    <2>5. WhoExpunges'
        BY <1>3, <2>1 DEF ExpungeFree, WhoExpunges, Callers, LifeType
    <2> QED
        BY <2>1, <2>2, <2>4, <2>5 DEF FreedIsTold, Unlisted
<1>4. ASSUME NEW p \in Callers, ExpungeSignal(p)
      PROVE  RestInv'
    <2>1. base = "freed" /\ single' = TRUE /\ UNCHANGED <<base, listed, worker, fault>>
        BY <1>4 DEF ExpungeSignal, Stages, SignalWorker
    <2>2. WhoExpunges'
        BY <1>4, <2>1 DEF ExpungeSignal, WhoExpunges, Callers, LifeType
    <2> QED
        BY <2>1, <2>2 DEF FreedIsTold, Unlisted, OnlyMisuse
<1> QED
    BY <1>1, <1>2, <1>3, <1>4 DEF Expunging

LEMMA WorkerRest ==
    ASSUME Forbid, SafeInv, Worker
    PROVE  RestInv'
<1> USE DEF SafeInv, LifeInv, PlaceInv, RestInv, Moves
<1>1. expunge["system"] = "none" /\ fault = "none"
    BY DEF Worker, CreateBase, SetupFails, ChipFails, AddDevice, EnterLoop, Work, LoadFlags,
       StoreFlags, WakeForWork, WakeForExpunge, Detach, ClearSignal, RemDevice,
       RemDeviceReturn, Unpark, FreeResources, NoExpungeBy
<1>2. base = "freed" /\ worker \in {"wait", "parked"} => single
    <2>1. base = "freed" /\ worker \in {"wait", "parked"} => expunge["worker"] = "none"
        BY DEF WhoExpunges, LifeType, Callers
    <2> QED
        BY <1>1, <2>1 DEF FreedIsTold, Callers
<1>3. CASE RemDevice
    <2>1. base = "live" /\ worker = "remove" /\ worker' = "removing" /\ fault' = "none"
        BY <1>3 DEF RemDevice, FreedIsTold, BasePhase, LifeType
    <2>2. expunge'["system"] = "none" /\ UNCHANGED <<base, listed>>
        BY <1>1, <1>3, <2>1 DEF RemDevice, ExpungeCheck, LifeType, Callers
    <2> QED
        BY <2>1, <2>2 DEF WhoExpunges, FreedIsTold, Unlisted, OnlyMisuse
<1>4. CASE RemDeviceReturn
    <2>1. /\ worker = "removing" /\ worker' = "parked" /\ UNCHANGED <<base, listed, single, fault>>
          /\ expunge["worker"] \in {"refused", "signalled"}
          /\ expunge' = [expunge EXCEPT !["worker"] = "none"]
        BY <1>4 DEF RemDeviceReturn
    <2>2. expunge'["system"] = "none" /\ expunge'["worker"] = "none"
        BY <1>1, <2>1 DEF LifeType, Callers
    <2>3. base = "freed" => single
        BY <1>1, <2>1 DEF FreedIsTold, Callers
    <2> QED
        BY <1>1, <2>1, <2>2, <2>3 DEF WhoExpunges, FreedIsTold, Unlisted, OnlyMisuse
<1>5. ASSUME expunge' = expunge, UNCHANGED <<listed, base>>, worker # "removing",
             worker' # "setup", worker' # "created",
             base = "freed" =>
                 worker' \in {"freeing", "done"} \/ (worker' \in {"wait", "parked"} /\ single'),
             base = "live" /\ ~listed => worker' \in {"left", "remove", "parked"} /\ ChipMayFail,
             fault' = "none"
      PROVE  RestInv'
    <2>1. expunge["worker"] = "none"
        BY <1>5 DEF WhoExpunges, LifeType, Callers
    <2> QED
        BY <1>1, <1>5, <2>1 DEF WhoExpunges, FreedIsTold, Unlisted, OnlyMisuse
<1>6. CASE CreateBase \/ AddDevice
    <2>1. /\ expunge["worker"] = "none" /\ expunge' = expunge /\ base' = "live" /\ fault' = "none"
          /\ worker' = "created" \/ listed'
        BY <1>1, <1>6 DEF CreateBase, AddDevice, Unpublished, BasePhase, LifeType, Callers
    <2> QED
        BY <1>1, <2>1 DEF WhoExpunges, FreedIsTold, Unlisted, OnlyMisuse
<1>7. CASE SetupFails \/ ChipFails
    BY <1>1, <1>5, <1>7 DEF SetupFails, ChipFails, BasePhase, Unpublished
<1>8. CASE EnterLoop \/ Detach \/ ClearSignal
    BY <1>1, <1>5, <1>8 DEF EnterLoop, Detach, ClearSignal, ClearSingle, FreedIsTold, Unlisted
<1>9. CASE Work \/ \E c \in Client : LoadFlags(c) \/ StoreFlags(c)
    <2>1. /\ UNCHANGED <<base, listed, expunge, single>>
          /\ fault' = IF base = "freed" THEN "worked on freed base" ELSE "none"
          /\ worker \in {"busy", "applying"} /\ worker' \in {"busy", "applying", "wait"}
        BY <1>9 DEF Work, LoadFlags, StoreFlags
    <2>2. base # "freed" /\ (base = "live" => listed)
        BY <2>1 DEF FreedIsTold, Unlisted
    <2> QED
        BY <1>5, <2>1, <2>2
<1>10. CASE WakeForWork
    <2>1. /\ UNCHANGED <<base, listed, expunge, single, fault>>
          /\ ~single /\ worker = "wait" /\ worker' = "busy"
        BY <1>10 DEF WakeForWork
    <2>2. base # "freed" /\ (base = "live" => listed)
        BY <1>2, <2>1 DEF Unlisted
    <2> QED
        BY <1>1, <1>5, <2>1, <2>2
<1>11. CASE WakeForExpunge \/ Unpark \/ FreeResources
    <2>1. base # "live"
        BY <1>11 DEF WakeForExpunge, Unpark, FreeResources, SignalMeansFreed, BasePhase, Living
    <2>2. /\ UNCHANGED <<base, listed, expunge, fault>>
          /\ worker \in {"wait", "parked", "freeing"} /\ worker' \in {"freeing", "done"}
        BY <1>11 DEF WakeForExpunge, Unpark, FreeResources
    <2> QED
        BY <1>1, <1>5, <2>1, <2>2
<1> QED
    BY <1>3, <1>4, <1>6, <1>7, <1>8, <1>9, <1>10, <1>11 DEF Worker

LEMMA SafeStep ==
    ASSUME Forbid, SystemExpunge # "any time", SafeInv, [Next]_vars
    PROVE  SafeInv'
<1>1. LifeInv'
    BY LifeStep DEF SafeInv
<1>2. CASE UNCHANGED vars
    <2>1. UNCHANGED <<base, listed, expunge, single, worker, fault>>
        BY <1>2 DEF vars
    <2> QED
        BY <1>1, <2>1 DEF SafeInv, RestInv, WhoExpunges, FreedIsTold, Unlisted, OnlyMisuse
<1> QED
    BY <1>1, <1>2, ClientRest, ExpungeRest, WorkerRest DEF Next, Stopped, SafeInv

LEMMA SafeInit == Init => SafeInv
    BY SharedInit, PlaceInit
       DEF Init, SafeInv, LifeInv, RestInv, WhoExpunges, FreedIsTold, Unlisted, OnlyMisuse,
           Callers

LEMMA SafeAlways ==
    ASSUME Forbid, SystemExpunge # "any time"
    PROVE  Spec => []SafeInv
<1>1. SafeInv /\ [Next]_vars => SafeInv'
    BY SafeStep
<1> QED
    BY <1>1, SafeInit, PTL DEF Spec

\* If exec forbids task switching during the methods and the system expunges
\* the device only while the worker waits, nobody uses the freed base; only a
\* chip that cannot be set up leads to the Remove of a device in no list.
THEOREM OnlyFailedSetupMisuses ==
    ASSUME Forbid, SystemExpunge # "any time"
    PROVE  Spec => []OnlyMisuse
<1>1. SafeInv => OnlyMisuse
    BY DEF SafeInv, RestInv
<1> QED
    BY <1>1, SafeAlways, PTL
=============================================================================
