# pl2303.device in TLA+

A model of the AmigaOS 4 driver for PL2303 USB serial adapters, checked with
TLC, with its most important invariants proved with TLAPS. Paths below are
relative to the repository.

## 1. The system

`pl2303.usbfd` is a USB function driver. For every adapter that is plugged in,
the USB stack starts one task in `_usbfd_function_RunFunction`
(`usbfd/usbfd_function_run_function.c`), called **the worker** here. The worker
claims the adapter, sets up the chip, creates `pl2303.device`, serves it in one
loop, and takes it away when the adapter is detached. Programs - **the
clients** - use the device through the manager interface (`Open`, `Close`,
`BeginIO`, `AbortIO`, `Expunge`), whose methods run in the caller's task.

| Component | State it keeps | Operations | Talks to others through |
|---|---|---|---|
| Main loop of the worker (run_function.c 332-681) | the request in hand, `isDettached`; `ReadUsbIO` with offset and length of its buffer, `WriteUsbIO`, `InterruptUsbIO` | serves CMD_READ, CMD_WRITE, SDCMD_SETPARAMS; completions; notifications | unit port, one reply port for all transfers, `UsbStackMsgPort`, signals |
| Request lists (devicebase.h) | `pl2303_readRequests`, `pl2303_writeRequests` | AddTail, Remove, RemHead | worker and AbortIO; `pl2303_Mutex`, which the completion handlers do not take |
| BeginIO | the request | checks arguments, PutMsg, or finishes the request itself | unit port, ReplyMsg |
| AbortIO | - | takes a request from a list, aborts WriteUsbIO, replies | request lists, reply port |
| Open, Close | `lib_OpenCnt`, SERF_SHARED, LIBF_DELEXP | count references, refuse a busy unit | device base |
| Expunge | the base itself | check, remove, free, signal | device list, SIGF_SINGLE of the worker |
| Life of the device (269-332, 684-705) | progress of the worker, SIGF_SINGLE | AddDevice, RemDevice, wait for the expunge | exec, Expunge |
| Line parameters | one line coding buffer, the copy in the base | read and set during the setup, checks in the client, applies in the worker | unit port, control transfer, `io_SerFlags`, which Open changes too |
| Baud rate encoding | - (pure) | rate to four bytes | line parameters |
| Resources of the worker (38-281, 707-773) | what has been acquired | a ladder of acquisitions, each with its label on the way out | USB stack |
| Chip detection and setup | type, quirks | vendor and control transfers | USB stack |
| usbfd library | a reference count | open, close, expunge, attributes | USB stack |

**What is hard here.** Three kinds of tasks - clients, the worker, the USB
stack - meet in message ports without locks, and the request lists are shared
with only part of the accesses under the mutex. Transfers complete in any order
on one reply port, `Wait` clears several signals at once, reads are matched to
transfers through a buffer that may hold more or less than a request wants. An
expunge frees the base from another task, and a detach may come at any time.
`PROJECT.json` lists the hazards with the line at which each one bites and the
properties that cover it.

**What makes each component correct**

- main loop: a transfer is never sent while it is in use; each request is
  answered once, by its own data; order and bytes are kept; no signal is lost;
  every request is answered, and a detach ends the loop;
- AbortIO: leaves finished requests alone, removes what it removes from the
  list it is in;
- Open/Close/Expunge: the count is exact, exclusive means exclusive, nobody
  uses a freed base, the worker learns of every expunge;
- resources: whatever fails, everything acquired is given back once, and never
  under a base that points at it;
- chip setup: no failure is passed over, a clone is not asked twice;
- usbfd library: the code stays while anyone may run it;
- line parameters: what the check lets through can be encoded, the chip gets
  what was asked, and the base describes the chip as far as its bytes can.

## 2. Modules

| Module | Models | Kind |
|---|---|---|
| `SerialDevice` | what a client may rely on | abstract specification |
| `PL2303IO` | BeginIO, AbortIO, main loop of the worker, the three transfers; implements `SerialDevice` | state machine |
| `PL2303Unit` | Open, Close, Expunge and the life of the device | state machine |
| `PL2303Resources` | the ladder of acquisitions and the way back | actions |
| `PL2303Chip` | detection and setup of the chip | state machine |
| `USBFDLibrary` | the library that holds the code | actions |
| `PL2303Driver` | one adapter from plugging in to the last free: joins the four above | composition |
| `PL2303Baud` | baud rate table and encoding | operators |
| `PL2303Line` | the line configuration, from the setup on; EXTENDS `PL2303Baud` | state machine |
| `PL2303IO_proofs`, `PL2303Unit_proofs`, `PL2303Chip_proofs`, `PL2303Driver_proofs`, `PL2303Line_proofs` | theorems about them | proofs |
| `PL2303IO_order_proofs`, `PL2303IO_use_proofs`, `PL2303IO_device_proofs` | theorems about the I/O path as its use is limited more and more; each EXTENDS the one before, the first `PL2303IO_proofs` | proofs |
| `MCPL2303IO`, `MCPL2303Unit`, `MCPL2303Driver`, `MCPL2303Line` | requests, clients, adapters, rates | TLC instances |

`PL2303IO` and `PL2303Unit` look at the same worker from two sides. In
`PL2303IO` an expunge is one step (`Expunge`) that sets `expunged`; that
clients do not call a device that is gone is what `PL2303Unit` is about
(`InPlace`). In `PL2303Unit` the work of the loop is two states, "busy" and
"wait". `PL2303Line` takes one command out of the loop. `PL2303Driver` EXTENDS
`PL2303Unit` and has the other three as instances over its own variables; each
of its steps is a step of one or two of them. It implements `PL2303Unit` and
`PL2303Chip` (proved), so it does not repeat what is known of those.

**Misuse.** Sending a transfer that is in flight, replying a request twice,
removing a node from a list it is not in, changing a list while another task is
inside it, copying past a buffer, touching a freed base: exec gives none of
these a meaning. An action that commits one
records it in `fault`, and the behaviour ends there. Properties of runs that
contain such behaviours therefore say something up to the misuse only;
`NoMisuse` says that there is none, `MisuseOnlyAfterFailedSetup` that there is
one and what it takes.

### PL2303IO and the code

The program counter `pc` of the worker:

| pc | Code | Actions |
|---|---|---|
| `drain` | GetMsg on the unit port, 334 | `TakeRequest`, `UnitPortEmpty` |
| `dispatch` | the switch, 345-513 | `ReadBuffered`, `ReadSubmit`, `WriteAccept`, `AnswerAtOnce` |
| `wait` | Wait, 521-529 | `WaitSignal` |
| `usb` | GetMsg on the reply port, 535 | `ReadReplied`, `WriteReplied`, `InterruptReplied`, `UsbPortDone` |
| `rhead`, `rcopy` | the loop over the bytes, 557-607, before and after GetHead | `ReadHead`, `ReadServe`, `ReadPart` |
| `wnext`, `wsend` | 622-628, before and after GetHead | `WriteNext`, `WriteSend` |
| `notify` | 661-680 and the loop condition | `TakeNotification`, `LoopEnd` |

A step of the worker runs from one point at which another task can matter to
the next: a message port, a list that AbortIO changes, a reply after which the
client runs on. The dispatch of a read or a write is one step because it holds
the mutex and AbortIO waits for that. The completion handlers take no mutex,
so GetHead and Remove, RemHead and the next GetHead, GetHead and SendIO are
separate steps. Remove (573) and RemHead (616) themselves are one step each,
and they are a misuse ("changed while walked", `Walked`) when an AbortIO is
inside the same list at that moment: it has the mutex and has not yet come to
the end of its walk. What a torn list would look like is not modelled; no
behaviour goes on from there. The other way round, a request that AbortIO takes
out while the worker has it in hand, is a misuse too ("replied while in hand",
"removed while in no list", "copied to a removed request").

`unitPort`, `usbPort`, `stackPort` and the two lists are sequences. `usb`
says of each transfer whether the driver, the stack or the reply port has it.
Of the data, `rOffset` and `rActual` are `ReadUsbIO->io_Offset` and
`io_Actual`, `len` and `act` the client's `io_Length` and `io_Actual`, `wio`
the request whose data `WriteUsbIO` points at. `replied` is NT_REPLYMSG, and
`accepted` and `xfer` are ghosts: the order in which BeginIO took the writes,
and what the wire did with each.

BeginIO is two steps, `BeginQueued` up to PutMsg and `BeginReturn` after it,
because the worker may answer in between. AbortIO is up to four: the mutex, the
search, `WaitIO`, the reply. It looks at the command only, so a read or a
write that BeginIO has refused goes through the search as well (`Reads`,
`Writes`), finds nothing, and is replied: for the first time if IOF_QUICK was
set, which is no misuse. A finished request is reset by `Collect` - its
fields belong to the client - which keeps equal states equal.

### SerialDevice

The abstract device accepts requests, keeps the writes in one queue, transmits
them one at a time, answers a write after its transmission and with its
outcome, and answers a read with bytes that have arrived. It knows nothing of
ports, lists, signals or a worker. `Device` in `PL2303IO` is the refinement
mapping: the queue is `accepted`, the writes that BeginIO has taken and that
have not been sent; the bytes between `rOffset` and `rActual` are the ones that
have arrived. `OneQueue` ties the ghost to the code's state: the list behind
the write that is on the wire, the write in the worker's hand and the writes in
the unit port, one behind the other, are `accepted`. `DeviceKept` says that
every behaviour of `PL2303IO` is one of `SerialDevice`.

### PL2303Unit and the code

`Open` is the increment (`OpenStart`) and the rest (`OpenGranted`,
`OpenRefused`: a bad length or unit, `OpenInvalid`, or a busy unit, `OpenBusy`,
by way of the one label that gives the reference back, `OpenFails`); `Expunge` is the check, the freeing and the signal, for two
callers: the system and the worker through RemDevice. `worker` follows the
comment in the module, from "setup" to "done". With `Forbid` no other task
runs while a method of the manager does, as exec arranges it for its own calls;
the comments in `pl2303_manager_open.c` and `pl2303_manager_close.c` say the
code does not depend on it, so `unit_any` drops it. `LoadFlags` and
`StoreFlags` are the two halves of `io_SerFlags |= ...` in the worker, which no
lock keeps apart from Open's `io_SerFlags |= SERF_SHARED`.

### PL2303Resources, PL2303Chip, USBFDLibrary, PL2303Driver and the code

`Rungs` are the acquisitions in the order of the code and `Releases` the
statements behind the labels; `Label` says for every rung which label its
`goto` names. `Climb` takes a rung, `ClimbFails` jumps. `held` is what a
checker of leaks would count.

`PL2303Chip` follows `pl2303_detect_type` case by case; `HxStatus` is
`pl2303_supports_hx_status` as it is written, inverted comparison included
(section 6).
`ProgramStep` is one entry of the init sequence. `stalled` and `found` are
ghosts: how often a clone has stalled, and that it has been recognised.

`USBFDLibrary` has the count of the library's openers; the USB stack opens it
before it starts the worker and closes it after the worker has returned
(`StackCloses`, external). "gone" is the segment list unloaded.

### PL2303Line and PL2303Baud and the code

`phase` follows the setup (lines 286-325): `CheckClone` and `Look` are the
reads of the chip's coding, each of which may fail and otherwise overwrites
the copy in the base; `SetLine` sets 115200 8N1.
`Accepted` is the conjunction of the checks in `_pl2303_serial_setparams`,
`Coding` what the worker writes into the line coding, `Apply(ok)` the control
transfer that succeeds or fails, `Updated` the copy into the base, with the
flags that are only ever added to. `RateBytes` computes the four bytes;
`ChipRate` reads them back by the formulas quoted in the source and is the only
external part. The search for a supported rate runs past its table for 6000000
and above; what lies behind is not known, so `SupportedBaud` returns one of two
values there: the rate itself (accepted) or another one (refused). The rate
bytes are kept in the order in which they lie in memory; `Number` reads them as
`io_Baud`, `IsDivisor` is the bit that marks them as a divisor.

## 3. Runs

All passing runs are exhaustive. "v" marks a run that shows a disagreement
between the code and a statement in the repository (section 6).

| Run | Question | Distinct states |
|---|---|---|
| `io_core` | three clients that read (one byte) and write: ownership, custody, order, results, one queue of writes, and the refinement of `SerialDevice` | 534 301 |
| `io_abort` | every command, IOF_QUICK, AbortIO everywhere, two readers, long reads, expunge at any time: what still holds up to the first misuse, custody and final answers among it; when is an AbortIO harmless | 1 919 225 |
| `io_live` | is every request answered, is a detach noticed, is a notification slept over | 91 729 |
| `io_two_readers` v | two reads outstanding | - |
| `io_abort_complete` v | AbortIO of a finished request | - |
| `io_unlocked` v | do the lists change only under the mutex | - |
| `driver_safe` | an adapter of every kind from plugging in to the end, with every failure; uninterrupted methods, expunge while the worker waits | 34 184 |
| `unit_any` | everything interruptible, the chip may fail | 72 474 |
| `unit_exclusive` v | exclusive access after a shared user | - |
| `unit_told` v | expunge at any time: does the worker learn of it | - |
| `line_params` | all chips, rates, lengths, stop bits, failing transfers | 286 185 |
| `line_parity` v | all combinations of parity flags | - |

**Bounds.** Requests: three in `io_core` give a list with a head, a middle and
a tail and one request elsewhere; two elsewhere, where the interest is in the
events. `MaxPacket` is 2 against reads of 1 in `io_core`, so
that bytes are left over in the buffer, and 1 against reads of 2 in `io_abort`,
so that a read is served in parts. One notification waits at a time
(`MaxNotes`), one detach is enough to end the loop. Three clients in
`PL2303Unit` are one shared and two exclusive ones; `PL2303Driver` has the
clients it needs for a count above one. Its adapters are one for every branch
of the detection, with and without HX status and stall; every rung and every
transfer fails in some behaviour. The chips of `PL2303Line` start with one of
two codings, without and with parity. `MaxQueued` = 1 in
`PL2303Line`: the worker applies requests one by one, and a request depends on
those before it only through the base. The rates are the whole table, and the
neighbours of its edges and of the chips' limits. Requests are interchangeable,
and so are the exclusive clients; symmetry is used in runs without liveness.

**What the runs assume of clients.** `io_core` and `io_live` have at most
one read outstanding (`OneRead`), reads of one byte and no AbortIO. A read of
more than a transfer brings is served in parts, and the second part copies past
the client's buffer (565), so such reads have no place in a run that states the
absence of misuse. `io_two_readers` drops the first condition, `io_unlocked` the
last, `io_abort` and `io_abort_complete` all three. No run has both a detach
and aborts. Expunge comes "at rest" where a run is not about its timing.

**What they show.** Within that use the worker never misuses exec, answers each
request exactly once and with the result of its own transfer, keeps the order
of writes and hands out every byte, and a client cannot tell the driver from
the abstract device (`io_core`). With aborts and several readers the driver
does misuse exec - a list that changes under an AbortIO counts as that, and so
do the other races of the two - but until then each request lies in one place
of the driver and is final once it is answered, an AbortIO does no harm only if
it finds its request in a list or nobody has answered it (`HarmlessAbort`), the input buffer is read within its bounds,
no wakeup is lost, and IOF_QUICK, which is cleared late, never misleads a
client that looks after BeginIO has returned (`io_abort`). With methods that
are not interrupted everything the worker acquires is given back once, the
open count protects every client, the count of the library protects the code,
and an expunge ends the worker; what is left is the RemDevice of a device that
was never added, after the chip has failed (`driver_safe`). Without that
assumption the count still is exact and excludes a second exclusive client,
and SERF_SHARED survives the worker's changes to its byte - because whoever
makes the worker change it has the device open (`unit_any`). The chip of a
device that serves runs within one percent of the rate last set. The base, and
so the next opener, has that rate if it was set as a number; if it was set as a
divisor the base has only the divisor (`BaseMatchesChip`, section 6)
(`line_params`).

**Fairness** (`io_live`). The worker and a client inside BeginIO are tasks
that exec schedules: weak fairness. The stack ends every bulk-out transfer:
weak fairness. A bulk-in transfer brings data some time if it is repeated for
ever: strong fairness on completions with data only, for an idle line need not
answer a read. `NoFlood` is not fairness but the condition of all three
properties, written into them: as long as it keeps taking messages the worker
gets back to Wait. The code does not ensure it. Each loop over a port ends only
when the port is found empty, so the properties say nothing - and would be
false - when clients or completions keep one of them full for ever. The case
to think of is a detach with a read outstanding: if the bulk-in transfer then
fails at once, it is sent again from inside the loop over the reply port (535,
546-554), that loop need never end, and the notification (661) is not looked
at; the same goes for writes and reads behind it. `NoFlood` demands nothing of
the worker when messages stop coming. In `PL2303Driver` (`driver_safe`, `ExpungeEnds`) the
worker has strong fairness: with `Forbid` its steps are disabled while a client
is in a method, again and again; a method that has been entered runs on.
Nothing is assumed of clients, of AbortIO, of notifications or of the system.

## 4. Proofs

The theorems hold for any set of requests or clients, all lengths and packet
sizes, every choice of the other constants, within the limits a heading names;
TLC evaluates the assumptions on the constants in every run.

`PL2303IO_proofs`, with no limit on the use of the driver: aborts, several
readers, long reads and expunges are included

- `TypeCorrect`, `BufferBoundsHold`. The inductive invariant is `TypeInv`,
  `TypeOK` and `BufferBounds` together: the client's `io_Actual` is the
  difference of the two ends of the buffer, a natural number only if the
  offset does not pass the end; and the bounds are kept only because the
  variables have their types. One lemma per part of `TypeOK` and one for the
  bounds goes through the actions.
- `NoWakeupLost`. `NoLostWakeup` speaks of `wait` only and is not inductive.
  `Traces` is: for each port, a message in it leaves a trace - its signal is
  set, or the worker stands at a point from which it will still look at the
  port before it waits again.
- `CustodyKept`, `QuickIsDone`, `AnswersFinal`. The inductive invariant is
  `HeldInv`: types, `Marked` (which steps of BeginIO and AbortIO go with which
  state of a request) and, until exec is misused, `Placed` and `Sorted`.
  `Placed` says that the requests that are owed an answer are those that lie in
  the unit port, a list or the worker's hand, each in one of them and there
  once, except for one that its AbortIO has just taken out; `Sorted` that each
  list has only requests of its kind. The condition is needed for the misusing
  step itself: an AbortIO that has missed replies a request that stays where it
  lies. `CustodyKept` counts places: the cardinality is 0 or 1 because the
  sequences have no repetitions.
- `AbortsHarmlessly`, from `HeldInv`: an AbortIO that ends without misuse has
  found its read or write in a list, or was made for a request that BeginIO
  finished with IOF_QUICK set and that nobody has replied. A request missing in
  both lists has otherwise been answered, or the driver still has it (`Placed`).

`Custody` and what is built on it hold with AbortIO because the races of the
unlocked handlers count as misuse; the theorems say nothing of a list that has
been torn.

`PL2303IO_order_proofs`, under `Abortable = {}`: nobody calls AbortIO; reads
and expunges are arbitrary, and the behaviour goes on to its first misuse

- `WritesOwned`, with `WriteInv`. `NoAbort` (nobody outside the worker holds
  the mutex) is proved along. Most steps are `WritesAlone`, a stutter on what
  the invariant mentions; what is left is the acceptance of a write, its
  completion, its reply and the next send. `SendReady` ties the two halves of
  that send together: the head of the list is still the request in hand.
- `MisuseByReads` (`OnlyReadsMisuse`, stated there): without aborts only reads
  cause the misuse, apart from a use of the base after an expunge. The writes
  keep their transfer, order and results however many reads run beside them,
  which is more than `io_core` looks at. Going through the actions, no step of
  a write finds its transfer in use or its request out of the list, because
  `WriteInv` holds.
- `AnswersTrue` adds `Carried`: a completed WriteUsbIO holds the outcome of
  the request it points at, which `WriteOwnership` says is the head of the list.
- `WritesInOrder`, with `OrderInv`: `accepted` holds the unsent writes, each
  once (`Awaited`), and what stands earlier in it stands `Before` in the driver
  (`InOrder`) - in the list, in hand, in the port, in that order. Whichever
  write is sent has nothing before it, so it is the head of `accepted`.
- `OneQueueKept`, from `OrderInv`: `OneQueue` says of members and precedence in
  the queue what an equation of sequences would say.

`PL2303IO_use_proofs`, under `WithinLimits`: no AbortIO, one read outstanding
at a time, reads of one byte, an expunge only while the worker waits. Requests,
writes, other commands and transfer lengths are arbitrary.

- `NeverMisused`, `ReadsOwned`. The inductive invariant is `UseInv`:
  `WriteInv`, `OneByteRead` (a read in hand finds no other listed, so
  ReadUsbIO is idle when it is sent), `AtRest`, `Left`, `ReadOwnership` and
  `NoMisuse` itself. No misuse is possible in a state of `UseInv`, and the
  invariant needs in turn that there was none.
- `InputKept`: in a step from a state of `UseInv` the worker sends ReadUsbIO
  only when its buffer has been emptied.

`PL2303IO_device_proofs`, under `WithinLimits` and without commands that
BeginIO finishes itself

- `DeviceImplemented`: the refinement `DeviceKept`, step by step, from
  `PromiseInv` (`UseInv`, `OrderInv`, `Carried`, and that an unsent request has
  no transfer behind it). SendIO of a write is `Transmit`, its completion is
  `Finish`, ReplyMsg is an `Answer`, a bulk-in transfer that brings something
  is `Receive`; all else in the driver is a stutter.

`PL2303Unit_proofs`

- `CountKept`, `AloneKept`, with the inductive invariant `OpenInv`: types,
  the count, and `FirstAlone` - only a client that saw a count of 0 can be
  granted an unshared unit, and there is one such client at most. It needs the
  set of clients to be finite (`ClientAssumption`), for the count is a
  cardinality.
- `SharedStays`. `SharedInv` adds that a client whose parameters are queued
  has the device open, and that between load and store nobody new gets in
  while the loaded flag is clear.
- `InPlaceKept`, `UnitTypeCorrect`, under `Forbid`. `PlaceInv` follows an
  expunge through its steps: while one is past its check the count is 0 and
  stays so, because no Open can come in between.
- `OnlyFailedSetupMisuses`, under `Forbid` and an expunge that comes while the
  worker waits. `SafeInv` ties `base`, `listed`, `single` and the progress of
  the worker together.

`PL2303Driver_proofs`

- `DriverImplementsUnit`, `DriverImplementsChip`: step by step, every step of
  the composition is a step of the part or leaves it alone. `DriverKeepsInPlace`
  carries `InPlaceKept` over, `OfferedChipsProgrammed` and
  `DriverAsksClonesOnce` the theorems of `PL2303Chip_proofs`.
- `HeldIsFreedAlways`, `BaseIsBacked`. `ResourceInv`: what is held is exactly
  what the rungs up to here have acquired, or what the statements to come give
  back. `LabelsFit` is the lemma that carries it: for each of the twenty rungs
  the label gives back what the rungs before it have acquired.
- `MisuseTakesFailedSetup`, `CodeStaysLoaded`, from `OnlyFailedSetupMisuses`,
  `FailedInv` (the worker gets to RemDevice unlisted only after the chip has
  failed) and `LibraryInv` (the count is the number of openers, the USB stack
  among them until the worker has ended).

- `DriverTypeCorrect`, under `Forbid`: the types of the unit from
  `UnitTypeCorrect`, of the chip from `ChipTypeCorrect`, of the ladder from
  `ResourceInv` and `HeldKnown`, of the library from `LibraryInv` - its count is
  a natural number because it counts its openers.

`PL2303Chip_proofs`

- `ProgrammedAlways`, `ClonesAskedOnce`, for any adapters. `ProgramInv` says of
  every step of the sequence which registers have been written by then;
  `CloneInv` that a clone that has been found has stalled once and has the
  quirk.
- `ChipTypeCorrect`, with `StallInv` (how often a chip can have stalled by each
  step) and `WritesFit` (the sequence names known registers and values only).

`PL2303Line_proofs`

- `EncodableAlways` (`QueueInv`), `BaseAlwaysMatches` and `ParityAlwaysKept`
  (`CodingInv`), for any rates, lengths, flags and codings the chip may start
  with. The second holds from the first coding that is set on, however often
  control transfers fail: both chip and base then keep what they have. It is
  proved from the equality of their bytes, and says what these mean.

- `LineTypeCorrect`. What goes to the chip is a line coding of four bytes. The
  type of a byte rests on the encoder: `EncodedInFormat` says that its loop
  ends with a mantissa and an exponent of its format for every rate but 0,
  `NormalIsBytes`, `AlternateIsBytes` and `DirectIsBytes` that they fit into
  their bytes. That the rate is not 0 is `QueuedIsEncodable`, so the invariant
  needs the checks of BeginIO.
- `DirectRateHolds`, with `RateInv`: for chips that take the rate as it is,
  `RateWithinOnePercent` holds of every rate, for the four bytes hold it whole
  (`DirectIsExact`).

**Only model-checked:** all liveness (TLAPS does not prove liveness under
fairness): `WriteAnswered`, `ReadAnswered`, `DetachNoticed`, `ExpungeEnds`; and
`RateWithinOnePercent` for chips that take a divisor. There it is not true of
every rate - the divisor of 5910000 is 64, that of 6000000, 1.5 percent more -
and holds of the 25 rates of the table, which are what such chips accept:
`line_params` computes each of them on each chip, so a proof would only repeat
the same calculations. The word behind the table (`SupportedBaud`) could let
through a rate between 6000000 and 12000000 that is not in the table. Of these
the run looks at the last only; the property is false of others, such as
11700000, which would run at 12000000.

## 5. Not modelled

- `USBEPControlXferA` with `UsbIO`, which shares the reply port of the
  transfers: how it waits for its answer is inside usbsys.device.
- `usb_get_endpoint_descriptor`, which is called from nowhere; `src/pl2303.h`,
  constants most of which nothing uses; the attributes of the function driver.
- io_Data, termination characters, the -1 form of the write length, the
  contents of NSCMD_DEVICEQUERY, the request codes of HXN chips: no property
  tells them apart. The printing of line codings: debugging.
- The counters of Obtain and Release and `unit_OpenCnt`: never read.
- Plugging an adapter in again: a new task with state of its own. Two adapters
  at a time: both create a device of the same name (a TODO in the code).
- The state of the transfers when they are freed: `PL2303Resources` counts
  them as held or not; that one may be in flight then is a TODO in the code.
- What happens after a misuse of exec. The most important one here is the
  race for the request lists: the reply-port handlers use and change them
  without the mutex (557-607, 616-628) while an AbortIO in a client's task may
  walk them or relink their nodes. The model records that it happens
  (`ListsUnderMutex` fails in `io_unlocked`) and ends there; a torn list, a lost
  request or one left linked is outside it. `Custody`, `ReplyIsFinal` and the
  theorems about them hold up to that moment only.
- The interleaving of one client's AbortIO with its own reuse of the request:
  a request is taken back after its AbortIO call has returned.

## 6. Where code and comments differ

| Run | Statement | What the code does |
|---|---|---|
| `io_two_readers` | queueing, "so two tasks sending commands at the same time don't cause a problem" (`pl2303_manager_begin_io.c:30-32`) | a second CMD_READ sends ReadUsbIO while it is in flight (418) |
| `io_abort_complete` | "If the IORequest was already complete, nothing happens" (`pl2303_manager_abort_io.c:17`) | its error is overwritten and it is replied again |
| `io_unlocked` | "Mutex for accing the floowing read/write lists" (`pl2303_devicebase.h:35`) | the handlers of the reply port change the lists without it (573, 616), under an AbortIO that has it |
| `unit_exclusive` | "unit opened exclusive" (`pl2303_manager_open.c:61`) | SERF_SHARED is never cleared, two exclusive clients get in |
| `unit_told` | "taken care by the signaling to the USB FD Task" (`pl2303_manager_expunge.c:50`) | the signal is cleared after AddDevice (328) or before RemDevice (690) and lost |
| `line_parity` | checked "so just apply" (run_function.c:471) | even and space parity become no parity (477-486) |

The runs leave some to the reader:

- `io_Baud` of the base is "baud rate requested (true baud)" in
  `pl2303_devicebase.h:44` and is told to openers, but
  `pl2303_update_state_line_request` fills it with the bytes sent to the chip
  (`Updated`). For every rate that is not written directly these are a divisor,
  with the top bit set, and no rate: `BaseMatchesChip` says both cases.
- `pl2303_supports_hx_status` compares the BOOL of `pl2303_vendor_read` with
  USBERR_NOERROR, which is 0 (`pl2303_support_hx_status.c:46`), so it answers
  TRUE exactly when the chip does not. `pl2303_detect_type.c:57` then takes a GT
  for a TA and a TA for an HXN, with the divisor format of the other. Modelled
  as written (`HxStatus`, `Detected`).
- A read longer than what one transfer brings is copied past its buffer with
  the second part (565, the fault "copied past the end" of `ReadServe`).
- After odd and then mark parity the base has the flags of both, which the
  driver's own decoder (`pl2303_line_request.c:80-92`) reads as odd.

## 7. Plan

What is left: the reads. `ReadOwnership` and `NoInputDiscarded` for one reader
with reads longer than a transfer, where every transfer brings what is asked
for; and the answers of reads when aborts are restricted to listed requests.
