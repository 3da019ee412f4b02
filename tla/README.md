# Verification of the DNS-323 firmware's SATA driver

The repository builds a firmware image for the D-Link DNS-323, a two-bay
network disk. Most of its files are a vendored Linux 2.6.12.6 kernel; the code
that belongs to this product's chip is the Marvell board support under
`src/src/linux-2.6.12.6-arm1/arch/arm/mach-mv88fxx81/` (below: `M/`). The heart
of a disk box is its SATA driver, and the project models it from the SCSI
mid-layer's calls down to the rings the DMA engine reads: the intermediate
application layer (IAL), the SCSI-to-ATA layer (SAL), the core driver and the
vendor's power saving. The models are checked with TLC. Every safety
property a passing run checks is also proved with TLAPS, for every value of the
constants; liveness is model-checked only.

Paths below are relative to `M/LSP/mvSata/` unless they say otherwise.

## Inventory

| Part | State it keeps | Operations | What is hard | What makes it correct |
|---|---|---|---|---|
| IAL common layer, `mvIALCommon.c/.h` | per channel: `channelState`, soft-reset timer, parked commands, drive snapshots with serial numbers, PM scan and poll state | timer callback (7 state handlers), restart, stop, PM hot-plug, execute command, PM register read and its callback | resets and unplugs in any state; timeouts; failures half-way; which drives changed across a reset | every command is given back; every reset ends; every change of drives is reported; nothing refers to a freed channel |
| Linux IAL library, `mvLinuxIalLib.c` | done list per host, `hostBlocked`, rescan work | interrupt handler, event notification, 500 ms timer function, block/unblock, `channel_rescan` | `adapter_lock` released in the middle of the timer function; commands on a private list; work items run much later | a blocked host is unblocked; devices and drives come to agree |
| Linux host template, `mvLinuxIalHt.c` | hosts, `stopped` | load, `queuecommand`, abort, bus reset, remove, proc | lock hand-over from `host_lock` to `adapter_lock`; late completions after abort | commands are owned by exactly one side |
| SAL, `mvScsiAtaLayer.c`, `mvLinuxIalSmart.c` | per drive: ready flag, unit attention, IDENTIFY data; post-interrupt list | CDB translation, completion, split VERIFY and MODE SELECT | a list walked while its elements complete; a queue that closes between two fragments | success only for what was done; every command completed once; nothing carried over a reset |
| Core SATA driver, `M/Board/SATA/CoreDriver/mvSata.c` | per channel: request and response rings, tag stacks, queued-command list and counters, error-handling state | queue, ISR, configure, enable, disable, flush, device error recovery with READ LOG EXT, PIO | engine and drive run beside the ISR; tags are reused; PIO and EDMA share the drive; errors during recovery | every tag and command returned exactly once; no response or DMA outlives its command; every command comes back |
| Disk power saving, `M/Board/SATA/CoreDriver/mvStorageDev.c` | activity flag and timer per disk | enable, disable, timer function | no lock | the channel is left as it was found |
| IAL utilities, `mvIALCommonUtils.c` | none | IDENTIFY, set features, PM register access | busy-waiting | returns |
| SCSI mid-layer, `drivers/scsi` | commands, devices, recovery state | dispatch, timeout, recovery ladder, scan | the driver's environment | stock Linux |
| CESA, `M/Soc/cesa`, `M/LSP/cesa` | sessions, request queue | action, ISR, ready | queue wrap, split requests | results in order, one per request |
| Ethernet, `M/Soc/eth`, `M/LSP/egiga` | descriptor rings, skb counters | xmit, rx poll, tx done, refill | ownership bit shared with DMA | no descriptor owned by both |
| IDMA/XOR, `M/Soc/idma`, `M/Soc/xor`, `M/LSP/dma.c` | channel registers | copy, wait | polling with a limit | - |
| TWSI, RTC, sensors, TDM/SLIC, QDDriver switch, PCI/PEX, USB, flash, DRAM, boot glue | registers | set-up and polled access | little evolving state | - |
| Packaging: top-level `Makefile`, `dns323_fw_109*`, `src/src/kernel.config` | none | build | - | - |

How the SATA parts interact: the kernel timer calls `asyncStartTimerFunction`,
which under `adapter_lock` runs `mvIALTimerCallback` for every channel, releases
the lock to unblock hosts, and hands over completed commands. The interrupt
handler runs the core driver's ISR, which calls back `mv_ial_lib_event_notify`
(cable events, errors) and the SAL's completion call back, and then the SAL's
post-interrupt service. The mid-layer calls `queuecommand`, `abort` and
`bus_reset`. Drive changes leave as `IALBusChangeNotifyEx` work items for
keventd, which adds and removes devices through the mid-layer, whose INQUIRY
comes back through `queuecommand`. The power saving timer calls the core driver
beside all of them.

The hazards, each at its line, are listed in `PROJECT.json`.

## Modules

| Module | Models | Composes |
|---|---|---|
| `IALChannel` | one channel: `mvIALCommon.c`, with the contract of the core driver and the SAL it calls | - |
| `IALChannelProofs` | the channel's inductive invariant, and the refinement of `SataCommandQueue` | extends `IALChannel` |
| `IALQueueProofs` | commands and drives of the channel: each command in one list, each change of drives reported | extends `IALChannelProofs` |
| `IALRescan` | the scan at load time, `channel_rescan`, the mid-layer's device table | extends `IALChannel` |
| `IALHost` | `queuecommand`, abort, bus reset, interrupt handler and timer function, split where they release `adapter_lock`; the mid-layer's timeouts and recovery | extends `IALChannel` |
| `IALRescanProofs`, `IALHostProofs` | theorems about `IALRescan` and `IALHost` | extend them and `IALQueueProofs` |
| `SataCommandQueue` | abstract: what the core driver promises the IAL | implemented by `SataEdma` and by `IALChannel` |
| `SataEdma` | one channel of `mvSata.c`, with the DMA engine and the drives | - |
| `SataQueueProofs` | what the functions of `mvSata.c` do to tags, list, entries and counters | extends `SataEdma` |
| `SataEdmaProofs` | the inductive invariant; the engine, the drives, queuing, start and stop of the EDMA | extends `SataQueueProofs` |
| `SataRecoveryProofs` | the interrupt routine and the recoveries; the theorems about `SataEdma` | extends `SataEdmaProofs` |
| `SataPowerSave` | the power saving timer | extends `SataEdma` |
| `ScsiAtaLayer` | the SAL, `mvScsiAtaLayer.c` | over a queue as `SataCommandQueue` has it |
| `ScsiAtaLayerProofs` | theorems about `ScsiAtaLayer` | extends it |
| `MCChannel`, `MCHost`, `MCEdma`, `MCSal` | instances for TLC: symmetry sets, the VERIFY commands | |

### IALChannel

Variables carry the names of the C fields (`channelState`,
`SRSTTimerThreshold`, `IALChannelPendingCmdQueue`, `pmRegAccessInProgress`,
`devInSRST`, `bHotPlug`, ...). Some stand for several fields:

* `driveSaved`, `driveCurrent`: the snapshot bit mask together with the serial
  numbers, as a function from ports to a serial or `NoDrive`;
* `driveReady`: the drive behind a port the SAL marked ready;
* `commandsQueue`, `pmCmdOutstanding`: the core driver's queue, split into
  mid-layer commands and the driver's own PM register read;
* `sataChannel`: whether the channel structure is allocated;
* `rescanWork`: the work items keventd has not started.

Each step is one section of code run under `adapter_lock`: it contains every
call the handler makes, including the flush of both queues, the notification
and the release of the channel. A tick runs one state handler;
`mvChannelStateMachine` loops only from `CHANNEL_IN_SRST` to the staggered
spin-up, which therefore is one step (`InSrstPMSpinsUp`), and the state
`PM_STAGGERED_SPIN_UP` is never seen between steps. What the hardware answers
(BSY, signature, IDENTIFY, PM registers, link status) is a nondeterministic
choice. `Faults` says which failures of memory and IDENTIFY may happen.

`IALBusChangeNotify`, the calls that only log, the queuing mode (NCQ, TCQ) and
`completionError` are left out. `completionError` is written by
`mvCommandCompletionErrorHandler` and read only by `mvCheckPMForError`, whose
call is compiled out.

### IALRescan

Adds `sdevs` (which drive was behind a target when its `scsi_device` was
created), the targets `scsi_scan_host` still has to ask, and the work item in
progress. `AddDevice` waits until the channel is settled because the INQUIRY is
parked or blocked until then, and keeps an existing device. `unreported`
records the ports that change after their scan while `stopped` is still set:
`IALBusChangeNotifyEx` drops those notifications, and the properties say so
instead of hiding it. A port is accounted for again once a later notification
removes its device; an addition alone does not, because `scsi_add_device` keeps
the old one. Commands are left out (`Cmds` is empty).

### IALHost

`pc` says where the interrupt handler, the timer softirq, the process context
(`caller`) and a submission nested in the softirq stand. The kernel
configuration has neither SMP nor PREEMPT, so process context is interrupted by
the softirq, both by the interrupt, and a section under `adapter_lock` by
nothing: `Locked`, `TimerMayRun` and `MayRun` state that, no more. `cmdState`
is the mid-layer's view of a command through timeout, abort, TEST UNIT READY and
bus reset; a completion of a command whose timer has fired is ignored, as
`scsi_done` ignores it. `stopped` stays set here: the rescan side is
`IALRescan`'s.

### SataCommandQueue

The interface between the IAL and the core driver: a command is accepted by an
open channel only, comes back once, one at a time, and closing the channel gives
back all the others in the same step. Both sides are shown to keep it, which is
how the two layers compose without a product of their state spaces. In
`SataEdma` the commands held are those accepted and not called back, and the
channel is open from the end of `mvSataEnableChannelDma` to the next restart
(`ImplementsQueue`). In `IALChannel` they are the commands it believes queued,
without its own PM register read (`UsesDriverQueue`). Both are proved.

### SataEdma

`ch` is `MV_SATA_CHANNEL` with the fields that decide anything, plus the
registers the driver and the hardware share (ring pointers, interrupt cause,
error cause, EDMA enable bit, device interrupt mask) and what the hardware does
(`executing`, `erring`, `pio`). Entries, tag stacks, the list and its counters
have the names of the C fields. Functions of the driver that change the channel
are operators from channel to channel (`removeCommand`, `deactivateEdma`,
`resetEdmaChannel`, ...), so that an action composes them in the order of the
code. `isr` holds the program counter and locals of
`mvSataInterruptServiceRoutine`: clearing the cause, reading the response
pointer, each response, the error causes and the ports with errors are steps of
their own, because the engine goes on between them. `lives` records the
commands owed a call back. The engine, the drives and the link are actions of
the environment, marked external in the map.

The IAL above is reduced to its use of the driver: restart (disable, flush,
configure) and the enabling at the end of the initialisation. Left out:
FIS-based switching and channel-to-channel mode, which this IAL never enables,
and I/O granularity. `recoveredErrorsCounter` is abstracted to a choice: a
recoverable error is passed over or is one too many.

`Faults` says what may go wrong besides a command failing:

* `connect`, `disconnect`, `unrecoverable`: errors of the link, in every phase of
  the initialisation; they stop the engine;
* `asyncNotify`: a notification of the port multiplier. `handleAsyncNotify`
  returns with the whole cause register cleared, so an error read with it is
  lost unless the notification is a hot plug that restarts the channel;
* `recoverable`: an error the link recovered from, after too many of which the
  channel is given up;
* `pio`, `readlog`, `softreset`: a PIO command the drive does not take, READ LOG
  EXT that fails or does not parse, a soft reset that fails and leaves the queue
  disabled;
* `spurious`: a device interrupt with no PIO command at the head of the list,
  which masks the device interrupt;
* `late`: a device interrupt after a soft reset that was not answered in time,
  which completes a PIO command at the head that was never sent.

`activateEdma` includes the soft reset that `_checkATAStatus` gives a busy drive:
a PIO command under execution is lost. In `SataEdma` no PIO command runs there
(`PioExcludesEdma`); in `SataPowerSave` one may.

### SataPowerSave

`timer_run` and its ioctls for one disk. It runs in a softirq without
`adapter_lock`; on this processor the interrupt routine may run between its
calls and the IAL may not. `pm.old` keeps the commands there were when the timer
was last set, so that no command lives through a period: one found unfinished has
not timed out.

### ScsiAtaLayer

A block carries the fields of `MV_SATA_SCSI_CMD_BLOCK` that decide what happens
next (`splitCount`, `sequenceNumber`, `LowLbaAddress`). The queue below is a set
with a depth that may be closed at any time, which is the interface
`SataCommandQueue` plus the refusals of `mvSataQueueCommand`: a disabled queue, a
full one, and a command alone in the queue that the drive does not take.
Refusals for bad parameters are left out; the SAL treats them as the others.
`QueueDisabled` is a recovery the core driver gave up: the commands stay in the
disabled queue until a restart flushes it. A section under
`adapter_lock` is one step except in the interrupt handler, where completions,
events and each element of the post-interrupt list are steps. `asked`,
`served` and `old` are history: what a SCSI command asks of the drive, what the
drive has done of it, and which commands are from before the drive's last
initialisation. `Residues` is what `kmalloc` may leave in `sequenceNumber`.

## Runs

| Run | Properties | Instance | Distinct states |
|---|---|---|---|
| `channel` | type, `EdmaWorkHasChannel`, `SnapshotHasChannel`, `SnapshotIsServed`, `TimerArmedInReset`, `PollFlagMatchesQueue`, `NoCommandTwice`, `CommandsNeverVanish`, `UsesDriverQueue` | 2 ports, 2 serials, 2 commands, all faults | 299,822 |
| `hotplug` | `ParkedOnlyDuringInit`, `RemovalReported`, `AdditionReported`, `EventuallySettled`, `ParkedIsReleased` | 2 ports, 2 serials, 1 command, no faults, fairness | 108,499 |
| `rescan` | type, `MismatchIsScheduled`, `EventuallyInStep` | 2 ports, 2 serials, fairness | 443,395 |
| `host` | type, `NothingLost`, `NothingKept`, `BlockedIsRemembered`, `EventuallyUnblocked` | 1 port, 1 serial, 2 commands, fairness | 548,601 |
| `edma` | type, `QueueConsistent`, `OwesWhatItHolds`, `InEdmaIsPrefix`, `PioExcludesEdma`, `PioIsHeard`, `ResponsesAreLive`, `NoDmaAfterReturn`, `NoLostCompletion`, `ReadLogKeepsRing` | 3 commands, 2 ports, 3 host tags, ring of 4, QUEUED and NATIVE_QUEUING, failures of PIO, READ LOG EXT and soft reset | 1,168,420 |
| `edma_live` | `PioNotStranded`, `EnableAccepted`, `ImplementsQueue`, `CommandsReturn` | 2 commands, 1 port, 3 modes, 8 of the 10 faults, fairness | 147,809 |
| `sal` | `FragmentsInOrder`, `OneOwner`, `NothingCrossesReset`, `SuccessIsComplete` | 3 blocks, 1 channel, 2 tags, 8 VERIFY commands | 597,025 |
| `channel_alloc` | `ParkedOnlyDuringInit` is violated | `alloc` fault only | - |
| `channel_identify` | `RemovalReported` is violated | `identify` fault only | - |
| `host_block` | `InitIsBlocked` is violated | as `host` | - |
| `power` | `DisabledMeansGivenUp` is violated | 2 commands, 1 port, 3 modes | - |
| `sal_stale` | `CompletionOnLastFragment` is violated | `Residues` 0 and 1 | - |

Five runs show disagreements between the code and its comments; they are
described under `findings` in `PROJECT.json`:

* `channel_alloc`: commands are parked "until channel initialization sequence
  completed", but when the channel structure cannot be allocated the channel
  becomes NOT_CONNECTED with its queue untouched. The commands stay parked until
  the next event on the channel or the mid-layer's timeout.
* `channel_identify`: a drive that was known and fails IDENTIFY after a reset is
  erased from the saved snapshot as well, and so is reported to nobody as
  removed.
* `host_block`: a connect event between the test in `mv_ial_unblock_requests`
  and `scsi_unblock_requests` leaves the host open during initialisation. By
  `NothingLost`, commands that get in that way are parked and not lost, and
  `EventuallyUnblocked` shows that the opposite accident, a host blocked for
  ever, cannot happen.
* `power`: the power saving timer disables and enables DMA without looking at
  the queue. VERIFY, SYNCHRONIZE CACHE and SMART do not count as activity; if
  one of them is being executed when the period ends, the soft reset in
  `activateEdma` kills it, and the EDMA owns the drive with the command still at
  the head of the list, where nothing sends it again. It and what is queued
  behind it wait for their timeouts, although `mvSataDisableChannelDma` takes
  unfinished commands for timed out.
* `sal_stale`: a 48-bit VERIFY leaves `sequenceNumber` uninitialised. If the
  memory held 0, the finished command is taken for one with fragments left, and
  up to 256 of its sectors are read again before it completes. No data is lost.

Further observations, without a run of their own:

* a fragment of a split VERIFY that the core driver refuses is dropped without a
  call back (`mvScsiAtaLayer.c:2481`), and its block is never freed; `OneOwner`
  names it as the only exception;
* `mvSataScsiPostIntService` reads `pNext` of a block that may have just been
  freed; the value is intact because nothing is allocated in between;
* the callers of `deactivateEdma` go on with a list that its timeout path has
  flushed (`mvSata.c:1366`); the model takes the engine to stop in time;
* `MV_BIT3 & MV_BIT4` at `mvSata.c:1605` is the constant 0, and its branch dead;
* a device interrupt that finds no PIO command masks the device interrupts, and
  a PIO command sent with the EDMA already off is then not heard: one of the five
  states `CommandsReturn` leaves to the timeout;
* a device error read together with an asynchronous notification is lost
  (`mvSata.c:1659`): the command waits for its timeout in another of the five
  (`DevErrLost`);
* a device interrupt that comes after a soft reset gave up completes the PIO
  command at the head of the list as if it had been sent (`mvSata.c:2429`).

Every property of a passing run has a mutant in `PROJECT.json`, a plausible
slip in one definition (operators marked "Mutation"), that TLC finds violated.

### Bounds, and why they are enough

* Two ports: port 0 is also the direct drive, and the second port makes the PM
  scan visit, skip and finish; ports interact only through the order of the
  scan. One port for the host, where ports do not matter.
* Two serials: the same drive again, or another one.
* Two commands: one parked and one queued, one late and one new. `QueueDepth` 1
  in the channel runs makes the queue full.
* `SrstTimeout` 2 with `TimerPeriod` 1: one tick within the timeout and one
  that expires. The host and rescan runs use 1, where the first tick expires or
  is answered.
* `MaxRescan` 1: one item waiting, in `IALRescan` besides the one in progress.
  A step that would schedule one more waits; the code has no such limit.
* `PollPeriod` is 4 in the channel runs, as in the code, and 1 in the host and
  rescan runs: a tick that does not poll changes nothing but the counter.
* `edma`: three commands on two ports, because a response in the ring for a
  command that another port's error has aborted needs two on one port and one on
  the other; the ring is one longer than the number of tags, as the code demands
  (`mvSata.h:129`), so it wraps.
* `edma_live`: two commands and one port, with the third mode, connect events,
  notices, spurious and late interrupts. `disconnect` and `unrecoverable` lead to
  the restart that `connect` leads to, and would make the graph the liveness
  checking searches more than twice as large. Its three safety properties were
  also checked with all ten faults, without fairness (419,927 states), and the
  theorems hold for every set of faults.
* `sal`: two commands on the post-interrupt list and a third that fills the
  queue. The VERIFY counts are those at which the split changes: 0 in either
  form, 255, 256, 257, 512, 770 and one past the end of the drive. That the
  fragments make up the count is also evaluated for every count up to 65535
  (`SplitCoversCount` in `MCSal`). One channel: blocks of different channels
  share only the list.
* Commands are interchangeable and symmetric in the runs without liveness.

### Fairness, and why the code justifies it

The timer function re-arms itself in every tick, so a tick is weakly fair
(`mvIALTimerCallback`); keventd runs the work items it has; the loading process
finishes its scan. In `IALHost` a section under the lock and the interrupt
handler always end, and the softirq gets a step again and again between
interrupts (strong fairness): a storm of interrupts that starves the softirq
for ever is excluded. No fairness is assumed of cables, commands or the
mid-layer. The liveness properties are conditional on events that restart
the channel ceasing, since each one legitimately starts the initialisation over.

In `SataEdma` a pending interrupt is served and runs to its end, the IAL goes on
with an initialisation it began and the engine fetches (weak fairness); a drive
finishes its PIO command, and completes or fails each command it holds, if it is
given the chance again and again (strong fairness, since recoveries take the
chance away for a while). Everything else (errors, link events, new commands)
may happen or not. `CommandsReturn` says which states are left to a timeout of
the upper layer instead of assuming that they do not arise: a queue left
disabled, READ LOG EXT that failed, an engine that stopped for an event not acted
on, a PIO command whose interrupt was masked, and a device error lost to a
notification. It assumes that notifications and recoverable errors cease.
Without that it is false: a notice can bring the routine to the cause register
between a completion and the next device error, and the recovery then drops the
response and sends the command again, as often as the notices come.

## Proofs

`IALChannelProofs` proves, for every finite set of ports containing 0, every
set of serials and commands and every positive timeout, period, depth and bound:

* `Invariance`: `Spec => []IInv`, and from it `TypeCorrect`, `EdmaWorkSafe`,
  `SnapshotSafe`, `SnapshotServed`, `TimerSafe`, `PollFlagSafe`;
* `NothingVanishes`: `Spec => CommandsNeverVanish`;
* `UsesDriverQueueSafe`: `Spec => UsesDriverQueue`, a refinement: every step of
  the channel is a step of `SataCommandQueue` or leaves its variables alone.

The assumptions are the ASSUMEs of `IALChannel`, which TLC evaluates in every
run. `IInv` is the conjunction of the type invariant and the five properties,
and none is inductive by itself. `EdmaWorkHasChannel` is needed for
`PollFlagMatchesQueue`, because `mvSetChannelState` clears the flag without
looking at the queue and is right only because nothing is queued during
initialisation, and for `CommandsNeverVanish`, because `mvSataConfigureChannel`
forgets the queue. `EdmaWorkHasChannel` in turn needs `SnapshotHasChannel`
(which states have a channel), since a restart flushes only an allocated
channel. `TimerArmedInReset` bounds the timer for the type invariant and gives
`devInSRST` its range. `SnapshotIsServed` needs `SnapshotHasChannel`: the two
are cleared together only when the channel is.

The layout: lemmas on the set of commands of a sequence; one lemma per building
block (`RestartKeeps`, `StopKeeps`, `ConfigKeeps`, `NextPortKeeps`); `TickKeeps`
with a case per handler, `EventKeeps`, `CommandKeeps`, `RescanKeeps`; `NextKeeps`
collects them. `NothingVanishes` follows the same cases.

The refinement follows from `IInv` case by case: `EdmaWorkHasChannel` says the
queue is empty wherever the mapping calls the channel closed, so a stop or a
restart is `Close`, and the steps that queue a command are `Accept` because they
need an initialised channel.

### The commands and drives of a channel (`IALQueueProofs`)

* `CommandsOnce`: `Spec => []NoCommandTwice`. The inductive form is
  `QueuesOnce`: each of the three lists is free of repetitions and they are
  pairwise disjoint; `NoCommandTwice` counts, and follows from the cardinality
  of an injective sequence.
* `ParkedSafe`: `ParkedOnlyDuringInit` if `"alloc"` is not among `Faults`.
* `RemovalsReported`: `RemovalReported` if neither `"notify"` nor `"identify"`
  is; it needs `HotPlugRemembered`, that a channel being initialised with
  `bHotPlug` clear has no saved drives.
* `AdditionsReported`: `AdditionReported` if `"notify"` is not.

The assumptions on `Faults` are the complements of the runs `channel_alloc` and
`channel_identify`: those show that the property fails with the fault, the
theorems that nothing else can break it. `"notify"` is the failing `kmalloc` of
the work item, for which the code has nothing but a message.

### The host (`IALHostProofs`)

`HostSpec => []HInv`, and from it `HostTypeCorrect`, `NothingLostSafe`,
`NothingKeptSafe` and `BlockedSafe`, for any number of commands and with every
fault. `HInv` adds to the channel's invariants:

* `Order`: where each context can stand while another is under way, the
  preemption order of one processor without PREEMPT;
* `OnePlace`: a command is in one place only, counting the private lists of the
  interrupt and timer functions and a submission before the lock is taken;
* `Recovery`: while the error handler aborts, nobody is waited for and nothing
  enters the driver; while it resets the bus, no command is timing out.

`NothingLost` and `NothingKept` need each other and all three: a completion may
make a command idle only because no other copy of it exists. `HInv` was checked
by TLC on the instance of `host_block` before it was proved.
`HostImplementsChannel` shows `HostSpec => Spec`, so all theorems about the
channel hold of the composition.

### The rescan side (`IALRescanProofs`)

`RescanImplementsChannel` (`RescanSpec => Spec`), `RescanTypeCorrect`, and
`MismatchSafe`: `MismatchIsScheduled` for any number of ports and of waiting
work items, if neither the work item nor IDENTIFY fails. The order of the work
items matters: a removal that runs after the drive came back must be followed by
an addition. `RInv` says that when a work item removes a port whose drive is saved,
it or a later one adds it (`RemovedIsAdded`), that every
difference is named by an item (`Repaired`), also while the channel is not settled,
that the SAL serves exactly the drives found so far, and in an initialised channel
exactly the saved ones (`ExactlyServed`), and where the scan of the loading
driver stands (`Loading`, `ScanWaits`). It was checked by TLC with `MaxRescan` 1 and 2, the latter so that
two items wait.

### The SAL (`ScsiAtaLayerProofs`)

`SalInvariant` (`Spec => []IInv`), and from it `OneOwnerSafe` and `ResetSafe`,
for any number of blocks, channels and tags. `IInv` says who holds each block
(`Holders`: queue, list, or nobody after a refusal) and when a holder may hold
anything (`Phases`: the list is empty outside the interrupt handler, the queue
of a drive that is not ready is empty). `FragmentsSafe` and
`SuccessSafe` need the further part `Progress`: for a block in the queue or on
the list, what is served, the fragment under way and what is left add up to what
the SCSI command asks, in the 8 and 16-bit arithmetic of the code, and no count
exceeds what the sector count of its command can hold. They assume
that `Residues` does not contain 0, the complement of the run `sal_stale`. Sizes
are arbitrary: `DiskSize` is any number of sectors, at most 2^28 for a drive
without 48-bit addresses.

### The core driver (`SataQueueProofs`, `SataEdmaProofs`, `SataRecoveryProofs`)

`Invariance` (`Spec => []IInv`), and from it, for any number of commands, ports,
host and device tags, every ring longer than the number of host tags and every
set of modes and faults:

* the queue: `TypeCorrect`, `QueueStaysConsistent`, `OwesExactlyWhatItHolds`,
  `EdmaIsPrefix`;
* engine and drive: `PioExcludes`, `ResponsesStayLive`, `NoLateDma`,
  `CompletionsAreNotLost`, `ReadLogHasRing`;
* `PioGetsItsTurn`: `PioNotStranded`, which is inductive beside `IInv`;
* the IAL's side: `EnableIsAccepted`, and the refinement `Implements`
  (`Spec => ImplementsQueue`);
* `PioStaysHeard`, if `"spurious"` is not among `Faults`. With it the property
  is false: a spurious interrupt masks the one the next PIO command needs, which
  is the hazard listed at `mvSata.c:2405`.

The assumptions are those of `EdmaAssumption`: finite sets of consecutive
numbers from 0 as tags and ports, at least one of each, at least one mode, and
fewer host tags than slots, which the code enforces with an `#error`
(`mvSata.h:129`).

`IInv` is `Owes` (a command is owed at most one call back, and exactly if it is
held) and `Inv`, a predicate on a channel and the locals of the interrupt
routine, so that it can be stated of the intermediate channels an action goes
through. Its parts:

* `QInv`: types, tag stacks, entries, list and counters, and the prefix of the
  list in the EDMA. This alone is inductive for the functions that add, mark and
  remove commands, which is what `SataQueueProofs` shows, but not for a
  completion, which trusts the tag in the response;
* `RingsLive`: a command in the EDMA is in at most one place (executing, a
  request, a response), and nothing is in the rings of a stopped EDMA. So a
  completion names a command of the EDMA, once. It is claimed only while the rings mean
  something (`Live`): after an error that disables the queue they are left as they
  are until the restart resets them;
* `FailingOK`: in NATIVE_QUEUING a port in error still has its failed command,
  found by port and device tag as the code finds it from READ LOG EXT, and commands
  are marked aborted only at ports known to be in error. Without it the
  recovery might search for a command that is gone;
* `Inserted`: outside a recovery all leading UDMA commands are in the EDMA, which the
  short cut of `mvSataQueueCommand` relies on;
* `Control`: what driver and engine believe of each other (`Engine`), the
  routine's copies of the response pointers against the pointers themselves
  (`Reads`), interrupts that are pending or being served (`Announced`), the PIO
  command (`PioOK`), the states of the recovery against `PortsWithErrors` and
  `CurrPort` (`Recovery`), the channel under initialisation (`NotReady`) and the
  mask of the device interrupt (`Heard`). `Owner` says that where the device
  interrupt is unmasked the EDMA has nothing left to do, even in a disabled queue:
  without it a late interrupt might complete a PIO command while the engine works.

That the rings never fill is a lemma and not an assumption of the model: two
commands in different slots are different commands, so a full ring would be an
injection from `QueueLength - 1` slots and the new command into the host tags,
against the pigeonhole principle.

The layout: `SataQueueProofs` has a lemma per function on the queue.
`SataEdmaProofs` has lemmas that say when a change of some fields keeps each part
of `Inv`, and then an action at a time; an action ends in `Outcome` (the invariant, who was
called back, the ring kept for READ LOG EXT) or in `Accepted`.
`SataRecoveryProofs` has the error paths, in the order in which the routine meets
them, and `NextServes`, which collects the actions and from which the theorems
follow; `PioGetsItsTurn` goes through the actions once more. `Inv` was checked by
TLC on the instances of `edma` and `edma_live`, the latter with all ten faults,
before it was proved.

### Only model-checked

* Liveness in every module (`EventuallySettled`, `ParkedIsReleased`,
  `EventuallyInStep`, `EventuallyUnblocked`, `CommandsReturn`): the prover has no
  rule for fairness or ENABLED.
* `SplitCoversCount`, an evaluation for every count up to 65535.

## Not modelled

The parts marked `not_modelled` in `PROJECT.json`. In the SATA driver: driver
removal (it is built in), proc output and ioctls other than power saving, PRD
tables, sense data, CDB translation, the PHY and register set-up, polled
commands beyond their success or failure, and the load sequence before
`mvAdapterStartInitialization` returns, which runs without `adapter_lock`
although interrupts are already unmasked.

## Plan

1. The load sequence with interrupts, before the lock is used, and memory that
   runs out there and in `IALBusChangeNotifyEx`.
2. CESA request queue; Ethernet descriptor rings.
