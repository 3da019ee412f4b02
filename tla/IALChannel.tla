---------------------------- MODULE IALChannel ----------------------------
(***************************************************************************)
(* One SATA channel of the Marvell IAL common layer (mvIALCommon.c): the   *)
(* state machine the 500 ms timer drives from hot-plug to a working drive, *)
(* the two command queues it empties on the way, and the drive snapshots   *)
(* from which it tells the SCSI mid-layer what to remove and to add.       *)
(*                                                                         *)
(* Every step is one section of code run under adapter_lock: a timer tick, *)
(* an interrupt event, a command submission, an error-handler entry.  What *)
(* the hardware answers (BSY, signature, IDENTIFY, PM registers) is a      *)
(* nondeterministic choice.                                                *)
(***************************************************************************)
EXTENDS Integers, Sequences, FiniteSets

CONSTANTS
  Ports,         \* port-multiplier ports; port 0 is also the direct drive
  Serials,       \* serial numbers IDENTIFY can return
  NoDrive,       \* no drive on the port (snapshot bit clear)
  NoPort,        \* devInSRST = MV_SATA_PM_CONTROL_PORT + 1
  Cmds,          \* scsi_cmnd structures of the mid-layer
  QueueDepth,    \* tags of the EDMA command queue (MV_SATA_SW_QUEUE_SIZE)
  TimerPeriod,   \* MV_IAL_ASYNC_TIMER_PERIOD
  SrstTimeout,   \* MV_IAL_SRST_TIMEOUT
  PollPeriod,    \* ticks between two polls of GSCR[32]: 4 in the code
  Faults,        \* which of FaultKinds the environment may cause
  MaxRescan      \* bound: outstanding rescan work items

FaultKinds == {"alloc",      \* kmalloc of the channel structure fails
               "identify",   \* mvInitSataDisk fails
               "notify"}     \* kmalloc of a rescan_wrapper fails

ASSUME PortsAssumption   == Ports \subseteq Nat /\ 0 \in Ports /\ IsFiniteSet(Ports)
ASSUME NoDriveAssumption == NoDrive \notin Serials
ASSUME NoPortAssumption  == NoPort \notin Ports
ASSUME TimerAssumption   == TimerPeriod \in Nat \ {0} /\ SrstTimeout \in Nat \ {0}
ASSUME DepthAssumption   == QueueDepth \in Nat \ {0} /\ MaxRescan \in Nat \ {0}
ASSUME PollAssumption    == PollPeriod \in Nat \ {0}
ASSUME FaultsAssumption  == Faults \subseteq FaultKinds

VARIABLES
  channelState,                \* MV_CHANNEL_STATE
  sataChannel,                 \* pSataAdapter->sataChannel[channelIndex] # NULL
  deviceType,                  \* pSataChannel->deviceType
  queueCommandsEnabled,        \* the EDMA accepts commands
  SRSTTimerThreshold,
  SRSTTimerValue,
  IALChannelPendingCmdQueue,   \* commands parked while the channel initialises
  commandsQueue,               \* commands in the EDMA queue
  pmCmdOutstanding,            \* the PM register read is in the EDMA queue
  pmRegAccessInProgress,
  pmAsyncNotifyEnabled,
  pmRegPollCounter,            \* modulo PollPeriod: only the low bits are read
  PMdevsToInit,
  devInSRST,
  bHotPlug,
  driveSaved,                  \* drivesSnapshotSaved and driveSerialSaved
  driveCurrent,                \* drivesSnapshotCurrent and driveSerialCurrent
  driveReady,                  \* the drive the SAL serves on a port
  scsi_cmnd_done,              \* completed commands not yet handed to scsi_done
  rescanWork,                  \* scheduled channel_rescan work items
  stopped                      \* pAdapter->stopped: hot-plug handler disabled

stateVars == <<channelState, sataChannel, deviceType, queueCommandsEnabled>>
timerVars == <<SRSTTimerThreshold, SRSTTimerValue>>
queueVars == <<IALChannelPendingCmdQueue, commandsQueue, scsi_cmnd_done>>
pollVars  == <<pmCmdOutstanding, pmRegAccessInProgress, pmRegPollCounter>>
scanVars  == <<PMdevsToInit, devInSRST, pmAsyncNotifyEnabled>>
driveVars == <<driveSaved, driveCurrent, driveReady>>
hotVars   == <<bHotPlug, rescanWork, stopped>>
vars == <<stateVars, timerVars, queueVars, pollVars, scanVars, driveVars, hotVars>>

ChannelStates == {"NOT_CONNECTED", "CONNECTED", "IN_SRST",
                  "PM_STAGGERED_SPIN_UP", "PM_SRST_DEVICE", "READY", "PM_HOT_PLUG"}
DeviceTypes   == {"UNKNOWN", "ATA_DISK", "PM"}
Drives        == [Ports -> Serials \cup {NoDrive}]
RescanItems   == [remove : SUBSET Ports, add : SUBSET Ports]

\* The states in which mvExecuteScsiCommand hands commands to the SAL and in
\* which mv_ial_unblock_requests lets the mid-layer send.
Settled == {"READY", "NOT_CONNECTED"}

NoDrives    == [p \in Ports |-> NoDrive]
Present(d)  == {p \in Ports : d[p] # NoDrive}
Elems(s)    == {s[i] : i \in 1..Len(s)}
Held        == Elems(IALChannelPendingCmdQueue) \cup Elems(commandsQueue)
                 \cup Elems(scsi_cmnd_done)

StateTypeOK == /\ channelState \in ChannelStates
               /\ sataChannel \in BOOLEAN
               /\ deviceType \in DeviceTypes
               /\ queueCommandsEnabled \in BOOLEAN
TimerTypeOK == /\ SRSTTimerThreshold \in {0, SrstTimeout}
               /\ SRSTTimerValue \in 0..SrstTimeout
QueueTypeOK == /\ IALChannelPendingCmdQueue \in Seq(Cmds)
               /\ commandsQueue \in Seq(Cmds)
               /\ scsi_cmnd_done \in Seq(Cmds)
PollTypeOK  == /\ pmCmdOutstanding \in BOOLEAN
               /\ pmRegAccessInProgress \in BOOLEAN
               /\ pmRegPollCounter \in 0..(PollPeriod - 1)
ScanTypeOK  == /\ PMdevsToInit \subseteq Ports
               /\ devInSRST \in Ports \cup {NoPort}
               /\ pmAsyncNotifyEnabled \in BOOLEAN
DriveTypeOK == driveSaved \in Drives /\ driveCurrent \in Drives /\ driveReady \in Drives
HotTypeOK   == /\ bHotPlug \in BOOLEAN
               /\ rescanWork \in Seq(RescanItems)
               /\ stopped \in BOOLEAN

TypeOK == /\ StateTypeOK /\ TimerTypeOK /\ QueueTypeOK /\ PollTypeOK
          /\ ScanTypeOK /\ DriveTypeOK /\ HotTypeOK

-----------------------------------------------------------------------------
(* Building blocks: what the handlers below share.                         *)

\* Mutation: the threshold is left alone when the timer is set.
SetChannelTimerNoThreshold(timeout) == SRSTTimerThreshold' = 0 /\ SRSTTimerValue' = 1

\* mvSetChannelTimer, and how every transition out of a reset disarms it.
SetChannelTimer(timeout) == SRSTTimerThreshold' = timeout /\ SRSTTimerValue' = 1
ClearChannelTimer        == SRSTTimerThreshold' = 0 /\ SRSTTimerValue' = 0

\* Mutation: only the current snapshot is flushed.
DrivesInfoFlushCurrent == UNCHANGED driveSaved /\ driveCurrent' = NoDrives

\* mvDrivesInfoFlushAll and mvDrivesInfoSaveAll.
DrivesInfoFlushAll         == driveSaved' = NoDrives /\ driveCurrent' = NoDrives
DrivesInfoSaveAll(current) == driveSaved' = current /\ driveCurrent' = NoDrives

\* mvDrivesInfoFlushSingleDrive forgets the port in both snapshots.
FlushSingleDrive(d, p) == [d EXCEPT ![p] = NoDrive]

\* mvSetDriveReady(MV_TRUE): the drive on port p has serial number s.
SetDriveReady(d, p, s) == [d EXCEPT ![p] = s]

\* IALBusChangeNotifyEx: schedule a channel_rescan, unless the hot-plug
\* handler is stopped or the GFP_ATOMIC allocation fails.
IALBusChangeNotifyEx(remove, add) ==
  IF stopped
  THEN rescanWork' = rescanWork
  ELSE \/ /\ Len(rescanWork) < MaxRescan
          /\ rescanWork' = Append(rescanWork, [remove |-> remove, add |-> add])
       \/ /\ "notify" \in Faults
          /\ rescanWork' = rescanWork

\* Mutation: MV_FLUSH_TYPE_NONE, the callbacks are not called.
FlushDmaQueueSilently ==
  /\ commandsQueue' = <<>>
  /\ pmCmdOutstanding' = FALSE
  /\ UNCHANGED pmRegAccessInProgress

\* mvSataDisableChannelDma followed by mvSataFlushDmaQueue(CALLBACK): every
\* command of the EDMA queue completes as aborted, and the callback of an
\* outstanding PM register read clears pmRegAccessInProgress.
FlushDmaQueue ==
  /\ commandsQueue' = <<>>
  /\ pmCmdOutstanding' = FALSE
  /\ pmRegAccessInProgress' = (pmRegAccessInProgress /\ ~pmCmdOutstanding)

\* Mutation: the head of the list is not reset after the walk.
FlushSCSICommandQueueKeepsList(first) ==
  /\ UNCHANGED IALChannelPendingCmdQueue
  /\ scsi_cmnd_done' = scsi_cmnd_done \o first \o IALChannelPendingCmdQueue

\* Mutation: the head of the list is reset before the walk.
FlushSCSICommandQueueDropsList(first) ==
  /\ IALChannelPendingCmdQueue' = <<>>
  /\ scsi_cmnd_done' = scsi_cmnd_done \o first

\* mvFlushSCSICommandQueue after "first" commands were completed.
FlushSCSICommandQueue(first) ==
  /\ IALChannelPendingCmdQueue' = <<>>
  /\ scsi_cmnd_done' = scsi_cmnd_done \o first \o IALChannelPendingCmdQueue

\* Mutation: mvRestartChannel leaves the EDMA and its queue alone.
RestartWithoutFlush ==
  /\ bHotPlug' = TRUE
  /\ driveCurrent' = NoDrives
  /\ driveReady' = NoDrives
  /\ FlushSCSICommandQueue(<<>>)
  /\ ClearChannelTimer
  /\ channelState' = "CONNECTED"
  /\ UNCHANGED <<sataChannel, deviceType, queueCommandsEnabled, commandsQueue,
                 pollVars, driveSaved, rescanWork, stopped>>

\* Mutation: mvRestartChannel gives back the queued commands, not the parked ones.
RestartKeepsParked ==
  /\ bHotPlug' = TRUE
  /\ driveCurrent' = NoDrives
  /\ driveReady' = NoDrives
  /\ IF sataChannel
     THEN /\ queueCommandsEnabled' = FALSE
          /\ FlushDmaQueue
          /\ scsi_cmnd_done' = scsi_cmnd_done \o commandsQueue
     ELSE UNCHANGED <<queueCommandsEnabled, commandsQueue, scsi_cmnd_done,
                      pmCmdOutstanding, pmRegAccessInProgress>>
  /\ ClearChannelTimer
  /\ channelState' = "CONNECTED"
  /\ UNCHANGED <<IALChannelPendingCmdQueue, sataChannel, deviceType,
                 pmRegPollCounter, driveSaved, rescanWork, stopped>>

\* mvRestartChannel: from whatever state, start the initialisation again.
mvRestartChannel ==
  /\ bHotPlug' = TRUE
  /\ driveCurrent' = NoDrives
  /\ driveReady' = NoDrives
  /\ IF sataChannel
     THEN /\ queueCommandsEnabled' = FALSE
          /\ FlushDmaQueue
          /\ FlushSCSICommandQueue(commandsQueue)
     ELSE /\ UNCHANGED <<queueCommandsEnabled, commandsQueue,
                         pmCmdOutstanding, pmRegAccessInProgress>>
          /\ FlushSCSICommandQueue(<<>>)
  /\ ClearChannelTimer
  /\ channelState' = "CONNECTED"
  /\ UNCHANGED <<sataChannel, deviceType, pmRegPollCounter,
                 driveSaved, rescanWork, stopped>>

\* mvStopChannel: "saved" is drivesSnapshotSaved when the function is entered.
mvStopChannel(saved) ==
  /\ DrivesInfoFlushAll
  /\ driveReady' = NoDrives
  /\ channelState' = "NOT_CONNECTED"
  /\ IF channelState = "NOT_CONNECTED"
     THEN UNCHANGED timerVars
     ELSE ClearChannelTimer
  /\ IF sataChannel
     THEN FlushDmaQueue /\ FlushSCSICommandQueue(commandsQueue)
     ELSE /\ UNCHANGED <<commandsQueue, pmCmdOutstanding, pmRegAccessInProgress>>
          /\ FlushSCSICommandQueue(<<>>)
  /\ sataChannel' = FALSE
  /\ queueCommandsEnabled' = FALSE
  /\ deviceType' = "UNKNOWN"
  /\ IF Present(saved) # {}
     THEN IALBusChangeNotifyEx(Present(saved), {})
     ELSE UNCHANGED rescanWork
  /\ UNCHANGED <<bHotPlug, stopped, pmRegPollCounter>>

\* Mutations: a replaced drive is not told from the one it replaces.
DrivesGone(saved, current) == Present(saved) \ Present(current)
DrivesNew(saved, current)  == Present(current) \ Present(saved)

\* mvDrivesInfoGetChannelRescanParams: the targets whose drive is gone or
\* replaced, and those with a new drive or a replacement.
DrivesToRemove(saved, current) ==
  {p \in Present(saved) : current[p] # saved[p]}
DrivesToAdd(saved, current) ==
  {p \in Present(current) : current[p] # saved[p]}

\* mvSetChannelState(CHANNEL_READY), after mvSataEnableChannelDma: parked
\* commands are returned BUSY, differences to the saved snapshot reported,
\* and the current snapshot becomes the saved one.
SetChannelReady(saved, current, ready) ==
  /\ channelState' = "READY"
  /\ queueCommandsEnabled' = TRUE
  /\ ClearChannelTimer
  /\ pmRegAccessInProgress' = FALSE
  /\ FlushSCSICommandQueue(<<>>)
  /\ bHotPlug' = FALSE
  /\ LET remove == DrivesToRemove(saved, current)
         add    == DrivesToAdd(saved, current)
     IN IF bHotPlug /\ (remove # {} \/ add # {})
        THEN IALBusChangeNotifyEx(remove, add)
        ELSE UNCHANGED rescanWork
  /\ DrivesInfoSaveAll(current)
  /\ driveReady' = ready
  /\ UNCHANGED <<sataChannel, commandsQueue, pmCmdOutstanding,
                 pmRegPollCounter, stopped>>

\* mvConfigChannelQueuingMode with a disk can only fail because the EDMA is
\* already enabled; with a port multiplier it also reads and writes PM
\* registers, which may fail.
ConfigQueuingModeMayFail(type) == queueCommandsEnabled \/ type = "PM"

\* mvConfigChannelDMA and what every caller does with its result.
ConfigChannelDMA(type, saved, current, ready) ==
  \/ /\ ~queueCommandsEnabled
     /\ SetChannelReady(saved, current, ready)
     /\ deviceType' = type
  \/ /\ ConfigQueuingModeMayFail(type)
     /\ mvStopChannel(saved)

-----------------------------------------------------------------------------
(* mvChannelStateMachine: the handler a timer tick runs in each state.     *)

\* mvChannelNotConnectedStateHandler.
ChannelNotConnectedStateHandler ==
  /\ channelState = "NOT_CONNECTED"
  /\ IF sataChannel
     THEN /\ sataChannel' = FALSE
          /\ deviceType' = "UNKNOWN"
          /\ driveCurrent' = NoDrives
          /\ driveReady' = NoDrives
          /\ FlushSCSICommandQueue(<<>>)
     ELSE UNCHANGED <<sataChannel, deviceType, driveCurrent, driveReady,
                      IALChannelPendingCmdQueue, scsi_cmnd_done>>
  /\ UNCHANGED <<channelState, queueCommandsEnabled, timerVars, commandsQueue,
                 pollVars, scanVars, driveSaved, hotVars>>

\* mvChannelConnectedStateHandler: IALInitChannel out of memory.
ConnectedAllocFails ==
  /\ channelState = "CONNECTED"
  /\ ~sataChannel /\ "alloc" \in Faults
  /\ DrivesInfoFlushAll
  /\ channelState' = "NOT_CONNECTED"
  /\ ClearChannelTimer
  /\ UNCHANGED <<sataChannel, deviceType, queueCommandsEnabled, queueVars,
                 pollVars, scanVars, driveReady, hotVars>>

\* mvChannelConnectedStateHandler: configure the channel and start the soft
\* reset.  mvSataConfigureChannel disables the EDMA and forgets every queued
\* command, so the soft reset cannot be refused.
ConnectedStartsSRST ==
  /\ channelState = "CONNECTED"
  /\ sataChannel' = TRUE
  /\ queueCommandsEnabled' = FALSE
  /\ deviceType' = "UNKNOWN"
  /\ commandsQueue' = <<>>
  /\ pmCmdOutstanding' = FALSE
  /\ SetChannelTimer(SrstTimeout)
  /\ channelState' = "IN_SRST"
  /\ UNCHANGED <<IALChannelPendingCmdQueue, scsi_cmnd_done, pmRegAccessInProgress,
                 pmRegPollCounter, scanVars, driveVars, hotVars>>

TimerNow == SRSTTimerValue + (IF SRSTTimerThreshold > 0 THEN TimerPeriod ELSE 0)
Expired  == TimerNow > SRSTTimerThreshold

\* Mutation: the soft reset never times out.
InSrstBusyWaits ==
  /\ channelState = "IN_SRST"
  /\ SRSTTimerValue' = TimerNow
  /\ UNCHANGED <<stateVars, SRSTTimerThreshold, queueVars, pollVars, scanVars,
                 driveVars, hotVars>>

\* Mutation: when the timer expires it is set again and the wait goes on.
InSrstBusyRetries ==
  /\ channelState = "IN_SRST"
  /\ IF Expired
     THEN SetChannelTimer(SrstTimeout)
     ELSE SRSTTimerValue' = TimerNow /\ UNCHANGED SRSTTimerThreshold
  /\ UNCHANGED <<stateVars, queueVars, pollVars, scanVars, driveVars, hotVars>>

\* mvChannelInSrstStateHandler while BSY is set.
InSrstBusy ==
  /\ channelState = "IN_SRST"
  /\ IF Expired
     THEN mvStopChannel(driveSaved) /\ UNCHANGED scanVars
     ELSE /\ SRSTTimerValue' = TimerNow
          /\ UNCHANGED <<stateVars, SRSTTimerThreshold, queueVars, pollVars,
                         scanVars, driveVars, hotVars>>

\* mvChannelInSrstStateHandler: the signature is an ATA disk's and it
\* identifies itself with serial number s.
InSrstDiskReady(s) ==
  /\ channelState = "IN_SRST"
  /\ ConfigChannelDMA("ATA_DISK", driveSaved, SetDriveReady(driveCurrent, 0, s),
                      SetDriveReady(driveReady, 0, s))
  /\ UNCHANGED scanVars

\* mvChannelInSrstStateHandler: an ATA disk that cannot be initialised.
InSrstDiskFails ==
  /\ channelState = "IN_SRST"
  /\ "identify" \in Faults
  /\ mvStopChannel(FlushSingleDrive(driveSaved, 0))
  /\ UNCHANGED scanVars

\* mvChannelInSrstStateHandler: ATAPI or unknown signature.
InSrstUnsupported ==
  /\ channelState = "IN_SRST"
  /\ mvStopChannel(driveSaved)
  /\ UNCHANGED scanVars

\* mvChannelInSrstStateHandler: a port multiplier whose configuration or
\* spin-up (mvPMEstablishSataComm) fails, possibly after asynchronous
\* notification was enabled.
InSrstPMFails ==
  /\ channelState = "IN_SRST"
  /\ \/ PMdevsToInit' = PMdevsToInit
     \/ PMdevsToInit' = {}
  /\ pmAsyncNotifyEnabled' \in BOOLEAN
  /\ mvStopChannel(driveSaved)
  /\ UNCHANGED devInSRST

MinPort(S) == CHOOSE p \in S : \A q \in S : p <= q

\* The soft reset of the first port of devs not below "from" is started; it
\* is refused only while the EDMA is enabled.
SrstFrom(devs, from) == {p \in devs : p >= from /\ ~queueCommandsEnabled}

\* mvPMEstablishSataComm succeeds and mvChannelStateMachine goes on at once
\* with mvChannelPMStaggeredSpinUpStateHandler, which finds drives on the
\* ports "up", or fails to talk to the port multiplier.
InSrstPMSpinsUp(up) ==
  /\ channelState = "IN_SRST"
  /\ pmAsyncNotifyEnabled' \in BOOLEAN
  /\ \/ /\ SrstFrom(up, 0) # {}
        /\ PMdevsToInit' = up
        /\ devInSRST' = MinPort(up)
        /\ channelState' = "PM_SRST_DEVICE"
        /\ deviceType' = "PM"
        /\ SetChannelTimer(SrstTimeout)
        /\ UNCHANGED <<sataChannel, queueCommandsEnabled, queueVars, pollVars,
                       driveVars, hotVars>>
     \/ /\ SrstFrom(up, 0) = {}
        /\ PMdevsToInit' = {}
        /\ devInSRST' = NoPort
        /\ ConfigChannelDMA("PM", driveSaved, driveCurrent, driveReady)
     \/ /\ PMdevsToInit' = up
        /\ devInSRST' \in up \cup {NoPort}
        /\ mvStopChannel(driveSaved)

\* mvChannelPMSrstDeviceStateHandler, mvInitPMDevice still waiting for BSY.
PMSrstBusy ==
  /\ channelState = "PM_SRST_DEVICE"
  /\ ~Expired
  /\ SRSTTimerValue' = TimerNow
  /\ UNCHANGED <<stateVars, SRSTTimerThreshold, queueVars, pollVars, scanVars,
                 driveVars, hotVars>>

\* mvInitPMDevice once the port in reset is dealt with: no port is left, the
\* soft reset of the next one starts, or a PM register access fails.
PMNextPort(saved, current, ready) ==
  LET devs == PMdevsToInit \ {devInSRST}
      next == SrstFrom(devs, devInSRST)
  IN
  \/ \* all ports done: GSCR[33] written, or not and the timer expired
     /\ next = {}
     /\ PMdevsToInit' = {}
     /\ UNCHANGED devInSRST
     /\ ConfigChannelDMA("PM", saved, current, ready)
  \/ \* GSCR[33] could not be written: tried again from the next tick
     /\ next = {} /\ ~Expired
     /\ PMdevsToInit' = {}
     /\ SRSTTimerValue' = TimerNow
     /\ driveSaved' = saved /\ driveCurrent' = current /\ driveReady' = ready
     /\ UNCHANGED <<stateVars, SRSTTimerThreshold, queueVars, pollVars,
                    devInSRST, hotVars>>
  \/ \* soft reset of the next port under way, timer set again
     /\ next # {}
     /\ PMdevsToInit' = devs
     /\ devInSRST' = MinPort(next)
     /\ SetChannelTimer(SrstTimeout)
     /\ driveSaved' = saved /\ driveCurrent' = current /\ driveReady' = ready
     /\ UNCHANGED <<stateVars, queueVars, pollVars, hotVars>>
  \/ \* SError of the next port could not be cleared
     /\ next # {}
     /\ PMdevsToInit' = devs
     /\ devInSRST' = MinPort(next)
     /\ IF Expired
        THEN ConfigChannelDMA("PM", saved, current, ready)
        ELSE mvStopChannel(saved)

\* The port in reset is skipped: still BSY when the timer expired, or
\* unplugged during the reset.
PMSrstPortSkipped ==
  /\ channelState = "PM_SRST_DEVICE"
  /\ UNCHANGED pmAsyncNotifyEnabled
  /\ PMNextPort(driveSaved, driveCurrent, driveReady)

\* Mutation: the SAL is not told of the drive behind the port multiplier.
PMSrstPortNotServed(s) ==
  /\ channelState = "PM_SRST_DEVICE"
  /\ UNCHANGED pmAsyncNotifyEnabled
  /\ PMNextPort(driveSaved, SetDriveReady(driveCurrent, devInSRST, s), driveReady)

\* The drive in reset answered and identified itself with serial number s.
PMSrstPortReady(s) ==
  /\ channelState = "PM_SRST_DEVICE"
  /\ UNCHANGED pmAsyncNotifyEnabled
  /\ PMNextPort(driveSaved, SetDriveReady(driveCurrent, devInSRST, s),
                SetDriveReady(driveReady, devInSRST, s))

\* The drive in reset answered but could not be initialised.
PMSrstPortFails ==
  /\ channelState = "PM_SRST_DEVICE"
  /\ "identify" \in Faults
  /\ UNCHANGED pmAsyncNotifyEnabled
  /\ PMNextPort(FlushSingleDrive(driveSaved, devInSRST),
                FlushSingleDrive(driveCurrent, devInSRST), driveReady)

\* hasSataLinkStatusChanged failed: PM error, unless the timer expired too.
PMSrstLinkCheckFails ==
  /\ channelState = "PM_SRST_DEVICE"
  /\ PMdevsToInit' = PMdevsToInit \ {devInSRST}
  /\ UNCHANGED <<devInSRST, pmAsyncNotifyEnabled>>
  /\ IF Expired
     THEN ConfigChannelDMA("PM", driveSaved, driveCurrent, driveReady)
     ELSE mvStopChannel(driveSaved)

\* hasSataLinkStatusChanged saw the drive replugged: start all over.
PMSrstReconnected ==
  /\ channelState = "PM_SRST_DEVICE"
  /\ PMdevsToInit' = PMdevsToInit \ {devInSRST}
  /\ UNCHANGED <<devInSRST, pmAsyncNotifyEnabled>>
  /\ mvRestartChannel

CanQueue == /\ sataChannel /\ queueCommandsEnabled
            /\ Len(commandsQueue) + (IF pmCmdOutstanding THEN 1 ELSE 0) < QueueDepth

\* mvQueuePMAccessRegisterCommand accepted by the EDMA.
QueuePMAccessRegisterCommand == pmRegAccessInProgress' = TRUE /\ pmCmdOutstanding' = TRUE

NextPollCounter ==
  IF pmRegPollCounter + 1 = PollPeriod THEN 0 ELSE pmRegPollCounter + 1

\* mvChannelReadyStateHandler: behind a port multiplier without asynchronous
\* notification, GSCR[32] is read every PollPeriod ticks.
ChannelReadyStateHandler ==
  /\ channelState = "READY"
  /\ IF /\ ~pmRegAccessInProgress
        /\ deviceType = "PM"
        /\ ~pmAsyncNotifyEnabled
     THEN /\ pmRegPollCounter' = NextPollCounter
          /\ IF pmRegPollCounter = 0 /\ CanQueue
             THEN QueuePMAccessRegisterCommand
             ELSE UNCHANGED <<pmRegAccessInProgress, pmCmdOutstanding>>
     ELSE UNCHANGED pollVars
  /\ UNCHANGED <<stateVars, timerVars, queueVars, scanVars, driveVars, hotVars>>

\* mvChannelPMHotPlugStateHandler.
ChannelPMHotPlugStateHandler ==
  /\ channelState = "PM_HOT_PLUG"
  /\ mvRestartChannel
  /\ UNCHANGED scanVars

\* mvIALTimerCallback: one tick of asyncStartTimerFunction under the lock.
mvIALTimerCallback ==
  \/ ChannelNotConnectedStateHandler
  \/ ConnectedAllocFails
  \/ ConnectedStartsSRST
  \/ InSrstBusy
  \/ \E s \in Serials : InSrstDiskReady(s)
  \/ InSrstDiskFails
  \/ InSrstUnsupported
  \/ InSrstPMFails
  \/ \E up \in SUBSET Ports : InSrstPMSpinsUp(up)
  \/ PMSrstBusy
  \/ PMSrstPortSkipped
  \/ \E s \in Serials : PMSrstPortReady(s)
  \/ PMSrstPortFails
  \/ PMSrstLinkCheckFails
  \/ PMSrstReconnected
  \/ ChannelReadyStateHandler
  \/ ChannelPMHotPlugStateHandler

-----------------------------------------------------------------------------
(* Events the interrupt handler reports (mv_ial_lib_event_notify).          *)

\* A plugged cable, an unrecoverable error, an abort and a bus reset all end
\* in mvRestartChannel.
RestartChannel == mvRestartChannel /\ UNCHANGED scanVars

\* MV_SATA_CABLE_EVENT_DISCONNECT with the device really gone.
CableDisconnect == mvStopChannel(driveSaved) /\ UNCHANGED scanVars

\* MV_SATA_CABLE_EVENT_PM_HOT_PLUG: mvPMHotPlugDetected.
mvPMHotPlugDetected ==
  IF channelState \in {"NOT_CONNECTED", "CONNECTED", "IN_SRST"}
  THEN UNCHANGED vars
  ELSE mvRestartChannel /\ UNCHANGED scanVars

\* The recovery from a device error fails (_doDevErrorRecovery, READ LOG EXT), or
\* a reconnected device is gone again when it is looked for: the core driver
\* leaves the queue disabled and tells nobody.  SataEdma has the details.
EdmaDisabled ==
  /\ sataChannel
  /\ queueCommandsEnabled' = FALSE
  /\ UNCHANGED <<channelState, sataChannel, deviceType, timerVars, queueVars,
                 pollVars, scanVars, driveVars, hotVars>>

WithoutIndex(s, i) == SubSeq(s, 1, i - 1) \o SubSeq(s, i + 1, Len(s))

\* Mutation: a completion is taken for those of all commands before it, too.
CompletesInOrder(i) ==
  /\ sataChannel
  /\ commandsQueue' = SubSeq(commandsQueue, i + 1, Len(commandsQueue))
  /\ scsi_cmnd_done' = scsi_cmnd_done \o SubSeq(commandsQueue, 1, i)
  /\ UNCHANGED <<stateVars, timerVars, IALChannelPendingCmdQueue, pollVars,
                 scanVars, driveVars, hotVars>>

\* The interrupt handler finds the i-th command of the EDMA queue completed,
\* well or in error: SALCommandCompletionCB and IALCompletion.
CommandCompletes(i) ==
  /\ sataChannel
  /\ commandsQueue' = WithoutIndex(commandsQueue, i)
  /\ scsi_cmnd_done' = Append(scsi_cmnd_done, commandsQueue[i])
  /\ UNCHANGED <<stateVars, timerVars, IALChannelPendingCmdQueue, pollVars,
                 scanVars, driveVars, hotVars>>

\* mvPMCommandCompletionCB: the read failed or found GSCR[32] clear, or it is
\* not clear and its low bits name the ports "changed".
PMCommandCompletionCB(changed) ==
  /\ pmCmdOutstanding
  /\ pmCmdOutstanding' = FALSE
  /\ pmRegAccessInProgress' = FALSE
  /\ \/ changed = {} /\ UNCHANGED <<channelState, PMdevsToInit>>
     \/ channelState' = "PM_HOT_PLUG" /\ PMdevsToInit' = changed
  /\ UNCHANGED <<sataChannel, deviceType, queueCommandsEnabled, timerVars,
                 queueVars, pmRegPollCounter, devInSRST, pmAsyncNotifyEnabled,
                 driveVars, hotVars>>

-----------------------------------------------------------------------------
(* Commands from the mid-layer.                                            *)

\* The command is completed on the spot, or accepted by the EDMA for a drive
\* that is ready (mvSataExecuteScsiCommand, mvScsiAtaSendSmartCommand).
SalExecute(c, p) ==
  /\ \/ /\ scsi_cmnd_done' = Append(scsi_cmnd_done, c)
        /\ UNCHANGED commandsQueue
     \/ /\ driveReady[p] # NoDrive /\ CanQueue
        /\ commandsQueue' = Append(commandsQueue, c)
        /\ UNCHANGED scsi_cmnd_done
  /\ UNCHANGED IALChannelPendingCmdQueue

\* mvAddToSCSICommandQueue parks the command.
AddToSCSICommandQueue(c) ==
  /\ IALChannelPendingCmdQueue' = Append(IALChannelPendingCmdQueue, c)
  /\ UNCHANGED <<commandsQueue, scsi_cmnd_done>>

\* Mutation: only READY is tested, a command for nobody is parked.
ExecuteOnlyWhenReady(c, p) ==
  /\ IF channelState = "READY"
     THEN SalExecute(c, p)
     ELSE AddToSCSICommandQueue(c)
  /\ UNCHANGED <<stateVars, timerVars, pollVars, scanVars, driveVars, hotVars>>

\* mvExecuteScsiCommand for command c to target p.
mvExecuteScsiCommand(c, p) ==
  /\ IF channelState \in Settled
     THEN SalExecute(c, p)
     ELSE AddToSCSICommandQueue(c)
  /\ UNCHANGED <<stateVars, timerVars, pollVars, scanVars, driveVars, hotVars>>

\* A SMART command bypasses the channel state (mvScsiAtaSendSmartCommand).
SendSmartCommand(c, p) ==
  /\ SalExecute(c, p)
  /\ UNCHANGED <<stateVars, timerVars, pollVars, scanVars, driveVars, hotVars>>

\* mv_ial_lib_get_first_cmnd: the whole list of completed commands is taken,
\* to be handed to scsi_done.
TakeDoneList ==
  /\ scsi_cmnd_done' = <<>>
  /\ UNCHANGED <<stateVars, timerVars, IALChannelPendingCmdQueue, commandsQueue,
                 pollVars, scanVars, driveVars, hotVars>>

\* The work queue starts the oldest channel_rescan.
TakeRescanWork ==
  /\ rescanWork # <<>>
  /\ rescanWork' = Tail(rescanWork)
  /\ UNCHANGED <<stateVars, timerVars, queueVars, pollVars, scanVars, driveVars,
                 bHotPlug, stopped>>

\* End of mv_ial_init_soc_sata: "Enable hotplug handler".
EnableHotplug ==
  /\ stopped
  /\ stopped' = FALSE
  /\ UNCHANGED <<stateVars, timerVars, queueVars, pollVars, scanVars, driveVars,
                 bHotPlug, rescanWork>>

-----------------------------------------------------------------------------

\* mvAdapterStartInitialization with the adapter brought to ADAPTER_READY
\* (the driver is not loaded otherwise): the channel is not connected, or its
\* soft reset is under way.
Init ==
  /\ \/ /\ channelState = "NOT_CONNECTED"
        /\ sataChannel = FALSE
        /\ SRSTTimerThreshold = 0 /\ SRSTTimerValue = 0
     \/ /\ channelState = "IN_SRST"
        /\ sataChannel = TRUE
        /\ SRSTTimerThreshold = SrstTimeout /\ SRSTTimerValue = 1
  /\ deviceType = "UNKNOWN"
  /\ queueCommandsEnabled = FALSE
  /\ IALChannelPendingCmdQueue = <<>> /\ commandsQueue = <<>> /\ scsi_cmnd_done = <<>>
  /\ pmCmdOutstanding = FALSE /\ pmRegAccessInProgress = FALSE
  /\ pmRegPollCounter = 0 /\ pmAsyncNotifyEnabled = FALSE
  /\ PMdevsToInit = {} /\ devInSRST = NoPort
  /\ bHotPlug = FALSE /\ rescanWork = <<>> /\ stopped = TRUE
  /\ driveSaved = NoDrives /\ driveCurrent = NoDrives /\ driveReady = NoDrives

Next ==
  \/ mvIALTimerCallback
  \/ RestartChannel
  \/ CableDisconnect
  \/ mvPMHotPlugDetected
  \/ EdmaDisabled
  \/ \E i \in 1..Len(commandsQueue) : CommandCompletes(i)
  \/ \E changed \in SUBSET Ports : PMCommandCompletionCB(changed)
  \/ \E c \in Cmds \ Held, p \in Ports : mvExecuteScsiCommand(c, p)
  \/ \E c \in Cmds \ Held, p \in Ports : SendSmartCommand(c, p)
  \/ TakeDoneList
  \/ TakeRescanWork
  \/ EnableHotplug

Spec == Init /\ [][Next]_vars

\* asyncStartTimerFunction re-arms itself on every tick, and keventd runs
\* every work item it is given.  Nothing else is fair: no device answers, no
\* cable event and no command is ever owed.
Fairness == WF_vars(mvIALTimerCallback) /\ WF_vars(TakeRescanWork)
FairSpec == Spec /\ Fairness

-----------------------------------------------------------------------------
(* Properties.                                                             *)

\* Every command the EDMA knows, and an outstanding PM register read, belong
\* to an allocated channel that finished its initialisation: mvRestartChannel
\* and mvStopChannel flush them before mvSataConfigureChannel forgets the
\* queue or IALReleaseChannel frees the channel.
EdmaWorkHasChannel ==
  commandsQueue # <<>> \/ pmCmdOutstanding \/ queueCommandsEnabled
    => sataChannel /\ channelState \in {"READY", "PM_HOT_PLUG"}

\* mvExecuteScsiCommand parks commands only "until channel initialization
\* sequence completed": once the channel is settled none is parked.
ParkedOnlyDuringInit ==
  channelState \in Settled => IALChannelPendingCmdQueue = <<>>

\* A snapshot exists only for an allocated channel, so that mvStopChannel can
\* still report its drives as removed, and an unconnected channel serves none.
SnapshotHasChannel ==
  /\ ~sataChannel => driveSaved = NoDrives /\ driveReady = NoDrives
  /\ channelState = "NOT_CONNECTED" => ~sataChannel
  /\ channelState \notin {"NOT_CONNECTED", "CONNECTED"} => sataChannel

\* The drives found so far by the initialisation, and in a ready channel the
\* drives of the saved snapshot, are drives the SAL serves, with the same
\* serial numbers: the mid-layer is never told of a drive that is not ready.
Served(d) == \A p \in Present(d) : driveReady[p] = d[p]
SnapshotIsServed ==
  /\ Served(driveCurrent)
  /\ channelState \in {"READY", "PM_HOT_PLUG"} => Served(driveSaved)

\* The soft-reset timer runs exactly while a soft reset is waited for, so the
\* wait always ends; devInSRST then names the port that is waited for.
TimerArmedInReset ==
  /\ SRSTTimerThreshold # 0 <=> channelState \in {"IN_SRST", "PM_SRST_DEVICE"}
  /\ channelState = "PM_SRST_DEVICE" => devInSRST \in Ports

\* pmRegAccessInProgress is set exactly while the register read is queued: a
\* flag left behind would stop the polling of the port multiplier for good.
PollFlagMatchesQueue == pmRegAccessInProgress = pmCmdOutstanding

\* No command is in two queues, or twice in one: the lists are threaded
\* through the command itself (pNext, next_done).
AllQueues == IALChannelPendingCmdQueue \o commandsQueue \o scsi_cmnd_done
NoCommandTwice == Cardinality(Held) = Len(AllQueues)

\* The inductive invariant of IALChannelProofs: each part needs the others.
IInv ==
  /\ TypeOK
  /\ EdmaWorkHasChannel
  /\ SnapshotHasChannel
  /\ SnapshotIsServed
  /\ TimerArmedInReset
  /\ PollFlagMatchesQueue

\* A command leaves the parked queue and the EDMA queue only for the other or
\* for the list of completed commands: none is forgotten, whatever resets,
\* unplugs and timeouts do.
CommandsNeverVanish ==
  [][\A c \in Elems(IALChannelPendingCmdQueue) \cup Elems(commandsQueue) :
        c \in Held']_vars

\* When a drive leaves the saved snapshot, or another one takes its place, a
\* rescan that removes its target is scheduled in the same step, as long as
\* the hot-plug handler runs.
RemovalReported ==
  [][\A p \in Present(driveSaved) :
        driveSaved'[p] # driveSaved[p] /\ ~stopped
          => /\ Len(rescanWork') = Len(rescanWork) + 1
             /\ p \in rescanWork'[Len(rescanWork')].remove]_vars

\* Likewise a drive that appears in the saved snapshot is reported as added.
AdditionReported ==
  [][\A p \in Present(driveSaved)' :
        driveSaved'[p] # driveSaved[p] /\ ~stopped /\ bHotPlug
          => /\ Len(rescanWork') = Len(rescanWork) + 1
             /\ p \in rescanWork'[Len(rescanWork')].add]_vars

\* Once no event starts the initialisation over again, it ends: whatever the
\* drives and the port multiplier answer or fail to answer, the 500 ms timer
\* brings the channel to READY or NOT_CONNECTED, and it stays there.
NoNewReset == channelState' \in {"CONNECTED", "PM_HOT_PLUG"}
                => channelState' = channelState
EventuallySettled == <>[][NoNewReset]_vars => <>[](channelState \in Settled)

\* A parked command is always given back, by the end of the initialisation
\* or by the event that restarts it.
ParkedIsReleased ==
  \A c \in Cmds : c \in Elems(IALChannelPendingCmdQueue)
                    ~> c \notin Elems(IALChannelPendingCmdQueue)

DriverOpen == sataChannel /\ channelState \in {"READY", "PM_HOT_PLUG"}
DriverPromise == INSTANCE SataCommandQueue WITH holds <- Elems(commandsQueue),
                                                open <- DriverOpen

\* The IAL uses a channel of the core driver within what the driver promises
\* (SataCommandQueue, which SataEdma implements): commands enter it in READY and
\* PM_HOT_PLUG only, leave it one at a time, and every way out of these states
\* empties it in the same step, so that no initialisation meets a command of the
\* one before.
UsesDriverQueue == DriverPromise!Spec

=============================================================================
