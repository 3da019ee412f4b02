-------------------------- MODULE IALChannelProofs --------------------------
(***************************************************************************)
(* The channel of IALChannel keeps its type and its safety invariants for  *)
(* every number of ports, drives, commands and queue entries, every timer  *)
(* period and every combination of faults.                                 *)
(***************************************************************************)
EXTENDS IALChannel, SequenceTheorems, WellFoundedInduction, TLAPS

-----------------------------------------------------------------------------
(* Sequences and ports.                                                    *)

\* A nonempty set of ports has a smallest one, the one MinPort chooses.
LEMMA MinPortIn ==
  ASSUME NEW S \in SUBSET Ports, S # {}
  PROVE  MinPort(S) \in S
<1> DEFINE Less == {ss \in Nat \X Nat : ss[1] < ss[2]}
<1>1. S \subseteq Nat
  BY PortsAssumption
<1>2. IsWellFoundedOn(Less, Nat)
  BY NatLessThanWellFounded, Zenon DEF OpToRel
<1>3. PICK x \in S : \A y \in S : ~ (<<y, x>> \in Less)
  BY <1>1, <1>2, WFMin, Zenon
<1>4. ASSUME NEW y \in S PROVE x <= y
  <2>1. x \in Nat /\ y \in Nat
    BY <1>1
  <2>2. y < x => <<y, x>> \in Less
    BY <2>1
  <2>3. ~ (y < x)
    BY <1>3, <2>2, Zenon
  <2>4. QED
    BY <2>1, <2>3
<1>5. QED
  BY <1>4, Zenon DEF MinPort

\* What a concatenation, an added and a removed element do to the set of
\* commands of a queue.
LEMMA ElemsConcat ==
  ASSUME NEW S, NEW s \in Seq(S), NEW t \in Seq(S)
  PROVE  /\ s \o t \in Seq(S)
         /\ Elems(s \o t) = Elems(s) \cup Elems(t)
<1>1. /\ s \o t \in Seq(S)
      /\ Len(s \o t) = Len(s) + Len(t)
      /\ \A i \in 1 .. Len(s) + Len(t) :
           (s \o t)[i] = IF i <= Len(s) THEN s[i] ELSE t[i - Len(s)]
  BY ConcatProperties
<1>2. Len(s) \in Nat /\ Len(t) \in Nat
  BY LenProperties
<1>3. ASSUME NEW i \in 1 .. Len(s) PROVE (s \o t)[i] = s[i]
  BY <1>1, <1>2
<1>4. ASSUME NEW i \in 1 .. Len(t)
      PROVE  Len(s) + i \in 1 .. Len(s \o t) /\ (s \o t)[Len(s) + i] = t[i]
  BY <1>1, <1>2
<1>5. ASSUME NEW i \in 1 .. Len(s \o t)
      PROVE  (s \o t)[i] \in Elems(s) \cup Elems(t)
  BY <1>1, <1>2 DEF Elems
<1>6. 1 .. Len(s) \subseteq 1 .. Len(s \o t)
  BY <1>1, <1>2
<1>7. Elems(s) \subseteq Elems(s \o t)
  BY <1>3, <1>6 DEF Elems
<1>8. Elems(t) \subseteq Elems(s \o t)
  BY <1>4, Zenon DEF Elems
<1>9. Elems(s \o t) \subseteq Elems(s) \cup Elems(t)
  BY <1>5, Zenon DEF Elems
<1>10. QED
  BY <1>1, <1>7, <1>8, <1>9, Zenon

\* Appending a command to a queue adds it to the queue's set of commands.
LEMMA ElemsAppend ==
  ASSUME NEW S, NEW s \in Seq(S), NEW e \in S
  PROVE  /\ Append(s, e) \in Seq(S)
         /\ Elems(Append(s, e)) = Elems(s) \cup {e}
<1>1. /\ Append(s, e) \in Seq(S)
      /\ Len(Append(s, e)) = Len(s) + 1
      /\ \A i \in 1 .. Len(s) : Append(s, e)[i] = s[i]
      /\ Append(s, e)[Len(s) + 1] = e
  BY AppendProperties
<1>2. Len(s) \in Nat
  BY LenProperties
<1>3. 1 .. Len(Append(s, e)) = (1 .. Len(s)) \cup {Len(s) + 1}
  BY <1>1, <1>2
<1>4. QED
  BY <1>1, <1>3 DEF Elems

\* An empty queue holds no command.
LEMMA ElemsEmpty == Elems(<<>>) = {}
BY DEF Elems

-----------------------------------------------------------------------------
(* The building blocks.                                                    *)

\* mvFlushSCSICommandQueue moves every parked command to the done list.
LEMMA FlushMoves ==
  ASSUME TypeOK, NEW first \in Seq(Cmds), FlushSCSICommandQueue(first)
  PROVE  /\ IALChannelPendingCmdQueue' = <<>>
         /\ IALChannelPendingCmdQueue' \in Seq(Cmds)
         /\ scsi_cmnd_done' \in Seq(Cmds)
         /\ Elems(scsi_cmnd_done') = Elems(scsi_cmnd_done) \cup Elems(first)
                                       \cup Elems(IALChannelPendingCmdQueue)
<1>1. /\ scsi_cmnd_done \in Seq(Cmds)
      /\ IALChannelPendingCmdQueue \in Seq(Cmds)
  BY DEF TypeOK, QueueTypeOK
<1> DEFINE front == scsi_cmnd_done \o first
<1>2. front \in Seq(Cmds) /\ Elems(front) = Elems(scsi_cmnd_done) \cup Elems(first)
  BY <1>1, ElemsConcat, ZenonT(40)
<1>3. /\ IALChannelPendingCmdQueue' = <<>>
      /\ scsi_cmnd_done' = front \o IALChannelPendingCmdQueue
  BY DEF FlushSCSICommandQueue
<1> HIDE DEF front
<1>4. /\ front \o IALChannelPendingCmdQueue \in Seq(Cmds)
      /\ Elems(front \o IALChannelPendingCmdQueue)
           = Elems(front) \cup Elems(IALChannelPendingCmdQueue)
  <2>1. front \in Seq(Cmds)
    BY <1>2
  <2>2. IALChannelPendingCmdQueue \in Seq(Cmds)
    BY <1>1
  <2>3. QED
    BY <2>1, <2>2, ElemsConcat, ZenonT(60)
<1>5. <<>> \in Seq(Cmds)
  BY EmptySeq, Zenon
<1>6. QED
  BY <1>2, <1>3, <1>4, <1>5, Zenon

\* IALBusChangeNotifyEx schedules well-formed work.
LEMMA NotifyTyped ==
  ASSUME TypeOK, NEW remove \in SUBSET Ports, NEW add \in SUBSET Ports,
         IALBusChangeNotifyEx(remove, add)
  PROVE  rescanWork' \in Seq(RescanItems)
<1>1. rescanWork \in Seq(RescanItems)
  BY DEF TypeOK, HotTypeOK
<1>2. [remove |-> remove, add |-> add] \in RescanItems
  BY DEF RescanItems
<1>3. Append(rescanWork, [remove |-> remove, add |-> add]) \in Seq(RescanItems)
  BY <1>1, <1>2, AppendProperties, Zenon
<1>4. QED
  BY <1>1, <1>3, Zenon DEF IALBusChangeNotifyEx

\* The flushed snapshot is a snapshot, with no drive in it.
LEMMA NoDrivesTyped == NoDrives \in Drives /\ Present(NoDrives) = {}
BY DEF NoDrives, Drives, Present

\* A step that changes nothing keeps the invariant.
LEMMA StutterKeeps ==
  ASSUME IInv, UNCHANGED vars
  PROVE  IInv'
<1> USE DEF IInv, vars, stateVars, timerVars, queueVars, pollVars, scanVars, driveVars,
            hotVars
<1>1. StateTypeOK' /\ QueueTypeOK' /\ PollTypeOK' /\ TimerTypeOK'
  BY DEF TypeOK, StateTypeOK, QueueTypeOK, PollTypeOK, TimerTypeOK
<1>2. ScanTypeOK' /\ DriveTypeOK' /\ HotTypeOK'
  BY DEF TypeOK, ScanTypeOK, DriveTypeOK, HotTypeOK
<1>3. EdmaWorkHasChannel' /\ PollFlagMatchesQueue' /\ TimerArmedInReset'
  BY DEF EdmaWorkHasChannel, PollFlagMatchesQueue, TimerArmedInReset
<1>4. SnapshotHasChannel' /\ SnapshotIsServed'
  BY DEF SnapshotHasChannel, SnapshotIsServed, Served, Present
<1>5. QED
  BY <1>1, <1>2, <1>3, <1>4 DEF TypeOK

\* mvRestartChannel keeps the invariant.
LEMMA RestartKeeps ==
  ASSUME IInv, mvRestartChannel, ScanTypeOK'
  PROVE  IInv'
<1> USE DEF IInv
<1>1. commandsQueue \in Seq(Cmds) /\ <<>> \in Seq(Cmds)
  BY EmptySeq, Zenon DEF TypeOK, QueueTypeOK
<1>2. /\ IALChannelPendingCmdQueue' \in Seq(Cmds)
      /\ scsi_cmnd_done' \in Seq(Cmds)
  BY <1>1, FlushMoves, Zenon DEF mvRestartChannel
<1>3. /\ commandsQueue' = <<>>
      /\ pmCmdOutstanding' = FALSE
      /\ pmRegAccessInProgress' = FALSE
      /\ queueCommandsEnabled' = FALSE
  <2>1. CASE sataChannel
    BY <2>1 DEF mvRestartChannel, FlushDmaQueue, PollFlagMatchesQueue, TypeOK, PollTypeOK, StateTypeOK
  <2>2. CASE ~sataChannel
    BY <2>2 DEF mvRestartChannel, EdmaWorkHasChannel, PollFlagMatchesQueue, TypeOK, PollTypeOK, StateTypeOK
  <2>3. QED
    BY <2>1, <2>2
<1>4. TypeOK'
  <2>1. StateTypeOK' /\ PollTypeOK'
    BY <1>3 DEF TypeOK, StateTypeOK, PollTypeOK, mvRestartChannel, ChannelStates
  <2>2. TimerTypeOK'
    BY TimerAssumption DEF TimerTypeOK, mvRestartChannel, ClearChannelTimer
  <2>3. QueueTypeOK'
    BY <1>1, <1>2, <1>3 DEF QueueTypeOK
  <2>4. DriveTypeOK' /\ HotTypeOK'
    BY NoDrivesTyped DEF TypeOK, DriveTypeOK, HotTypeOK, mvRestartChannel
  <2>5. QED
    BY <2>1, <2>2, <2>3, <2>4 DEF TypeOK
<1>5. EdmaWorkHasChannel'
  BY <1>3 DEF EdmaWorkHasChannel
<1>6. SnapshotHasChannel'
  BY DEF SnapshotHasChannel, mvRestartChannel
<1>7. SnapshotIsServed'
  BY NoDrivesTyped DEF SnapshotIsServed, Served, Present, NoDrives, mvRestartChannel
<1>8. TimerArmedInReset'
  BY DEF TimerArmedInReset, mvRestartChannel, ClearChannelTimer
<1>9. PollFlagMatchesQueue'
  BY <1>3 DEF PollFlagMatchesQueue
<1>10. QED
  BY <1>4, <1>5, <1>6, <1>7, <1>8, <1>9

\* mvStopChannel keeps the invariant.
LEMMA StopKeeps ==
  ASSUME IInv, NEW saved \in Drives, mvStopChannel(saved), ScanTypeOK'
  PROVE  IInv'
<1> USE DEF IInv
<1>1. commandsQueue \in Seq(Cmds) /\ <<>> \in Seq(Cmds)
  BY EmptySeq, Zenon DEF TypeOK, QueueTypeOK
<1>2. /\ IALChannelPendingCmdQueue' \in Seq(Cmds)
      /\ scsi_cmnd_done' \in Seq(Cmds)
  BY <1>1, FlushMoves, Zenon DEF mvStopChannel
<1>3. /\ commandsQueue' = <<>>
      /\ pmCmdOutstanding' = FALSE
      /\ pmRegAccessInProgress' = FALSE
  <2>1. CASE sataChannel
    BY <2>1 DEF mvStopChannel, FlushDmaQueue, PollFlagMatchesQueue, TypeOK, PollTypeOK
  <2>2. CASE ~sataChannel
    BY <2>2 DEF mvStopChannel, EdmaWorkHasChannel, PollFlagMatchesQueue, TypeOK,
                PollTypeOK, StateTypeOK
  <2>3. QED
    BY <2>1, <2>2
<1>4. rescanWork' \in Seq(RescanItems)
  <2>1. Present(saved) \in SUBSET Ports /\ {} \in SUBSET Ports
    BY DEF Present
  <2>2. QED
    BY <2>1, NotifyTyped, Zenon DEF mvStopChannel, TypeOK, HotTypeOK
<1>5. SRSTTimerThreshold' = 0 /\ SRSTTimerValue' \in 0..SrstTimeout
  BY TimerAssumption
     DEF mvStopChannel, ClearChannelTimer, TimerArmedInReset, TypeOK, TimerTypeOK,
         timerVars
<1>6. TypeOK'
  <2>1. StateTypeOK' /\ PollTypeOK'
    BY <1>3 DEF TypeOK, StateTypeOK, PollTypeOK, mvStopChannel, ChannelStates,
                DeviceTypes
  <2>2. TimerTypeOK'
    BY <1>5 DEF TimerTypeOK
  <2>3. QueueTypeOK'
    BY <1>1, <1>2, <1>3 DEF QueueTypeOK
  <2>4. DriveTypeOK' /\ HotTypeOK'
    BY <1>4, NoDrivesTyped
       DEF TypeOK, DriveTypeOK, HotTypeOK, mvStopChannel, DrivesInfoFlushAll
  <2>5. QED
    BY <2>1, <2>2, <2>3, <2>4 DEF TypeOK
<1>7. EdmaWorkHasChannel'
  BY <1>3 DEF EdmaWorkHasChannel, mvStopChannel
<1>8. SnapshotHasChannel'
  BY DEF SnapshotHasChannel, mvStopChannel, DrivesInfoFlushAll
<1>9. SnapshotIsServed'
  BY NoDrivesTyped DEF SnapshotIsServed, Served, Present, NoDrives, mvStopChannel,
                       DrivesInfoFlushAll
<1>10. TimerArmedInReset'
  BY <1>5 DEF TimerArmedInReset, mvStopChannel
<1>11. PollFlagMatchesQueue'
  BY <1>3 DEF PollFlagMatchesQueue
<1>12. QED
  BY <1>6, <1>7, <1>8, <1>9, <1>10, <1>11

\* The two snapshots yield sets of ports to remove and to add.
LEMMA RescanParamsTyped ==
  ASSUME NEW saved \in Drives, NEW current \in Drives
  PROVE  /\ DrivesToRemove(saved, current) \in SUBSET Ports
         /\ DrivesToAdd(saved, current) \in SUBSET Ports
BY DEF DrivesToRemove, DrivesToAdd, Present

\* The end of the initialisation, good or bad, keeps the invariant, if the SAL
\* serves the drives found.
LEMMA ConfigKeeps ==
  ASSUME IInv, channelState \in {"IN_SRST", "PM_SRST_DEVICE"},
         NEW type \in DeviceTypes,
         NEW saved \in Drives, NEW current \in Drives, NEW ready \in Drives,
         \A p \in Present(current) : ready[p] = current[p],
         ConfigChannelDMA(type, saved, current, ready), ScanTypeOK'
  PROVE  IInv'
<1> USE DEF IInv
<1>1. CASE mvStopChannel(saved)
  BY <1>1, StopKeeps
<1>2. CASE SetChannelReady(saved, current, ready) /\ deviceType' = type
  <2>1. commandsQueue = <<>> /\ pmCmdOutstanding = FALSE /\ sataChannel = TRUE
    BY DEF EdmaWorkHasChannel, SnapshotHasChannel, TypeOK, PollTypeOK, StateTypeOK
  <2>2. /\ IALChannelPendingCmdQueue' \in Seq(Cmds)
        /\ scsi_cmnd_done' \in Seq(Cmds)
    <3>1. <<>> \in Seq(Cmds)
      BY EmptySeq, Zenon
    <3>2. QED
      BY <1>2, <3>1, FlushMoves, Zenon DEF SetChannelReady
  <2>3. rescanWork' \in Seq(RescanItems)
    BY <1>2, RescanParamsTyped, NotifyTyped, Zenon
       DEF SetChannelReady, TypeOK, HotTypeOK
  <2>4. TypeOK'
    <3>1. StateTypeOK' /\ PollTypeOK'
      BY <1>2 DEF TypeOK, StateTypeOK, PollTypeOK, SetChannelReady, ChannelStates
    <3>2. TimerTypeOK'
      BY <1>2, TimerAssumption DEF TimerTypeOK, SetChannelReady, ClearChannelTimer
    <3>3. QueueTypeOK'
      BY <1>2, <2>2 DEF TypeOK, QueueTypeOK, SetChannelReady
    <3>4. DriveTypeOK' /\ HotTypeOK'
      BY <1>2, <2>3, NoDrivesTyped
         DEF TypeOK, DriveTypeOK, HotTypeOK, SetChannelReady, DrivesInfoSaveAll
    <3>5. QED
      BY <3>1, <3>2, <3>3, <3>4 DEF TypeOK
  <2>5. EdmaWorkHasChannel'
    BY <1>2, <2>1 DEF EdmaWorkHasChannel, SetChannelReady
  <2>6. SnapshotHasChannel'
    BY <1>2, <2>1 DEF SnapshotHasChannel, SetChannelReady
  <2>7. SnapshotIsServed'
    BY <1>2, NoDrivesTyped
       DEF SnapshotIsServed, Served, Present, NoDrives, SetChannelReady,
           DrivesInfoSaveAll
  <2>8. TimerArmedInReset'
    BY <1>2 DEF TimerArmedInReset, SetChannelReady, ClearChannelTimer
  <2>9. PollFlagMatchesQueue'
    BY <1>2, <2>1 DEF PollFlagMatchesQueue, SetChannelReady
  <2>10. QED
    BY <2>4, <2>5, <2>6, <2>7, <2>8, <2>9
<1>3. QED
  BY <1>1, <1>2 DEF ConfigChannelDMA

\* Marking a drive ready in the snapshot and for the SAL.
LEMMA DriveUpdates ==
  ASSUME IInv, NEW q \in Ports, NEW s \in Serials
  PROVE  /\ SetDriveReady(driveCurrent, q, s) \in Drives
         /\ SetDriveReady(driveReady, q, s) \in Drives
         /\ \A p \in Present(SetDriveReady(driveCurrent, q, s)) :
              SetDriveReady(driveReady, q, s)[p] = SetDriveReady(driveCurrent, q, s)[p]
BY DEF IInv, TypeOK, DriveTypeOK, Drives, SetDriveReady, Present, SnapshotIsServed,
       Served

\* Forgetting a drive that could not be initialised.
LEMMA DriveFlushed ==
  ASSUME IInv, NEW q \in Ports
  PROVE  /\ FlushSingleDrive(driveSaved, q) \in Drives
         /\ FlushSingleDrive(driveCurrent, q) \in Drives
         /\ \A p \in Present(FlushSingleDrive(driveCurrent, q)) :
              driveReady[p] = FlushSingleDrive(driveCurrent, q)[p]
BY DEF IInv, TypeOK, DriveTypeOK, Drives, FlushSingleDrive, Present,
       SnapshotIsServed, Served

\* While a soft reset is waited for the timer stays within its threshold.
LEMMA TimerInRange ==
  ASSUME IInv, channelState \in {"IN_SRST", "PM_SRST_DEVICE"}
  PROVE  /\ SRSTTimerThreshold = SrstTimeout
         /\ ~Expired => TimerNow \in 0..SrstTimeout
         /\ 1 \in 0..SrstTimeout
BY TimerAssumption DEF IInv, TypeOK, TimerTypeOK, TimerArmedInReset, TimerNow, Expired

\* A step that only lets the timer run on keeps the invariant.
LEMMA WaitKeeps ==
  ASSUME IInv, channelState \in {"IN_SRST", "PM_SRST_DEVICE"}, ~Expired,
         SRSTTimerValue' = TimerNow,
         UNCHANGED <<stateVars, SRSTTimerThreshold, queueVars, pollVars, scanVars,
                     driveVars, hotVars>>
  PROVE  IInv'
<1> USE DEF IInv, stateVars, queueVars, pollVars, scanVars, driveVars, hotVars
<1>1. TypeOK'
  <2>1. TimerTypeOK'
    BY TimerInRange DEF TypeOK, TimerTypeOK
  <2>2. StateTypeOK' /\ QueueTypeOK' /\ PollTypeOK'
    BY DEF TypeOK, StateTypeOK, QueueTypeOK, PollTypeOK
  <2>3. ScanTypeOK' /\ DriveTypeOK' /\ HotTypeOK'
    BY DEF TypeOK, ScanTypeOK, DriveTypeOK, HotTypeOK
  <2>4. QED
    BY <2>1, <2>2, <2>3 DEF TypeOK
<1>2. EdmaWorkHasChannel' /\ PollFlagMatchesQueue'
  BY DEF EdmaWorkHasChannel, PollFlagMatchesQueue
<1>3. SnapshotHasChannel' /\ SnapshotIsServed'
  BY DEF SnapshotHasChannel, SnapshotIsServed, Served, Present
<1>4. TimerArmedInReset'
  BY DEF TimerArmedInReset
<1>5. QED
  BY <1>1, <1>2, <1>3, <1>4

\* mvInitPMDevice after a port is dealt with keeps the invariant.
LEMMA NextPortKeeps ==
  ASSUME IInv, channelState = "PM_SRST_DEVICE",
         NEW saved \in Drives, NEW current \in Drives, NEW ready \in Drives,
         \A p \in Present(current) : ready[p] = current[p],
         PMNextPort(saved, current, ready), UNCHANGED pmAsyncNotifyEnabled
  PROVE  IInv'
<1> USE DEF IInv
<1> DEFINE devs == PMdevsToInit \ {devInSRST}
           next == SrstFrom(devs, devInSRST)
<1>1. /\ devInSRST \in Ports
      /\ devs \in SUBSET Ports
      /\ next \in SUBSET Ports
      /\ pmAsyncNotifyEnabled \in BOOLEAN
  BY DEF TimerArmedInReset, TypeOK, ScanTypeOK, SrstFrom
<1>2. next # {} => MinPort(next) \in Ports
  BY <1>1, MinPortIn
<1>3. "PM" \in DeviceTypes
  BY DEF DeviceTypes
<1>4. CASE /\ PMdevsToInit' = {} /\ UNCHANGED devInSRST
           /\ ConfigChannelDMA("PM", saved, current, ready)
  <2>1. ScanTypeOK'
    BY <1>1, <1>4 DEF ScanTypeOK
  <2>2. QED
    BY <1>3, <1>4, <2>1, ConfigKeeps
<1>5. CASE /\ next # {} /\ PMdevsToInit' = devs /\ devInSRST' = MinPort(next)
           /\ IF Expired THEN ConfigChannelDMA("PM", saved, current, ready)
                         ELSE mvStopChannel(saved)
  <2>1. ScanTypeOK'
    BY <1>1, <1>2, <1>5 DEF ScanTypeOK
  <2>2. QED
    BY <1>3, <1>5, <2>1, ConfigKeeps, StopKeeps
<1>6. ASSUME /\ PMdevsToInit' \subseteq Ports /\ devInSRST' \in Ports
             /\ SRSTTimerThreshold' = SrstTimeout
             /\ SRSTTimerValue' \in 0..SrstTimeout
             /\ driveSaved' = saved /\ driveCurrent' = current /\ driveReady' = ready
             /\ UNCHANGED <<stateVars, queueVars, pollVars, hotVars>>
      PROVE  IInv'
  <2> USE <1>6 DEF stateVars, queueVars, pollVars, hotVars
  <2>1. TypeOK'
    <3>1. StateTypeOK' /\ QueueTypeOK' /\ PollTypeOK'
      BY DEF TypeOK, StateTypeOK, QueueTypeOK, PollTypeOK
    <3>2. ScanTypeOK' /\ DriveTypeOK' /\ HotTypeOK'
      BY <1>1 DEF TypeOK, ScanTypeOK, DriveTypeOK, HotTypeOK
    <3>3. TimerTypeOK'
      BY DEF TimerTypeOK
    <3>4. QED
      BY <3>1, <3>2, <3>3 DEF TypeOK
  <2>2. EdmaWorkHasChannel' /\ PollFlagMatchesQueue'
    BY DEF EdmaWorkHasChannel, PollFlagMatchesQueue
  <2>3. SnapshotHasChannel' /\ SnapshotIsServed'
    BY DEF SnapshotHasChannel, SnapshotIsServed, Served, Present
  <2>4. TimerArmedInReset'
    BY TimerAssumption DEF TimerArmedInReset
  <2>5. QED
    BY <2>1, <2>2, <2>3, <2>4
<1>7. CASE /\ ~Expired /\ PMdevsToInit' = {} /\ SRSTTimerValue' = TimerNow
           /\ driveSaved' = saved /\ driveCurrent' = current /\ driveReady' = ready
           /\ UNCHANGED <<stateVars, SRSTTimerThreshold, queueVars, pollVars,
                          devInSRST, hotVars>>
  BY <1>1, <1>6, <1>7, TimerInRange
<1>8. CASE /\ next # {} /\ PMdevsToInit' = devs /\ devInSRST' = MinPort(next)
           /\ SetChannelTimer(SrstTimeout)
           /\ driveSaved' = saved /\ driveCurrent' = current /\ driveReady' = ready
           /\ UNCHANGED <<stateVars, queueVars, pollVars, hotVars>>
  BY <1>1, <1>2, <1>6, <1>8, TimerInRange DEF SetChannelTimer
<1>9. QED
  BY <1>4, <1>5, <1>7, <1>8 DEF PMNextPort

-----------------------------------------------------------------------------
(* The actions.                                                            *)

\* A tick of the timer keeps the invariant, whatever handler it runs and
\* whatever the hardware answers.
LEMMA TickKeeps ==
  ASSUME IInv, mvIALTimerCallback
  PROVE  IInv'
<1> USE DEF IInv
<1>1. /\ driveSaved \in Drives /\ driveCurrent \in Drives /\ driveReady \in Drives
      /\ \A p \in Present(driveCurrent) : driveReady[p] = driveCurrent[p]
      /\ 0 \in Ports
      /\ ScanTypeOK
      /\ "PM" \in DeviceTypes /\ "ATA_DISK" \in DeviceTypes
  BY PortsAssumption DEF TypeOK, DriveTypeOK, SnapshotIsServed, Served, DeviceTypes
<1>2. UNCHANGED scanVars => ScanTypeOK'
  BY <1>1 DEF ScanTypeOK, scanVars
<1>3. channelState = "PM_SRST_DEVICE" => devInSRST \in Ports
  BY DEF TimerArmedInReset
<1>4. CASE ChannelNotConnectedStateHandler
  <2>1. ~sataChannel
    BY <1>4 DEF ChannelNotConnectedStateHandler, SnapshotHasChannel
  <2>2. UNCHANGED vars
    BY <1>4, <2>1 DEF ChannelNotConnectedStateHandler, vars, stateVars, timerVars,
                      queueVars, pollVars, scanVars, driveVars, hotVars
  <2>3. QED
    BY <2>2, StutterKeeps
<1>5. CASE ConnectedAllocFails
  <2> USE <1>5 DEF ConnectedAllocFails, queueVars, pollVars, scanVars, hotVars
  <2>1. StateTypeOK' /\ QueueTypeOK' /\ PollTypeOK'
    BY DEF TypeOK, StateTypeOK, QueueTypeOK, PollTypeOK, ChannelStates
  <2>2. ScanTypeOK' /\ DriveTypeOK' /\ HotTypeOK'
    BY NoDrivesTyped DEF TypeOK, ScanTypeOK, DriveTypeOK, HotTypeOK, DrivesInfoFlushAll
  <2>3. TimerTypeOK'
    BY TimerAssumption DEF TimerTypeOK, ClearChannelTimer
  <2>4. EdmaWorkHasChannel' /\ PollFlagMatchesQueue'
    BY DEF EdmaWorkHasChannel, PollFlagMatchesQueue
  <2>5. SnapshotHasChannel' /\ SnapshotIsServed'
    BY NoDrivesTyped DEF SnapshotHasChannel, SnapshotIsServed, Served, Present,
                         DrivesInfoFlushAll
  <2>6. TimerArmedInReset'
    BY DEF TimerArmedInReset, ClearChannelTimer
  <2>7. QED
    BY <2>1, <2>2, <2>3, <2>4, <2>5, <2>6 DEF TypeOK
<1>6. CASE ConnectedStartsSRST
  <2> USE <1>6 DEF ConnectedStartsSRST, scanVars, driveVars, hotVars
  <2>1. StateTypeOK' /\ PollTypeOK'
    BY DEF TypeOK, StateTypeOK, PollTypeOK, ChannelStates, DeviceTypes
  <2>2. QueueTypeOK'
    BY EmptySeq DEF TypeOK, QueueTypeOK
  <2>3. ScanTypeOK' /\ DriveTypeOK' /\ HotTypeOK'
    BY DEF TypeOK, ScanTypeOK, DriveTypeOK, HotTypeOK
  <2>4. TimerTypeOK'
    BY TimerAssumption DEF TimerTypeOK, SetChannelTimer
  <2>5. EdmaWorkHasChannel'
    BY DEF EdmaWorkHasChannel
  <2>6. PollFlagMatchesQueue'
    <3>1. pmCmdOutstanding = FALSE
      BY DEF EdmaWorkHasChannel, TypeOK, PollTypeOK
    <3>2. QED
      BY <3>1 DEF PollFlagMatchesQueue
  <2>7. SnapshotHasChannel' /\ SnapshotIsServed'
    BY DEF SnapshotHasChannel, SnapshotIsServed, Served, Present
  <2>8. TimerArmedInReset'
    BY TimerAssumption DEF TimerArmedInReset, SetChannelTimer
  <2>9. QED
    BY <2>1, <2>2, <2>3, <2>4, <2>5, <2>6, <2>7, <2>8 DEF TypeOK
<1>7. CASE InSrstBusy
  <2>1. CASE Expired
    BY <1>1, <1>2, <1>7, <2>1, StopKeeps DEF InSrstBusy
  <2>2. CASE ~Expired
    BY <1>7, <2>2, WaitKeeps DEF InSrstBusy
  <2>3. QED
    BY <2>1, <2>2
<1>8. ASSUME NEW s \in Serials, InSrstDiskReady(s) PROVE IInv'
  BY <1>1, <1>2, <1>8, DriveUpdates, ConfigKeeps DEF InSrstDiskReady
<1>9. CASE InSrstDiskFails
  BY <1>1, <1>2, <1>9, DriveFlushed, StopKeeps DEF InSrstDiskFails
<1>10. CASE InSrstUnsupported
  BY <1>1, <1>2, <1>10, StopKeeps DEF InSrstUnsupported
<1>11. CASE InSrstPMFails
  <2>1. ScanTypeOK'
    BY <1>1, <1>11 DEF InSrstPMFails, ScanTypeOK
  <2>2. QED
    BY <1>1, <1>11, <2>1, StopKeeps DEF InSrstPMFails
<1>12. ASSUME NEW up \in SUBSET Ports, InSrstPMSpinsUp(up) PROVE IInv'
  <2> USE <1>12
  <2>1. channelState = "IN_SRST" /\ pmAsyncNotifyEnabled' \in BOOLEAN
    BY DEF InSrstPMSpinsUp
  <2>2. CASE /\ SrstFrom(up, 0) # {} /\ PMdevsToInit' = up /\ devInSRST' = MinPort(up)
             /\ channelState' = "PM_SRST_DEVICE" /\ deviceType' = "PM"
             /\ SetChannelTimer(SrstTimeout)
             /\ UNCHANGED <<sataChannel, queueCommandsEnabled, queueVars, pollVars,
                            driveVars, hotVars>>
    <3> USE <2>1, <2>2 DEF queueVars, pollVars, driveVars, hotVars
    <3>1. devInSRST' \in Ports
      BY MinPortIn DEF SrstFrom
    <3>2. StateTypeOK' /\ QueueTypeOK' /\ PollTypeOK'
      BY <1>1 DEF TypeOK, StateTypeOK, QueueTypeOK, PollTypeOK, ChannelStates
    <3>3. ScanTypeOK' /\ DriveTypeOK' /\ HotTypeOK'
      BY <3>1 DEF TypeOK, ScanTypeOK, DriveTypeOK, HotTypeOK
    <3>4. TimerTypeOK'
      BY TimerAssumption DEF TimerTypeOK, SetChannelTimer
    <3>5. EdmaWorkHasChannel' /\ PollFlagMatchesQueue'
      BY DEF EdmaWorkHasChannel, PollFlagMatchesQueue
    <3>6. SnapshotHasChannel' /\ SnapshotIsServed'
      BY DEF SnapshotHasChannel, SnapshotIsServed, Served, Present
    <3>7. TimerArmedInReset'
      BY <3>1, TimerAssumption DEF TimerArmedInReset, SetChannelTimer
    <3>8. QED
      BY <3>2, <3>3, <3>4, <3>5, <3>6, <3>7 DEF TypeOK
  <2>3. CASE /\ PMdevsToInit' = {} /\ devInSRST' = NoPort
             /\ ConfigChannelDMA("PM", driveSaved, driveCurrent, driveReady)
    <3>1. ScanTypeOK'
      BY <2>1, <2>3 DEF ScanTypeOK
    <3>2. QED
      BY <1>1, <2>1, <2>3, <3>1, ConfigKeeps
  <2>4. CASE /\ PMdevsToInit' = up /\ devInSRST' \in up \cup {NoPort}
             /\ mvStopChannel(driveSaved)
    <3>1. ScanTypeOK'
      BY <2>1, <2>4 DEF ScanTypeOK
    <3>2. QED
      BY <1>1, <2>4, <3>1, StopKeeps
  <2>5. QED
    BY <2>2, <2>3, <2>4 DEF InSrstPMSpinsUp
<1>13. CASE PMSrstBusy
  BY <1>13, WaitKeeps DEF PMSrstBusy
<1>14. CASE PMSrstPortSkipped
  BY <1>1, <1>14, NextPortKeeps DEF PMSrstPortSkipped
<1>15. ASSUME NEW s \in Serials, PMSrstPortReady(s) PROVE IInv'
  BY <1>1, <1>3, <1>15, DriveUpdates, NextPortKeeps DEF PMSrstPortReady
<1>16. CASE PMSrstPortFails
  BY <1>1, <1>3, <1>16, DriveFlushed, NextPortKeeps DEF PMSrstPortFails
<1>17. CASE PMSrstLinkCheckFails
  <2>1. ScanTypeOK'
    BY <1>1, <1>17 DEF PMSrstLinkCheckFails, ScanTypeOK
  <2>2. QED
    BY <1>1, <1>17, <2>1, ConfigKeeps, StopKeeps DEF PMSrstLinkCheckFails
<1>18. CASE PMSrstReconnected
  <2>1. ScanTypeOK'
    BY <1>1, <1>18 DEF PMSrstReconnected, ScanTypeOK
  <2>2. QED
    BY <1>18, <2>1, RestartKeeps DEF PMSrstReconnected
<1>19. CASE ChannelReadyStateHandler
  <2> USE <1>19 DEF ChannelReadyStateHandler, QueuePMAccessRegisterCommand,
                    stateVars, timerVars, queueVars, scanVars, driveVars, hotVars, pollVars
  <2>1. PollTypeOK'
    <3>1. /\ pmRegPollCounter \in 0..(PollPeriod - 1)
          /\ NextPollCounter \in 0..(PollPeriod - 1)
      BY PollAssumption DEF TypeOK, PollTypeOK, NextPollCounter
    <3>2. pmRegPollCounter' \in 0..(PollPeriod - 1)
      BY <3>1
    <3>3. pmCmdOutstanding' \in BOOLEAN /\ pmRegAccessInProgress' \in BOOLEAN
      BY Zenon DEF TypeOK, PollTypeOK
    <3>4. QED
      BY <3>2, <3>3 DEF PollTypeOK
  <2>2. StateTypeOK' /\ QueueTypeOK' /\ TimerTypeOK'
    BY DEF TypeOK, StateTypeOK, QueueTypeOK, TimerTypeOK
  <2>3. ScanTypeOK' /\ DriveTypeOK' /\ HotTypeOK'
    BY DEF TypeOK, ScanTypeOK, DriveTypeOK, HotTypeOK
  <2>4. EdmaWorkHasChannel' /\ PollFlagMatchesQueue'
    BY DEF EdmaWorkHasChannel, PollFlagMatchesQueue, CanQueue
  <2>5. SnapshotHasChannel' /\ SnapshotIsServed'
    BY DEF SnapshotHasChannel, SnapshotIsServed, Served, Present
  <2>6. TimerArmedInReset'
    BY DEF TimerArmedInReset
  <2>7. QED
    BY <2>1, <2>2, <2>3, <2>4, <2>5, <2>6 DEF TypeOK
<1>20. CASE ChannelPMHotPlugStateHandler
  BY <1>2, <1>20, RestartKeeps DEF ChannelPMHotPlugStateHandler
<1>21. QED
  BY <1>4, <1>5, <1>6, <1>7, <1>8, <1>9, <1>10, <1>11, <1>12, <1>13, <1>14, <1>15,
     <1>16, <1>17, <1>18, <1>19, <1>20 DEF mvIALTimerCallback

\* The events of the interrupt handler keep the invariant.
LEMMA EventKeeps ==
  ASSUME IInv,
         \/ RestartChannel \/ CableDisconnect \/ mvPMHotPlugDetected \/ EdmaDisabled
         \/ \E changed \in SUBSET Ports : PMCommandCompletionCB(changed)
  PROVE  IInv'
<1> USE DEF IInv
<1>1. UNCHANGED scanVars => ScanTypeOK'
  BY DEF TypeOK, ScanTypeOK, scanVars
<1>2. driveSaved \in Drives
  BY DEF TypeOK, DriveTypeOK
<1>3. CASE RestartChannel
  BY <1>1, <1>3, RestartKeeps DEF RestartChannel
<1>4. CASE CableDisconnect
  BY <1>1, <1>2, <1>4, StopKeeps DEF CableDisconnect
<1>5. CASE mvPMHotPlugDetected
  BY <1>1, <1>5, RestartKeeps, StutterKeeps DEF mvPMHotPlugDetected
<1>6. CASE EdmaDisabled
  <2> USE <1>6 DEF EdmaDisabled, timerVars, queueVars, pollVars, scanVars, driveVars,
                   hotVars
  <2>1. StateTypeOK' /\ QueueTypeOK' /\ PollTypeOK' /\ TimerTypeOK'
    BY DEF TypeOK, StateTypeOK, QueueTypeOK, PollTypeOK, TimerTypeOK
  <2>2. ScanTypeOK' /\ DriveTypeOK' /\ HotTypeOK'
    BY DEF TypeOK, ScanTypeOK, DriveTypeOK, HotTypeOK
  <2>3. EdmaWorkHasChannel' /\ PollFlagMatchesQueue' /\ TimerArmedInReset'
    BY DEF EdmaWorkHasChannel, PollFlagMatchesQueue, TimerArmedInReset
  <2>4. SnapshotHasChannel' /\ SnapshotIsServed'
    BY DEF SnapshotHasChannel, SnapshotIsServed, Served, Present
  <2>5. QED
    BY <2>1, <2>2, <2>3, <2>4 DEF TypeOK
<1>7. ASSUME NEW changed \in SUBSET Ports, PMCommandCompletionCB(changed)
      PROVE  IInv'
  <2> USE <1>7 DEF PMCommandCompletionCB, timerVars, queueVars, driveVars, hotVars
  <2>1. /\ sataChannel /\ channelState \in {"READY", "PM_HOT_PLUG"}
        /\ channelState' \in {"READY", "PM_HOT_PLUG"}
        /\ PMdevsToInit' \subseteq Ports
    BY DEF EdmaWorkHasChannel, TypeOK, ScanTypeOK
  <2>2. StateTypeOK' /\ QueueTypeOK' /\ PollTypeOK' /\ TimerTypeOK'
    BY <2>1 DEF TypeOK, StateTypeOK, QueueTypeOK, PollTypeOK, TimerTypeOK, ChannelStates
  <2>3. ScanTypeOK' /\ DriveTypeOK' /\ HotTypeOK'
    BY <2>1 DEF TypeOK, ScanTypeOK, DriveTypeOK, HotTypeOK
  <2>4. EdmaWorkHasChannel' /\ PollFlagMatchesQueue'
    BY <2>1 DEF EdmaWorkHasChannel, PollFlagMatchesQueue
  <2>5. TimerArmedInReset'
    BY <2>1 DEF TimerArmedInReset
  <2>6. SnapshotHasChannel' /\ SnapshotIsServed'
    BY <2>1 DEF SnapshotHasChannel, SnapshotIsServed, Served, Present
  <2>7. QED
    BY <2>2, <2>3, <2>4, <2>5, <2>6 DEF TypeOK
<1>8. QED
  BY <1>3, <1>4, <1>5, <1>6, <1>7

\* Taking one command out of a queue leaves all the others.
LEMMA WithoutIndexKeeps ==
  ASSUME NEW S, NEW s \in Seq(S), NEW i \in 1..Len(s)
  PROVE  /\ WithoutIndex(s, i) \in Seq(S)
         /\ Elems(s) \subseteq Elems(WithoutIndex(s, i)) \cup {s[i]}
         /\ Elems(WithoutIndex(s, i)) \subseteq Elems(s)
<1> DEFINE front == SubSeq(s, 1, i - 1)
           back  == SubSeq(s, i + 1, Len(s))
<1>1. Len(s) \in Nat /\ \A k \in 1..Len(s) : s[k] \in S
  BY LenProperties, ElementOfSeq
<1>2. front \in Seq(S) /\ back \in Seq(S)
  BY <1>1, SubSeqProperties
<1>3. /\ Len(front) = i - 1
      /\ \A k \in 1..(i - 1) : front[k] = s[k]
  BY <1>1, SubSeqProperties
<1>4. /\ Len(back) = Len(s) - i
      /\ \A k \in 1..(Len(s) - i) : back[k] = s[k + i]
  BY <1>1, SubSeqProperties
<1>5. /\ front \o back \in Seq(S)
      /\ Elems(front \o back) = Elems(front) \cup Elems(back)
  BY <1>2, ElemsConcat, ZenonT(40)
<1>6. ASSUME NEW k \in 1..Len(s), k # i
      PROVE  s[k] \in Elems(front) \cup Elems(back)
  <2>1. CASE k < i
    <3>1. k \in 1..Len(front) /\ front[k] = s[k]
      BY <1>1, <1>3, <2>1
    <3>2. QED
      BY <3>1, Zenon DEF Elems
  <2>2. CASE k > i
    <3>1. k - i \in 1..(Len(s) - i) /\ (k - i) + i = k
      BY <1>1, <2>2
    <3>2. k - i \in 1..Len(back)
      BY <1>4, <3>1, Zenon
    <3>3. back[k - i] = s[k]
      BY <1>4, <3>1, Zenon
    <3>4. QED
      BY <3>2, <3>3, Zenon DEF Elems
  <2>3. QED
    BY <1>1, <1>6, <2>1, <2>2
<1>7. Elems(s) \subseteq Elems(front) \cup Elems(back) \cup {s[i]}
  BY <1>6, Zenon DEF Elems
<1>8. ASSUME NEW k \in 1..Len(front) PROVE front[k] \in Elems(s)
  <2>1. k \in 1..(i - 1) /\ k \in 1..Len(s)
    BY <1>1, <1>3
  <2>2. QED
    BY <1>3, <2>1, Zenon DEF Elems
<1>9. ASSUME NEW k \in 1..Len(back) PROVE back[k] \in Elems(s)
  <2>1. k \in 1..(Len(s) - i) /\ k + i \in 1..Len(s)
    BY <1>1, <1>4
  <2>2. QED
    BY <1>4, <2>1, Zenon DEF Elems
<1>10. Elems(front) \cup Elems(back) \subseteq Elems(s)
  BY <1>8, <1>9, Zenon DEF Elems
<1>11. QED
  BY <1>5, <1>7, <1>10, Zenon DEF WithoutIndex

\* The commands a step adds to or takes from the queues keep the invariant:
\* the EDMA queue grows only where it accepts commands.
LEMMA QueueStepKeeps ==
  ASSUME IInv, QueueTypeOK',
         commandsQueue = <<>> => commandsQueue' = <<>> \/ queueCommandsEnabled,
         UNCHANGED <<stateVars, timerVars, pollVars, scanVars, driveVars, hotVars>>
  PROVE  IInv'
<1> USE DEF IInv, stateVars, timerVars, pollVars, scanVars, driveVars, hotVars
<1>1. StateTypeOK' /\ PollTypeOK' /\ TimerTypeOK'
  BY DEF TypeOK, StateTypeOK, PollTypeOK, TimerTypeOK
<1>2. ScanTypeOK' /\ DriveTypeOK' /\ HotTypeOK'
  BY DEF TypeOK, ScanTypeOK, DriveTypeOK, HotTypeOK
<1>3. EdmaWorkHasChannel' /\ PollFlagMatchesQueue' /\ TimerArmedInReset'
  BY DEF EdmaWorkHasChannel, PollFlagMatchesQueue, TimerArmedInReset
<1>4. SnapshotHasChannel' /\ SnapshotIsServed'
  BY DEF SnapshotHasChannel, SnapshotIsServed, Served, Present
<1>5. QED
  BY <1>1, <1>2, <1>3, <1>4 DEF TypeOK

\* What SalExecute does with a command: it is done or in the EDMA queue.
LEMMA SalExecuteMoves ==
  ASSUME IInv, NEW c \in Cmds, NEW p \in Ports, SalExecute(c, p)
  PROVE  /\ QueueTypeOK'
         /\ commandsQueue' = commandsQueue \/ queueCommandsEnabled
         /\ Elems(commandsQueue) \subseteq Elems(commandsQueue')
         /\ UNCHANGED IALChannelPendingCmdQueue
<1>1. /\ commandsQueue \in Seq(Cmds) /\ scsi_cmnd_done \in Seq(Cmds)
      /\ IALChannelPendingCmdQueue \in Seq(Cmds)
  BY DEF IInv, TypeOK, QueueTypeOK
<1>2. Append(scsi_cmnd_done, c) \in Seq(Cmds)
  BY <1>1, ElemsAppend, Zenon
<1>3. /\ Append(commandsQueue, c) \in Seq(Cmds)
      /\ Elems(Append(commandsQueue, c)) = Elems(commandsQueue) \cup {c}
  BY <1>1, ElemsAppend
<1>4. QED
  BY <1>1, <1>2, <1>3, Zenon DEF SalExecute, QueueTypeOK, CanQueue

\* Submission and completion of commands keep the invariant.
LEMMA CommandKeeps ==
  ASSUME IInv,
         \/ \E i \in 1..Len(commandsQueue) : CommandCompletes(i)
         \/ \E c \in Cmds \ Held, p \in Ports : mvExecuteScsiCommand(c, p)
         \/ \E c \in Cmds \ Held, p \in Ports : SendSmartCommand(c, p)
         \/ TakeDoneList
  PROVE  IInv'
<1>1. /\ commandsQueue \in Seq(Cmds) /\ scsi_cmnd_done \in Seq(Cmds)
      /\ IALChannelPendingCmdQueue \in Seq(Cmds)
      /\ <<>> \in Seq(Cmds)
  BY EmptySeq, Zenon DEF IInv, TypeOK, QueueTypeOK
<1>2. ASSUME NEW i \in 1..Len(commandsQueue), CommandCompletes(i)
      PROVE  IInv'
  <2>1. commandsQueue[i] \in Cmds /\ commandsQueue # <<>>
    BY <1>1, ElementOfSeq, EmptySeq
  <2>2. /\ WithoutIndex(commandsQueue, i) \in Seq(Cmds)
        /\ Append(scsi_cmnd_done, commandsQueue[i]) \in Seq(Cmds)
    BY <1>1, <2>1, WithoutIndexKeeps, ElemsAppend, Zenon
  <2>3. QueueTypeOK'
    BY <1>1, <1>2, <2>2, Zenon DEF CommandCompletes, QueueTypeOK
  <2>4. UNCHANGED <<stateVars, timerVars, pollVars, scanVars, driveVars, hotVars>>
    BY <1>2 DEF CommandCompletes
  <2>5. QED
    BY <2>1, <2>3, <2>4, QueueStepKeeps
<1>3. ASSUME NEW c \in Cmds, NEW p \in Ports,
             mvExecuteScsiCommand(c, p) \/ SendSmartCommand(c, p)
      PROVE  IInv'
  <2>1. UNCHANGED <<stateVars, timerVars, pollVars, scanVars, driveVars, hotVars>>
    BY <1>3
      DEF mvExecuteScsiCommand, AddToSCSICommandQueue, SendSmartCommand
  <2>2. CASE SalExecute(c, p)
    BY <2>1, <2>2, SalExecuteMoves, QueueStepKeeps
  <2>3. CASE /\ IALChannelPendingCmdQueue' = Append(IALChannelPendingCmdQueue, c)
             /\ UNCHANGED <<commandsQueue, scsi_cmnd_done>>
    <3>1. QueueTypeOK'
      BY <1>1, <2>3, ElemsAppend DEF QueueTypeOK
    <3>2. QED
      BY <2>1, <2>3, <3>1, QueueStepKeeps
  <2>4. QED
    BY <1>3, <2>2, <2>3, Zenon
      DEF mvExecuteScsiCommand, AddToSCSICommandQueue, SendSmartCommand
<1>4. CASE TakeDoneList
  <2>1. QueueTypeOK'
    BY <1>1, <1>4 DEF TakeDoneList, QueueTypeOK
  <2>2. QED
    BY <1>4, <2>1, QueueStepKeeps DEF TakeDoneList
<1>5. QED
  BY <1>2, <1>3, <1>4

\* Starting a rescan and enabling the hot-plug handler keep the invariant.
LEMMA RescanKeeps ==
  ASSUME IInv, TakeRescanWork \/ EnableHotplug
  PROVE  IInv'
<1> USE DEF IInv, TakeRescanWork, EnableHotplug, stateVars, timerVars, queueVars,
            pollVars, scanVars, driveVars
<1>1. HotTypeOK'
  <2>1. rescanWork \in Seq(RescanItems) /\ bHotPlug \in BOOLEAN /\ stopped \in BOOLEAN
    BY DEF TypeOK, HotTypeOK
  <2>2. rescanWork # <<>> => Tail(rescanWork) \in Seq(RescanItems)
    BY <2>1, HeadTailProperties, Zenon
  <2>3. QED
    BY <2>1, <2>2 DEF HotTypeOK
<1>2. StateTypeOK' /\ QueueTypeOK' /\ PollTypeOK' /\ TimerTypeOK'
  BY DEF TypeOK, StateTypeOK, QueueTypeOK, PollTypeOK, TimerTypeOK
<1>3. ScanTypeOK' /\ DriveTypeOK'
  BY DEF TypeOK, ScanTypeOK, DriveTypeOK
<1>4. EdmaWorkHasChannel' /\ PollFlagMatchesQueue' /\ TimerArmedInReset'
  BY DEF EdmaWorkHasChannel, PollFlagMatchesQueue, TimerArmedInReset
<1>5. SnapshotHasChannel' /\ SnapshotIsServed'
  BY DEF SnapshotHasChannel, SnapshotIsServed, Served, Present
<1>6. QED
  BY <1>1, <1>2, <1>3, <1>4, <1>5 DEF TypeOK

-----------------------------------------------------------------------------
(* The theorems.                                                           *)

\* Every step of the channel keeps the invariant.
LEMMA NextKeeps ==
  ASSUME IInv, [Next]_vars
  PROVE  IInv'
<1>1. CASE UNCHANGED vars
  BY <1>1, StutterKeeps
<1>2. CASE mvIALTimerCallback
  BY <1>2, TickKeeps
<1>3. CASE \/ RestartChannel \/ CableDisconnect \/ mvPMHotPlugDetected \/ EdmaDisabled
           \/ \E changed \in SUBSET Ports : PMCommandCompletionCB(changed)
  BY <1>3, EventKeeps, Zenon
<1>4. CASE \/ \E i \in 1..Len(commandsQueue) : CommandCompletes(i)
           \/ \E c \in Cmds \ Held, p \in Ports : mvExecuteScsiCommand(c, p)
           \/ \E c \in Cmds \ Held, p \in Ports : SendSmartCommand(c, p)
           \/ TakeDoneList
  BY <1>4, CommandKeeps, Zenon
<1>5. CASE TakeRescanWork \/ EnableHotplug
  BY <1>5, RescanKeeps
<1>6. QED
  BY <1>1, <1>2, <1>3, <1>4, <1>5, Zenon DEF Next

\* mvAdapterStartInitialization establishes the invariant.
LEMMA InitEstablishes ==
  ASSUME Init
  PROVE  IInv
<1> USE DEF Init
<1>1. /\ StateTypeOK
      /\ PollTypeOK
      /\ ScanTypeOK
  <2>1. StateTypeOK
    BY DEF StateTypeOK, ChannelStates, DeviceTypes
  <2>2. PollTypeOK
    <3>1. 0 \in 0..(PollPeriod - 1)
      BY PollAssumption
    <3>2. QED
      BY <3>1, Zenon DEF PollTypeOK
  <2>3. ScanTypeOK
    BY DEF ScanTypeOK
  <2>4. QED
    BY <2>1, <2>2, <2>3
<1>2. TimerTypeOK
  BY TimerAssumption DEF TimerTypeOK
<1>3. QueueTypeOK /\ HotTypeOK
  BY EmptySeq DEF QueueTypeOK, HotTypeOK
<1>4. DriveTypeOK
  BY NoDrivesTyped DEF DriveTypeOK
<1>5. EdmaWorkHasChannel /\ SnapshotHasChannel /\ PollFlagMatchesQueue
  BY DEF EdmaWorkHasChannel, SnapshotHasChannel, PollFlagMatchesQueue
<1>6. SnapshotIsServed
  BY DEF SnapshotIsServed, Served, Present
<1>7. TimerArmedInReset
  BY TimerAssumption DEF TimerArmedInReset
<1>8. QED
  BY <1>1, <1>2, <1>3, <1>4, <1>5, <1>6, <1>7 DEF IInv, TypeOK

\* IInv is an inductive invariant of the channel.
THEOREM Invariance == Spec => []IInv
<1>1. Init => IInv
  BY InitEstablishes
<1>2. IInv /\ [Next]_vars => IInv'
  BY NextKeeps
<1>3. QED
  BY <1>1, <1>2, PTL DEF Spec

\* Every variable of the channel keeps its type, in particular the soft-reset
\* timer never passes its threshold.
THEOREM TypeCorrect == Spec => []TypeOK
<1>1. IInv => TypeOK
  BY DEF IInv
<1>2. QED
  BY <1>1, Invariance, PTL

\* Whatever resets, unplugs and failures do, the EDMA holds commands only for
\* an allocated and initialised channel.
THEOREM EdmaWorkSafe == Spec => []EdmaWorkHasChannel
<1>1. IInv => EdmaWorkHasChannel
  BY DEF IInv
<1>2. QED
  BY <1>1, Invariance, PTL

\* Snapshots exist only for allocated channels, and the channel structure is
\* allocated exactly from the start of the initialisation to the disconnect.
THEOREM SnapshotSafe == Spec => []SnapshotHasChannel
<1>1. IInv => SnapshotHasChannel
  BY DEF IInv
<1>2. QED
  BY <1>1, Invariance, PTL

\* The drives reported to the mid-layer are drives the SAL serves.
THEOREM SnapshotServed == Spec => []SnapshotIsServed
<1>1. IInv => SnapshotIsServed
  BY DEF IInv
<1>2. QED
  BY <1>1, Invariance, PTL

\* A soft reset is never waited for without its timer.
THEOREM TimerSafe == Spec => []TimerArmedInReset
<1>1. IInv => TimerArmedInReset
  BY DEF IInv
<1>2. QED
  BY <1>1, Invariance, PTL

\* The flag that keeps a second PM register read from being queued never
\* outlives the read.
THEOREM PollFlagSafe == Spec => []PollFlagMatchesQueue
<1>1. IInv => PollFlagMatchesQueue
  BY DEF IInv
<1>2. QED
  BY <1>1, Invariance, PTL

-----------------------------------------------------------------------------
(* No command vanishes.                                                    *)

\* A step that leaves both queues alone forgets no command, nor does one that
\* only appends to them.
LEMMA KeptAreHeld ==
  ASSUME Elems(IALChannelPendingCmdQueue) \subseteq Elems(IALChannelPendingCmdQueue'),
         Elems(commandsQueue) \subseteq Elems(commandsQueue')
  PROVE  Elems(IALChannelPendingCmdQueue) \cup Elems(commandsQueue) \subseteq Held'
BY Zenon DEF Held, Elems

\* mvFlushSCSICommandQueue, after the EDMA queue was flushed with callbacks or
\* with an EDMA queue that stays, forgets no command.
LEMMA FlushHolds ==
  ASSUME IInv, NEW first \in Seq(Cmds), FlushSCSICommandQueue(first),
         first = commandsQueue \/ commandsQueue' = commandsQueue
  PROVE  Elems(IALChannelPendingCmdQueue) \cup Elems(commandsQueue) \subseteq Held'
<1>1. Elems(scsi_cmnd_done') = Elems(scsi_cmnd_done) \cup Elems(first)
                                 \cup Elems(IALChannelPendingCmdQueue)
  BY FlushMoves DEF IInv
<1>2. Held' = Elems(IALChannelPendingCmdQueue') \cup Elems(commandsQueue')
                \cup Elems(scsi_cmnd_done')
  BY DEF Held, Elems
<1>3. commandsQueue' = commandsQueue => Elems(commandsQueue') = Elems(commandsQueue)
  BY DEF Elems
<1>4. first = commandsQueue => Elems(first) = Elems(commandsQueue)
  BY DEF Elems
<1> HIDE DEF Elems
<1>5. QED
  BY <1>1, <1>2, <1>3, <1>4, Zenon

\* mvRestartChannel forgets no command.
LEMMA RestartHolds ==
  ASSUME IInv, mvRestartChannel
  PROVE  Elems(IALChannelPendingCmdQueue) \cup Elems(commandsQueue) \subseteq Held'
<1>1. commandsQueue \in Seq(Cmds) /\ <<>> \in Seq(Cmds)
  BY EmptySeq, Zenon DEF IInv, TypeOK, QueueTypeOK
<1>2. \/ FlushSCSICommandQueue(commandsQueue)
      \/ FlushSCSICommandQueue(<<>>) /\ commandsQueue' = commandsQueue
  BY DEF mvRestartChannel
<1>3. QED
  BY <1>1, <1>2, FlushHolds, Zenon

\* mvStopChannel forgets no command.
LEMMA StopHolds ==
  ASSUME IInv, NEW saved, mvStopChannel(saved)
  PROVE  Elems(IALChannelPendingCmdQueue) \cup Elems(commandsQueue) \subseteq Held'
<1>1. commandsQueue \in Seq(Cmds) /\ <<>> \in Seq(Cmds)
  BY EmptySeq, Zenon DEF IInv, TypeOK, QueueTypeOK
<1>2. \/ FlushSCSICommandQueue(commandsQueue)
      \/ FlushSCSICommandQueue(<<>>) /\ commandsQueue' = commandsQueue
  BY DEF mvStopChannel
<1>3. QED
  BY <1>1, <1>2, FlushHolds, Zenon

\* The end of the initialisation, good or bad, forgets no command.
LEMMA ConfigHolds ==
  ASSUME IInv, NEW type, NEW saved, NEW current, NEW ready,
         ConfigChannelDMA(type, saved, current, ready)
  PROVE  Elems(IALChannelPendingCmdQueue) \cup Elems(commandsQueue) \subseteq Held'
<1>1. <<>> \in Seq(Cmds)
  BY EmptySeq, Zenon
<1>2. CASE SetChannelReady(saved, current, ready)
  <2>1. FlushSCSICommandQueue(<<>>) /\ commandsQueue' = commandsQueue
    BY <1>2 DEF SetChannelReady
  <2>2. QED
    BY <1>1, <2>1, FlushHolds, Zenon
<1>3. CASE mvStopChannel(saved)
  BY <1>3, StopHolds, Zenon
<1>4. QED
  BY <1>2, <1>3, Zenon DEF ConfigChannelDMA

\* No tick of the timer forgets a command: the handlers flush the queues they
\* reset, and mvSataConfigureChannel only ever forgets an empty one.
LEMMA TickHolds ==
  ASSUME IInv, mvIALTimerCallback
  PROVE  Elems(IALChannelPendingCmdQueue) \cup Elems(commandsQueue) \subseteq Held'
<1> DEFINE Kept == UNCHANGED <<IALChannelPendingCmdQueue, commandsQueue>>
           Goal == Elems(IALChannelPendingCmdQueue) \cup Elems(commandsQueue) \subseteq Held'
<1>1. Kept => Goal
  BY KeptAreHeld
<1>2. CASE ChannelNotConnectedStateHandler
  BY <1>1, <1>2 DEF ChannelNotConnectedStateHandler, IInv, SnapshotHasChannel
<1>3. CASE ConnectedAllocFails
  BY <1>1, <1>3 DEF ConnectedAllocFails, queueVars
<1>4. CASE ConnectedStartsSRST
  <2>1. commandsQueue = <<>>
    BY <1>4 DEF ConnectedStartsSRST, IInv, EdmaWorkHasChannel
  <2>2. QED
    BY <1>1, <1>4, <2>1 DEF ConnectedStartsSRST
<1>5. CASE InSrstBusy
  BY <1>1, <1>5, StopHolds DEF InSrstBusy, queueVars
<1>6. CASE \E s \in Serials : InSrstDiskReady(s)
  BY <1>6, ConfigHolds, Zenon DEF InSrstDiskReady
<1>7. CASE InSrstDiskFails \/ InSrstUnsupported \/ InSrstPMFails
  BY <1>7, StopHolds, Zenon DEF InSrstDiskFails, InSrstUnsupported, InSrstPMFails
<1>8. CASE \E up \in SUBSET Ports : InSrstPMSpinsUp(up)
  BY <1>1, <1>8, StopHolds, ConfigHolds DEF InSrstPMSpinsUp, queueVars
<1>9. CASE PMSrstBusy
  BY <1>1, <1>9 DEF PMSrstBusy, queueVars
<1>10. ASSUME NEW saved, NEW current, NEW ready, PMNextPort(saved, current, ready)
       PROVE  Goal
  BY <1>1, <1>10, StopHolds, ConfigHolds DEF PMNextPort, queueVars
<1>11. CASE PMSrstPortSkipped \/ PMSrstPortFails
  BY <1>10, <1>11, Zenon DEF PMSrstPortSkipped, PMSrstPortFails
<1>12. CASE \E s \in Serials : PMSrstPortReady(s)
  BY <1>10, <1>12, Zenon DEF PMSrstPortReady
<1>13. CASE PMSrstLinkCheckFails
  BY <1>13, StopHolds, ConfigHolds, Zenon DEF PMSrstLinkCheckFails
<1>14. CASE PMSrstReconnected \/ ChannelPMHotPlugStateHandler
  BY <1>14, RestartHolds DEF PMSrstReconnected, ChannelPMHotPlugStateHandler
<1>15. CASE ChannelReadyStateHandler
  BY <1>1, <1>15 DEF ChannelReadyStateHandler, queueVars
<1>16. QED
  BY <1>2, <1>3, <1>4, <1>5, <1>6, <1>7, <1>8, <1>9, <1>11, <1>12, <1>13, <1>14,
     <1>15, Zenon DEF mvIALTimerCallback

\* No other step forgets a command either.
LEMMA StepHolds ==
  ASSUME IInv, [Next]_vars
  PROVE  Elems(IALChannelPendingCmdQueue) \cup Elems(commandsQueue) \subseteq Held'
<1> DEFINE Kept == UNCHANGED <<IALChannelPendingCmdQueue, commandsQueue>>
           Goal == Elems(IALChannelPendingCmdQueue) \cup Elems(commandsQueue) \subseteq Held'
<1>1. Kept => Goal
  BY KeptAreHeld
<1>2. /\ commandsQueue \in Seq(Cmds) /\ scsi_cmnd_done \in Seq(Cmds)
      /\ IALChannelPendingCmdQueue \in Seq(Cmds)
  BY DEF IInv, TypeOK, QueueTypeOK
<1>3. CASE UNCHANGED vars \/ TakeDoneList \/ TakeRescanWork \/ EnableHotplug
  BY <1>1, <1>3 DEF vars, queueVars, TakeDoneList, TakeRescanWork, EnableHotplug
<1>4. CASE mvIALTimerCallback
  BY <1>4, TickHolds
<1>5. CASE RestartChannel \/ CableDisconnect
  BY <1>5, RestartHolds, StopHolds, Zenon DEF RestartChannel, CableDisconnect
<1>6. CASE mvPMHotPlugDetected
  BY <1>1, <1>6, RestartHolds DEF mvPMHotPlugDetected, vars, queueVars
<1>7. CASE EdmaDisabled \/ \E changed \in SUBSET Ports : PMCommandCompletionCB(changed)
  BY <1>1, <1>7 DEF EdmaDisabled, PMCommandCompletionCB, queueVars
<1>8. ASSUME NEW i \in 1..Len(commandsQueue), CommandCompletes(i)
      PROVE  Goal
  <2>1. commandsQueue[i] \in Cmds
    BY <1>2, ElementOfSeq
  <2>2. Elems(commandsQueue)
          \subseteq Elems(WithoutIndex(commandsQueue, i)) \cup {commandsQueue[i]}
    BY <1>2, WithoutIndexKeeps
  <2>3. Elems(Append(scsi_cmnd_done, commandsQueue[i]))
          = Elems(scsi_cmnd_done) \cup {commandsQueue[i]}
    BY <1>2, <2>1, ElemsAppend
  <2>4. Held' = Elems(IALChannelPendingCmdQueue)
                  \cup Elems(WithoutIndex(commandsQueue, i))
                  \cup Elems(Append(scsi_cmnd_done, commandsQueue[i]))
    BY <1>8 DEF CommandCompletes, Held, Elems
  <2>5. QED
    BY <2>2, <2>3, <2>4, Zenon
<1>9. ASSUME NEW c \in Cmds, NEW p \in Ports,
             mvExecuteScsiCommand(c, p) \/ SendSmartCommand(c, p)
      PROVE  Goal
  <2>1. CASE SalExecute(c, p)
    <3>1. /\ Elems(commandsQueue) \subseteq Elems(commandsQueue')
          /\ IALChannelPendingCmdQueue' = IALChannelPendingCmdQueue
      BY <2>1, SalExecuteMoves
    <3>2. QED
      BY <3>1, KeptAreHeld
  <2>2. CASE /\ IALChannelPendingCmdQueue' = Append(IALChannelPendingCmdQueue, c)
             /\ commandsQueue' = commandsQueue
    <3>1. Elems(Append(IALChannelPendingCmdQueue, c))
            = Elems(IALChannelPendingCmdQueue) \cup {c}
      BY <1>2, ElemsAppend
    <3>2. QED
      BY <2>2, <3>1, KeptAreHeld
  <2>3. QED
    BY <1>9, <2>1, <2>2
      DEF mvExecuteScsiCommand, AddToSCSICommandQueue, SendSmartCommand
<1>10. QED
  BY <1>3, <1>4, <1>5, <1>6, <1>7, <1>8, <1>9, Zenon DEF Next

\* No command the mid-layer handed over is ever forgotten by a channel step:
\* it stays parked or queued, or is on the list of completed commands.
THEOREM NothingVanishes == Spec => CommandsNeverVanish
<1>1. IInv /\ [Next]_vars
        => [\A c \in Elems(IALChannelPendingCmdQueue) \cup Elems(commandsQueue) :
               c \in Held']_vars
  BY StepHolds, Zenon
<1>2. QED
  BY <1>1, Invariance, PTL DEF Spec, CommandsNeverVanish

-----------------------------------------------------------------------------
(* The IAL keeps to the promise of the core driver, SataCommandQueue.       *)

\* The five ways a step may treat the channel of the core driver.
Leaves  == commandsQueue' = commandsQueue /\ DriverOpen' = DriverOpen
Opens   == commandsQueue' = commandsQueue /\ ~DriverOpen
Empties == commandsQueue' = <<>> /\ ~DriverOpen'
Gives(c) == /\ DriverOpen /\ DriverOpen' /\ c \notin Elems(commandsQueue)
            /\ Elems(commandsQueue') = Elems(commandsQueue) \cup {c}
Takes(c) == /\ DriverOpen /\ DriverOpen' /\ c \in Elems(commandsQueue)
            /\ \/ Elems(commandsQueue') = Elems(commandsQueue) \ {c}
               \/ Elems(commandsQueue') = Elems(commandsQueue)
Treats == Leaves \/ Opens \/ Empties \/ \E c \in Cmds : Gives(c) \/ Takes(c)

\* Each of them is a step of SataCommandQueue, or none: a channel that is not
\* open has no commands (EdmaWorkHasChannel), so emptying it changes nothing.
LEMMA TreatsIsPromised ==
  ASSUME IInv, Treats
  PROVE  [DriverPromise!Next]_(DriverPromise!qvars)
<1> USE DEF DriverPromise!Next, DriverPromise!qvars
<1>1. ~DriverOpen => Elems(commandsQueue) = {}
  BY ElemsEmpty DEF IInv, EdmaWorkHasChannel, DriverOpen
<1>2. DriverOpen \in BOOLEAN /\ DriverOpen' \in BOOLEAN
  BY DEF DriverOpen
<1>3. commandsQueue' = commandsQueue => Elems(commandsQueue') = Elems(commandsQueue)
  BY Zenon
<1>4. commandsQueue' = <<>> => Elems(commandsQueue') = {}
  BY ElemsEmpty, Zenon
<1>5. CASE Leaves
  BY <1>3, <1>5 DEF Leaves
<1>6. CASE Opens
  BY <1>2, <1>3, <1>6 DEF Opens, DriverPromise!Open
<1>7. CASE Empties
  BY <1>1, <1>2, <1>4, <1>7 DEF Empties, DriverPromise!Close
<1>8. ASSUME NEW c \in Cmds, Gives(c)
      PROVE  DriverPromise!Next
  BY <1>2, <1>8 DEF Gives, DriverPromise!Accept
<1>9. ASSUME NEW c \in Cmds, Takes(c)
      PROVE  [DriverPromise!Next]_(DriverPromise!qvars)
  BY <1>2, <1>9 DEF Takes, DriverPromise!CallBack
<1>10. QED
  BY <1>5, <1>6, <1>7, <1>8, <1>9, Zenon DEF Treats

\* mvRestartChannel and mvStopChannel empty the channel in the step in which
\* they leave the states in which it is open.
LEMMA ResetEmpties ==
  ASSUME IInv, mvRestartChannel \/ \E saved : mvStopChannel(saved)
  PROVE  Empties
<1>1. ~sataChannel => commandsQueue = <<>>
  BY DEF IInv, EdmaWorkHasChannel
<1>2. CASE mvRestartChannel
  BY <1>1, <1>2 DEF mvRestartChannel, FlushDmaQueue, Empties, DriverOpen
<1>3. CASE \E saved : mvStopChannel(saved)
  BY <1>1, <1>3 DEF mvStopChannel, FlushDmaQueue, Empties, DriverOpen
<1>4. QED
  BY <1>2, <1>3

\* A tick of the timer opens the channel at the end of an initialisation,
\* empties it, or leaves it alone.
LEMMA TickTreats ==
  ASSUME IInv, mvIALTimerCallback
  PROVE  Treats
<1> USE DEF DriverOpen
<1>1. mvRestartChannel \/ (\E saved : mvStopChannel(saved)) => Treats
  BY ResetEmpties, Zenon DEF Treats
<1>2. ASSUME NEW type, NEW saved, NEW current, NEW ready,
             ConfigChannelDMA(type, saved, current, ready), ~DriverOpen
      PROVE  Treats
  BY <1>1, <1>2 DEF ConfigChannelDMA, SetChannelReady, Treats, Opens
<1>3. CASE ChannelNotConnectedStateHandler \/ ConnectedAllocFails
  BY <1>3 DEF ChannelNotConnectedStateHandler, ConnectedAllocFails, queueVars,
              Treats, Opens
<1>4. CASE ConnectedStartsSRST
  BY <1>4 DEF ConnectedStartsSRST, Treats, Empties
<1>5. CASE InSrstBusy
  BY <1>1, <1>5 DEF InSrstBusy, queueVars, Treats, Opens
<1>6. CASE \E s \in Serials : InSrstDiskReady(s)
  BY <1>2, <1>6 DEF InSrstDiskReady
<1>7. CASE InSrstDiskFails \/ InSrstUnsupported \/ InSrstPMFails
  BY <1>1, <1>7, Zenon DEF InSrstDiskFails, InSrstUnsupported, InSrstPMFails
<1>8. CASE \E up \in SUBSET Ports : InSrstPMSpinsUp(up)
  BY <1>1, <1>2, <1>8 DEF InSrstPMSpinsUp, queueVars, Treats, Opens
<1>9. CASE PMSrstBusy
  BY <1>9 DEF PMSrstBusy, queueVars, Treats, Opens
<1>10. ASSUME NEW saved, NEW current, NEW ready,
              PMNextPort(saved, current, ready), channelState = "PM_SRST_DEVICE"
       PROVE  Treats
  BY <1>1, <1>2, <1>10 DEF PMNextPort, queueVars, Treats, Opens
<1>11. CASE PMSrstPortSkipped \/ PMSrstPortFails
  BY <1>10, <1>11, Zenon DEF PMSrstPortSkipped, PMSrstPortFails
<1>12. CASE \E s \in Serials : PMSrstPortReady(s)
  BY <1>10, <1>12, Zenon DEF PMSrstPortReady
<1>13. CASE PMSrstLinkCheckFails
  BY <1>1, <1>2, <1>13 DEF PMSrstLinkCheckFails
<1>14. CASE PMSrstReconnected \/ ChannelPMHotPlugStateHandler
  BY <1>1, <1>14, Zenon DEF PMSrstReconnected, ChannelPMHotPlugStateHandler
<1>15. CASE ChannelReadyStateHandler
  BY <1>15 DEF ChannelReadyStateHandler, stateVars, queueVars, Treats, Leaves
<1>16. QED
  BY <1>3, <1>4, <1>5, <1>6, <1>7, <1>8, <1>9, <1>11, <1>12, <1>13, <1>14, <1>15,
     Zenon DEF mvIALTimerCallback

\* So does every other step, or it gives the driver one command or takes one
\* back.
LEMMA StepTreats ==
  ASSUME IInv, [Next]_vars
  PROVE  Treats
<1>1. mvRestartChannel \/ (\E saved : mvStopChannel(saved)) => Treats
  BY ResetEmpties, Zenon DEF Treats
<1>2. ASSUME commandsQueue' = commandsQueue, UNCHANGED <<channelState, sataChannel>>
      PROVE  Treats
  BY <1>2 DEF Treats, Leaves, DriverOpen
<1>3. CASE UNCHANGED vars \/ TakeDoneList \/ TakeRescanWork \/ EnableHotplug
           \/ EdmaDisabled
  BY <1>2, <1>3 DEF vars, stateVars, queueVars, TakeDoneList, TakeRescanWork,
                    EnableHotplug, EdmaDisabled
<1>4. CASE mvIALTimerCallback
  BY <1>4, TickTreats
<1>5. CASE RestartChannel \/ CableDisconnect
  BY <1>1, <1>5, Zenon DEF RestartChannel, CableDisconnect
<1>6. CASE mvPMHotPlugDetected
  BY <1>1, <1>2, <1>6 DEF mvPMHotPlugDetected, vars, stateVars, queueVars
<1>7. ASSUME NEW changed, PMCommandCompletionCB(changed)
      PROVE  Treats
  <2>1. DriverOpen
    BY <1>7 DEF PMCommandCompletionCB, IInv, EdmaWorkHasChannel, DriverOpen
  <2>2. DriverOpen' /\ commandsQueue' = commandsQueue
    BY <1>7, <2>1 DEF PMCommandCompletionCB, queueVars, DriverOpen
  <2>3. QED
    BY <2>1, <2>2 DEF Treats, Leaves, DriverOpen
<1>8. ASSUME NEW i \in 1..Len(commandsQueue), CommandCompletes(i)
      PROVE  Treats
  <2> DEFINE c == commandsQueue[i]
             rest == WithoutIndex(commandsQueue, i)
  <2>1. commandsQueue \in Seq(Cmds)
    BY DEF IInv, TypeOK, QueueTypeOK
  <2>2. c \in Cmds /\ c \in Elems(commandsQueue)
    BY <2>1, ElementOfSeq DEF Elems
  <2>3. /\ Elems(commandsQueue) \subseteq Elems(rest) \cup {c}
        /\ Elems(rest) \subseteq Elems(commandsQueue)
    BY <2>1, WithoutIndexKeeps, Zenon
  <2>4. commandsQueue # <<>>
    BY <2>2, ElemsEmpty
  <2>5. commandsQueue' = rest /\ UNCHANGED <<channelState, sataChannel>>
    BY <1>8 DEF CommandCompletes, stateVars
  <2>6. DriverOpen /\ DriverOpen'
    BY <2>4, <2>5 DEF IInv, EdmaWorkHasChannel, DriverOpen
  <2>7. Elems(commandsQueue') = Elems(rest)
    BY <2>5, Zenon
  <2> HIDE DEF c, rest
  <2>8. \/ Elems(rest) = Elems(commandsQueue) \ {c}
        \/ Elems(rest) = Elems(commandsQueue)
    BY <2>3
  <2>9. QED
    BY <2>2, <2>6, <2>7, <2>8, Zenon DEF Treats, Takes
<1>9. ASSUME NEW c \in Cmds \ Held, NEW p \in Ports,
             mvExecuteScsiCommand(c, p) \/ SendSmartCommand(c, p)
      PROVE  Treats
  <2>1. UNCHANGED <<channelState, sataChannel>>
    BY <1>9 DEF mvExecuteScsiCommand, SendSmartCommand, stateVars
  <2>2. CASE commandsQueue' = commandsQueue
    BY <1>2, <2>1, <2>2
  <2>3. CASE CanQueue /\ commandsQueue' = Append(commandsQueue, c)
    <3>1. DriverOpen /\ DriverOpen'
      BY <2>1, <2>3 DEF CanQueue, IInv, EdmaWorkHasChannel, DriverOpen
    <3>2. Elems(Append(commandsQueue, c)) = Elems(commandsQueue) \cup {c}
      BY ElemsAppend DEF IInv, TypeOK, QueueTypeOK
    <3>3. c \notin Elems(commandsQueue)
      BY <1>9, Zenon DEF Held
    <3>4. Elems(commandsQueue') = Elems(commandsQueue) \cup {c}
      BY <2>3, <3>2, Zenon
    <3>5. QED
      BY <3>1, <3>3, <3>4, Zenon DEF Treats, Gives
  <2>4. QED
    BY <1>9, <2>2, <2>3
      DEF mvExecuteScsiCommand, SendSmartCommand, SalExecute, AddToSCSICommandQueue
<1>10. QED
  BY <1>3, <1>4, <1>5, <1>6, <1>7, <1>8, <1>9, Zenon DEF Next

\* The IAL implements SataCommandQueue, the interface it shares with the core
\* driver: no command enters a channel that is not initialised, and restarting
\* or stopping one takes all commands back in the same step.
THEOREM UsesDriverQueueSafe == Spec => UsesDriverQueue
<1>1. Init => DriverPromise!Init
  BY ElemsEmpty DEF Init, DriverPromise!Init, DriverOpen
<1>2. IInv /\ [Next]_vars => [DriverPromise!Next]_(DriverPromise!qvars)
  BY StepTreats, TreatsIsPromised
<1>3. QED
  BY <1>1, <1>2, Invariance, PTL DEF Spec, UsesDriverQueue, DriverPromise!Spec

=============================================================================
