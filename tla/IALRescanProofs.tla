--------------------------- MODULE IALRescanProofs ---------------------------
(***************************************************************************)
(* Proofs about IALRescan: when notifications can be allocated and drives  *)
(* identify themselves, the work that is scheduled repairs every           *)
(* difference between the mid-layer's devices and the drives.              *)
(***************************************************************************)
EXTENDS IALRescan, IALQueueProofs

-----------------------------------------------------------------------------
(* The inductive invariant.                                                *)

RescanStateOK ==
  /\ sdevs \in Drives
  /\ toScan \subseteq Ports
  /\ worker \in RescanItems
  /\ unreported \subseteq Ports

\* The SAL serves exactly the drives found so far, and in an initialised
\* channel exactly those of the saved snapshot.
ExactlyServed ==
  driveReady = IF channelState \in Initialised THEN driveSaved ELSE driveCurrent

\* The work in the order in which it is done: slot 0 is channel_rescan's.
Slots   == 0..Len(rescanWork)
Work(i) == IF i = 0 THEN worker ELSE rescanWork[i]

\* Whatever removes the device of a drive that is there adds it again later.
RemovedIsAdded ==
  \A p \in Ports, i \in Slots :
    p \in Work(i).remove /\ driveSaved[p] # NoDrive
      => \E j \in Slots : j >= i /\ p \in Work(j).add

\* A difference is going to be repaired.
Repaired(p) ==
  sdevs[p] # driveSaved[p]
    => /\ sdevs[p] # NoDrive => \E i \in Slots : p \in Work(i).remove
       /\ driveSaved[p] # NoDrive => \E i \in Slots : p \in Work(i).add

\* While the driver loads there is no work, and a target that was scanned and
\* whose drive was left alone since has the right device.
Loading ==
  IF stopped
  THEN /\ rescanWork = <<>> /\ worker = Idle
       /\ \A p \in toScan : sdevs[p] = NoDrive
       /\ \A p \in Ports \ (toScan \cup unreported) : sdevs[p] = driveSaved[p]
  ELSE toScan = {}

\* The scan waits for the first initialisation: the next ones are after a
\* restart and report what they find.
ScanWaits ==
  toScan # Ports => bHotPlug \/ channelState \in Initialised \cup {"NOT_CONNECTED"}

RInv ==
  /\ RescanStateOK /\ ExactlyServed /\ RemovedIsAdded /\ Loading /\ ScanWaits
  /\ ~stopped => \A p \in Ports \ unreported : Repaired(p)

-----------------------------------------------------------------------------
(* Steps of the channel.                                                   *)

\* Ticks and events leave a stopped hot-plug handler stopped, and then they
\* schedule nothing.
LEMMA StoppedStays ==
  ASSUME SavesAs(driveSaved)
  PROVE  stopped' = stopped /\ (stopped => rescanWork' = rescanWork)
BY DEF SavesAs, mvRestartChannel, mvStopChannel, SetChannelReady, hotVars,
       IALBusChangeNotifyEx

\* A work item is appended that says what changed in the saved snapshot.
Notices ==
  \/ driveSaved' = driveSaved /\ rescanWork' = rescanWork
  \/ rescanWork' = Append(rescanWork,
                          [remove |-> DrivesToRemove(driveSaved, driveSaved'),
                           add    |-> DrivesToAdd(driveSaved, driveSaved')])

\* IALBusChangeNotifyEx when it has the memory.
LEMMA NotifyAppends ==
  ASSUME "notify" \notin Faults, ~stopped, NEW remove, NEW add,
         IALBusChangeNotifyEx(remove, add)
  PROVE  rescanWork' = Append(rescanWork, [remove |-> remove, add |-> add])
BY DEF IALBusChangeNotifyEx

\* Every change of the saved snapshot is noticed, the one of an initialisation
\* because it is not the first.
LEMMA ChangesAreNoticed ==
  ASSUME IInv, IInv', "notify" \notin Faults, ~stopped, SavesAs(driveSaved),
         channelState \notin Quiet => bHotPlug
  PROVE  Notices
<1>1. driveSaved \in Drives /\ driveSaved' \in Drives
  BY DEF IInv, TypeOK, DriveTypeOK
<1>2. CASE mvRestartChannel
  BY <1>2 DEF mvRestartChannel, Notices
<1>3. CASE mvStopChannel(driveSaved)
  <2>1. driveSaved' = NoDrives
    BY <1>3 DEF mvStopChannel, DrivesInfoFlushAll
  <2>2. CASE Present(driveSaved) = {}
    <3>1. rescanWork' = rescanWork
      BY <1>3, <2>2 DEF mvStopChannel
    <3>2. driveSaved = NoDrives
      BY <1>1, <2>2 DEF Present, NoDrives, Drives
    <3>3. QED
      BY <2>1, <3>1, <3>2 DEF Notices
  <2>3. CASE Present(driveSaved) # {}
    <3>1. IALBusChangeNotifyEx(Present(driveSaved), {})
      BY <1>3, <2>3 DEF mvStopChannel
    <3>2. rescanWork' = Append(rescanWork, [remove |-> Present(driveSaved), add |-> {}])
      BY <3>1, NotifyAppends, Zenon
    <3>3. /\ DrivesToRemove(driveSaved, NoDrives) = Present(driveSaved)
          /\ DrivesToAdd(driveSaved, NoDrives) = {}
      BY DEF DrivesToRemove, DrivesToAdd, Present, NoDrives
    <3>4. QED
      BY <2>1, <3>2, <3>3 DEF Notices
  <2>4. QED
    BY <2>2, <2>3
<1>4. ASSUME bHotPlug, NEW current, NEW ready, SetChannelReady(driveSaved, current, ready)
      PROVE  Notices
  <2>1. driveSaved' = current
    BY <1>4 DEF SetChannelReady, DrivesInfoSaveAll
  <2>2. CASE DrivesToRemove(driveSaved, current) = {} /\ DrivesToAdd(driveSaved, current) = {}
    <3>1. rescanWork' = rescanWork
      BY <1>4, <2>2 DEF SetChannelReady
    <3>2. ASSUME NEW p \in Ports
          PROVE  current[p] = driveSaved[p]
      BY <2>2 DEF DrivesToRemove, DrivesToAdd, Present
    <3>3. current = driveSaved
      BY <1>1, <2>1, <3>2 DEF Drives
    <3>4. QED
      BY <2>1, <3>1, <3>3 DEF Notices
  <2>3. CASE DrivesToRemove(driveSaved, current) # {} \/ DrivesToAdd(driveSaved, current) # {}
    <3>1. IALBusChangeNotifyEx(DrivesToRemove(driveSaved, current),
                               DrivesToAdd(driveSaved, current))
      BY <1>4, <2>3, Zenon DEF SetChannelReady
    <3>2. QED
      BY <2>1, <3>1, NotifyAppends DEF Notices
  <2>4. QED
    BY <2>2, <2>3
<1>5. CASE driveSaved' = driveSaved /\ UNCHANGED hotVars
  BY <1>5 DEF Notices, hotVars
<1>6. QED
  BY <1>2, <1>3, <1>4, <1>5, Zenon DEF SavesAs

\* Once the scan has begun, an initialisation is never again the first one.
LEMMA WaitingKeeps ==
  ASSUME ScanWaits, SavesAs(driveSaved), UNCHANGED toScan
  PROVE  ScanWaits'
<1> USE DEF ScanWaits, Quiet, Initialised
<1>1. CASE mvRestartChannel
  BY <1>1 DEF mvRestartChannel
<1>2. CASE mvStopChannel(driveSaved)
  BY <1>2 DEF mvStopChannel
<1>3. ASSUME NEW current, NEW ready, SetChannelReady(driveSaved, current, ready)
      PROVE  ScanWaits'
  BY <1>3 DEF SetChannelReady
<1>4. CASE UNCHANGED hotVars /\ (channelState \in Quiet => channelState' \in Quiet)
  BY <1>4 DEF hotVars
<1>5. QED
  BY <1>1, <1>2, <1>3, <1>4, Zenon DEF SavesAs

\* mvRestartChannel, mvStopChannel and mvSetChannelState(CHANNEL_READY) leave
\* the SAL with exactly the drives of the channel.
LEMMA ResetServes ==
  ASSUME \/ mvRestartChannel
         \/ \E saved : mvStopChannel(saved)
         \/ \E saved, current : SetChannelReady(saved, current, current)
  PROVE  ExactlyServed'
<1> USE DEF ExactlyServed, Initialised
<1>1. CASE mvRestartChannel
  BY <1>1 DEF mvRestartChannel
<1>2. CASE \E saved : mvStopChannel(saved)
  BY <1>2 DEF mvStopChannel, DrivesInfoFlushAll
<1>3. CASE \E saved, current : SetChannelReady(saved, current, current)
  BY <1>3 DEF SetChannelReady, DrivesInfoSaveAll
<1>4. QED
  BY <1>1, <1>2, <1>3

\* The current snapshot and the SAL's drives are filled together.
LEMMA TickServes ==
  ASSUME IInv, ExactlyServed, "identify" \notin Faults, mvIALTimerCallback
  PROVE  ExactlyServed'
<1>1. ASSUME NEW type, NEW saved, NEW current, ConfigChannelDMA(type, saved, current, current)
      PROVE  ExactlyServed'
  BY <1>1, ResetServes, Zenon DEF ConfigChannelDMA
<1>2. ASSUME NEW saved, mvStopChannel(saved)
      PROVE  ExactlyServed'
  BY <1>2, ResetServes, Zenon
<1>3. mvRestartChannel => ExactlyServed'
  BY ResetServes, Zenon
<1>4. ASSUME channelState \notin Initialised, channelState' \notin Initialised,
             UNCHANGED driveVars
      PROVE  ExactlyServed'
  BY <1>4 DEF ExactlyServed, driveVars
<1>5. channelState \notin Initialised => driveReady = driveCurrent
  BY DEF ExactlyServed
<1>6. CASE ChannelNotConnectedStateHandler
  BY <1>5, <1>6 DEF ChannelNotConnectedStateHandler, ExactlyServed, Initialised
<1>7. CASE ConnectedAllocFails
  BY <1>7 DEF ConnectedAllocFails, DrivesInfoFlushAll, ExactlyServed, Initialised,
              IInv, SnapshotHasChannel
<1>8. CASE ConnectedStartsSRST
  BY <1>4, <1>8 DEF ConnectedStartsSRST, Initialised
<1>9. CASE InSrstBusy
  BY <1>2, <1>4, <1>9 DEF InSrstBusy, Initialised, stateVars
<1>10. ASSUME NEW s \in Serials, InSrstDiskReady(s)
       PROVE  ExactlyServed'
  <2>1. driveReady = driveCurrent
    BY <1>5, <1>10 DEF InSrstDiskReady, Initialised
  <2>2. QED
    BY <1>1, <1>10, <2>1 DEF InSrstDiskReady
<1>11. CASE InSrstUnsupported \/ InSrstPMFails
  BY <1>2, <1>11, Zenon DEF InSrstUnsupported, InSrstPMFails
<1>12. ASSUME NEW up \in SUBSET Ports, InSrstPMSpinsUp(up)
       PROVE  ExactlyServed'
  <2>1. driveReady = driveCurrent /\ channelState \notin Initialised
    BY <1>5, <1>12 DEF InSrstPMSpinsUp, Initialised
  <2>2. QED
    BY <1>1, <1>2, <1>4, <1>12, <2>1 DEF InSrstPMSpinsUp, Initialised
<1>13. CASE PMSrstBusy
  BY <1>4, <1>13 DEF PMSrstBusy, Initialised, stateVars
<1>14. ASSUME NEW saved, NEW current, channelState = "PM_SRST_DEVICE",
              PMNextPort(saved, current, current)
       PROVE  ExactlyServed'
  <2>1. ASSUME UNCHANGED stateVars, driveCurrent' = current, driveReady' = current
        PROVE  ExactlyServed'
    BY <1>14, <2>1 DEF ExactlyServed, stateVars, Initialised
  <2>2. QED
    BY <1>1, <1>2, <1>14, <2>1 DEF PMNextPort
<1>15. CASE PMSrstPortSkipped
  <2>1. driveReady = driveCurrent
    BY <1>5, <1>15 DEF PMSrstPortSkipped, Initialised
  <2>2. QED
    BY <1>14, <1>15, <2>1 DEF PMSrstPortSkipped
<1>16. ASSUME NEW s \in Serials, PMSrstPortReady(s)
       PROVE  ExactlyServed'
  <2>1. driveReady = driveCurrent
    BY <1>5, <1>16 DEF PMSrstPortReady, Initialised
  <2>2. QED
    BY <1>14, <1>16, <2>1 DEF PMSrstPortReady
<1>17. CASE PMSrstLinkCheckFails
  <2>1. driveReady = driveCurrent
    BY <1>5, <1>17 DEF PMSrstLinkCheckFails, Initialised
  <2>2. QED
    BY <1>1, <1>2, <1>17, <2>1 DEF PMSrstLinkCheckFails
<1>18. CASE PMSrstReconnected \/ ChannelPMHotPlugStateHandler
  BY <1>3, <1>18, Zenon DEF PMSrstReconnected, ChannelPMHotPlugStateHandler
<1>19. CASE ChannelReadyStateHandler
  BY <1>19 DEF ChannelReadyStateHandler, stateVars, driveVars, ExactlyServed
<1>20. ~InSrstDiskFails /\ ~PMSrstPortFails
  BY DEF InSrstDiskFails, PMSrstPortFails
<1>21. QED
  BY <1>6, <1>7, <1>8, <1>9, <1>10, <1>11, <1>12, <1>13, <1>15, <1>16, <1>17, <1>18,
     <1>19, <1>20, Zenon DEF mvIALTimerCallback

\* The events of the interrupt handler.
LEMMA EventServes ==
  ASSUME IInv, ExactlyServed,
         \/ RestartChannel \/ CableDisconnect \/ mvPMHotPlugDetected \/ EdmaDisabled
         \/ \E changed \in SUBSET Ports : PMCommandCompletionCB(changed)
  PROVE  ExactlyServed'
<1>1. CASE RestartChannel \/ CableDisconnect
  BY <1>1, ResetServes, Zenon DEF RestartChannel, CableDisconnect
<1>2. CASE mvPMHotPlugDetected
  BY <1>2, ResetServes DEF mvPMHotPlugDetected, vars, stateVars, driveVars, ExactlyServed
<1>3. CASE EdmaDisabled
  BY <1>3 DEF EdmaDisabled, driveVars, ExactlyServed
<1>4. CASE \E changed \in SUBSET Ports : PMCommandCompletionCB(changed)
  BY <1>4 DEF PMCommandCompletionCB, driveVars, ExactlyServed, Initialised,
              IInv, EdmaWorkHasChannel
<1>5. QED
  BY <1>1, <1>2, <1>3, <1>4

-----------------------------------------------------------------------------
(* The list of work.                                                       *)

\* A new item comes last.
LEMMA WorkGrows ==
  ASSUME rescanWork \in Seq(RescanItems), NEW w \in RescanItems,
         rescanWork' = Append(rescanWork, w), UNCHANGED worker,
         NEW n, n = Len(rescanWork) + 1
  PROVE  /\ n \in Nat /\ Work(n)' = w /\ Slots' = Slots \cup {n}
         /\ \A i \in Slots : i \in Nat /\ i < n /\ Work(i)' = Work(i)
<1>1. Len(rescanWork) \in Nat
  BY LenProperties
<1>2. /\ Len(rescanWork') = n
      /\ \A i \in 1..Len(rescanWork) : rescanWork'[i] = rescanWork[i]
      /\ rescanWork'[n] = w
  BY AppendProperties
<1>3. QED
  BY <1>1, <1>2 DEF Slots, Work

\* An idle channel_rescan takes the first item.
LEMMA WorkShifts ==
  ASSUME rescanWork \in Seq(RescanItems), rescanWork # <<>>, worker = Idle,
         rescanWork' = Tail(rescanWork), worker' = Head(rescanWork)
  PROVE  /\ Len(rescanWork) \in Nat \ {0} /\ Slots' = 0..(Len(rescanWork) - 1)
         /\ \A i \in Slots' : i + 1 \in Slots /\ Work(i)' = Work(i + 1)
         /\ Work(0).remove = {} /\ Work(0).add = {}
<1>1. Len(rescanWork) \in Nat \ {0}
  BY LenProperties, EmptySeq
<1>2. /\ Len(Tail(rescanWork)) = Len(rescanWork) - 1
      /\ \A i \in 1..(Len(rescanWork) - 1) : Tail(rescanWork)[i] = rescanWork[i + 1]
      /\ Head(rescanWork) = rescanWork[1]
  BY HeadTailProperties, <1>1
<1>3. QED
  BY <1>1, <1>2 DEF Slots, Work, Idle

\* What changed in the saved snapshot is in the new item.
LEMMA NoticeRepairs ==
  ASSUME IInv, RescanStateOK, RemovedIsAdded, Notices, UNCHANGED <<worker, sdevs>>
  PROVE  /\ RemovedIsAdded'
         /\ \A p \in Ports : Repaired(p) => Repaired(p)'
         /\ \A p \in Ports : (\E w \in Elems(rescanWork') : p \in w.remove) => Repaired(p)'
<1>1. rescanWork \in Seq(RescanItems) /\ Len(rescanWork) \in Nat
  BY LenProperties DEF IInv, TypeOK, HotTypeOK
<1>2. CASE driveSaved' = driveSaved /\ rescanWork' = rescanWork
  <2>1. Slots' = Slots /\ \A i \in Slots : Work(i)' = Work(i)
    BY <1>2 DEF Slots, Work
  <2>2. RemovedIsAdded'
    BY <1>2, <2>1 DEF RemovedIsAdded
  <2>3. \A p \in Ports : Repaired(p) => Repaired(p)'
    BY <1>2, <2>1 DEF Repaired
  <2>4. ASSUME NEW p \in Ports, NEW w \in Elems(rescanWork'), p \in w.remove
        PROVE  Repaired(p)'
    <3>1. PICK i \in 1..Len(rescanWork) : w = rescanWork[i]
      BY <1>2 DEF Elems
    <3>2. i \in Slots /\ Work(i) = w
      BY <1>1, <3>1 DEF Slots, Work
    <3>3. driveSaved[p] # NoDrive => \E j \in Slots : p \in Work(j).add
      BY <2>4, <3>2 DEF RemovedIsAdded
    <3>4. QED
      BY <1>2, <2>1, <2>4, <3>2, <3>3 DEF Repaired
  <2>5. QED
    BY <2>2, <2>3, <2>4
<1>3. ASSUME rescanWork' = Append(rescanWork,
                                  [remove |-> DrivesToRemove(driveSaved, driveSaved'),
                                   add    |-> DrivesToAdd(driveSaved, driveSaved')])
      PROVE  /\ RemovedIsAdded'
             /\ \A p \in Ports : Repaired(p) => Repaired(p)'
             /\ \A p \in Ports : (\E w \in Elems(rescanWork') : p \in w.remove) => Repaired(p)'
  <2>1. PICK item : item = [remove |-> DrivesToRemove(driveSaved, driveSaved'),
                            add    |-> DrivesToAdd(driveSaved, driveSaved')]
    OBVIOUS
  <2>2. /\ item \in RescanItems
        /\ \A p \in Ports : p \in item.remove <=>
              driveSaved[p] # NoDrive /\ driveSaved'[p] # driveSaved[p]
        /\ \A p \in Ports : p \in item.add <=>
              driveSaved'[p] # NoDrive /\ driveSaved'[p] # driveSaved[p]
    BY <2>1 DEF RescanItems, DrivesToRemove, DrivesToAdd, Present
  <2>3. PICK last : last = Len(rescanWork) + 1
    OBVIOUS
  <2>4. /\ last \in Slots' /\ Work(last)' = item
        /\ Slots' = Slots \cup {last} /\ last \in Nat
        /\ \A i \in Slots : i \in Nat /\ i < last /\ Work(i)' = Work(i)
    <3>1. rescanWork' = Append(rescanWork, item)
      BY <1>3, <2>1
    <3>2. QED
      BY <1>1, <2>2, <2>3, <3>1, WorkGrows
  <2>5. ASSUME NEW p \in Ports, NEW i \in Slots', p \in Work(i)'.remove,
               driveSaved'[p] # NoDrive
        PROVE  \E j \in Slots' : j >= i /\ p \in Work(j)'.add
    <3>1. CASE driveSaved'[p] # driveSaved[p]
      <4>1. p \in Work(last)'.add /\ last >= i
        BY <2>2, <2>4, <2>5, <3>1
      <4>2. QED
        BY <2>4, <4>1
    <3>2. CASE driveSaved'[p] = driveSaved[p]
      <4>1. i \in Slots /\ p \in Work(i).remove
        BY <2>2, <2>4, <2>5, <3>2
      <4>2. PICK j \in Slots : j >= i /\ p \in Work(j).add
        BY <2>5, <3>2, <4>1 DEF RemovedIsAdded
      <4>3. QED
        BY <2>4, <4>2
    <3>3. QED
      BY <3>1, <3>2
  <2>6. RemovedIsAdded'
    BY <2>5 DEF RemovedIsAdded
  <2>7. ASSUME NEW p \in Ports, Repaired(p)
        PROVE  Repaired(p)'
    <3>1. CASE driveSaved'[p] = driveSaved[p]
      BY <2>4, <2>7, <3>1 DEF Repaired
    <3>2. CASE driveSaved'[p] # driveSaved[p]
      <4>1. driveSaved'[p] # NoDrive => p \in Work(last)'.add
        BY <2>2, <2>4, <3>2
      <4>2. driveSaved[p] # NoDrive => p \in Work(last)'.remove
        BY <2>2, <2>4, <3>2
      <4>3. sdevs[p] # NoDrive => \E i \in Slots' : p \in Work(i)'.remove
        BY <2>4, <2>7, <4>2 DEF Repaired
      <4>4. QED
        BY <2>4, <4>1, <4>3 DEF Repaired
    <3>3. QED
      BY <3>1, <3>2
  <2>8. ASSUME NEW p \in Ports, NEW w \in Elems(rescanWork'), p \in w.remove
        PROVE  Repaired(p)'
    <3>1. PICK i \in 1..Len(rescanWork') : w = rescanWork'[i]
      BY DEF Elems
    <3>2. i \in Slots' /\ Work(i)' = w
      BY <3>1 DEF Slots, Work
    <3>3. driveSaved'[p] # NoDrive => \E j \in Slots' : p \in Work(j)'.add
      BY <2>5, <2>8, <3>2
    <3>4. QED
      BY <2>8, <3>2, <3>3 DEF Repaired
  <2>9. QED
    BY <2>6, <2>7, <2>8
<1>4. QED
  BY <1>2, <1>3 DEF Notices

-----------------------------------------------------------------------------
(* The steps.                                                              *)

\* A tick or an event, with what it records.
LEMMA ChannelStepRepairs ==
  ASSUME IInv, IInv', RInv, "notify" \notin Faults, SavesAs(driveSaved),
         ExactlyServed', Recorded
  PROVE  RInv'
<1>1. stopped' = stopped /\ (stopped => rescanWork' = rescanWork)
  BY StoppedStays
<1>2. UNCHANGED <<sdevs, toScan, worker>>
  BY DEF Recorded
<1>3. RescanStateOK'
  BY <1>2 DEF RInv, RescanStateOK, Recorded
<1>4. ScanWaits'
  BY <1>2, WaitingKeeps DEF RInv
<1>5. CASE stopped
  <2>1. /\ rescanWork' = <<>> /\ worker' = Idle
        /\ \A p \in toScan' : sdevs'[p] = NoDrive
    BY <1>1, <1>2, <1>5 DEF RInv, Loading
  <2>2. ASSUME NEW p \in Ports \ (toScan' \cup unreported')
        PROVE  sdevs'[p] = driveSaved'[p]
    <3>1. p \notin toScan /\ p \notin unreported /\ driveSaved'[p] = driveSaved[p]
      BY <1>2, <1>5 DEF Recorded
    <3>2. QED
      BY <1>2, <1>5, <3>1 DEF RInv, Loading
  <2>3. Loading'
    BY <1>1, <1>5, <2>1, <2>2 DEF Loading
  <2>4. RemovedIsAdded'
    BY <2>1 DEF RemovedIsAdded, Slots, Work, Idle
  <2>5. QED
    BY <1>1, <1>3, <1>4, <1>5, <2>3, <2>4 DEF RInv
<1>6. CASE ~stopped
  <2>1. channelState \notin Quiet => bHotPlug
    BY <1>6, PortsAssumption DEF RInv, Loading, ScanWaits, Quiet
  <2>2. Notices
    BY <1>6, <2>1, ChangesAreNoticed
  <2>3. /\ RemovedIsAdded'
        /\ \A p \in Ports : Repaired(p) => Repaired(p)'
        /\ \A p \in Ports : (\E w \in Elems(rescanWork') : p \in w.remove) => Repaired(p)'
    BY <1>2, <2>2, NoticeRepairs DEF RInv
  <2>4. Loading'
    BY <1>1, <1>2, <1>6 DEF RInv, Loading
  <2>5. ASSUME NEW p \in Ports \ unreported'
        PROVE  Repaired(p)'
    <3>1. p \notin unreported \/ \E w \in Elems(rescanWork') : p \in w.remove
      BY <1>6 DEF Recorded
    <3>2. QED
      BY <1>6, <2>3, <3>1 DEF RInv
  <2>6. QED
    BY <1>3, <1>4, <2>3, <2>4, <2>5 DEF RInv
<1>7. QED
  BY <1>5, <1>6

\* In a settled channel the SAL serves the drives of the saved snapshot.
LEMMA SettledServes ==
  ASSUME IInv, ExactlyServed, channelState \in Settled
  PROVE  driveReady = driveSaved
<1>1. CASE channelState = "READY"
  BY <1>1 DEF ExactlyServed, Initialised
<1>2. CASE channelState = "NOT_CONNECTED"
  BY <1>2 DEF IInv, SnapshotHasChannel
<1>3. QED
  BY <1>1, <1>2 DEF Settled

\* Nothing of the channel changes.
LEMMA ServedStays ==
  ASSUME ExactlyServed, UNCHANGED <<channelState, driveVars>>
  PROVE  ExactlyServed'
BY DEF ExactlyServed, driveVars

\* scsi_scan_host asks a target.
LEMMA ScanRepairs ==
  ASSUME IInv, RInv, ScanTarget
  PROVE  RInv'
<1>1. PICK p : p = MinPort(toScan)
  OBVIOUS
<1>2. /\ stopped /\ toScan # {} /\ channelState \in Settled
      /\ sdevs' = [sdevs EXCEPT ![p] = IF @ = NoDrive THEN driveReady[p] ELSE @]
      /\ toScan' = toScan \ {p}
      /\ UNCHANGED vars /\ UNCHANGED <<worker, unreported>>
  BY <1>1 DEF ScanTarget, AddDevice
<1>3. UNCHANGED <<channelState, driveVars>> /\ UNCHANGED <<driveSaved, rescanWork, stopped, bHotPlug>>
  BY <1>2 DEF vars, stateVars, driveVars, hotVars
<1>4. /\ RescanStateOK /\ ExactlyServed /\ RemovedIsAdded /\ Loading /\ ScanWaits
  BY DEF RInv
<1>5. p \in toScan /\ p \in Ports
  BY <1>1, <1>2, <1>4, MinPortIn DEF RescanStateOK
<1>6. sdevs[p] = NoDrive /\ driveReady[p] = driveSaved[p] /\ driveSaved \in Drives
  BY <1>2, <1>4, <1>5, SettledServes DEF Loading, IInv, TypeOK, DriveTypeOK
<1>7. /\ sdevs' \in Drives
      /\ \A q \in Ports : sdevs'[q] = IF q = p THEN driveSaved[p] ELSE sdevs[q]
  BY <1>2, <1>4, <1>5, <1>6 DEF RescanStateOK, Drives
<1>8. RescanStateOK'
  BY <1>2, <1>4, <1>7 DEF RescanStateOK
<1>9. Loading'
  BY <1>2, <1>3, <1>4, <1>5, <1>7 DEF Loading, RescanStateOK
<1>10. RemovedIsAdded'
  BY <1>2, <1>3, <1>4 DEF RemovedIsAdded, Slots, Work
<1>11. ScanWaits'
  BY <1>2, <1>3 DEF ScanWaits, Initialised, Settled
<1>12. QED
  BY <1>2, <1>3, <1>4, <1>8, <1>9, <1>10, <1>11, ServedStays DEF RInv

\* The driver is loaded: hot-plug is handled from now on.
LEMMA EnableRepairs ==
  ASSUME IInv, RInv, EnableHotplugAfterScan
  PROVE  RInv'
<1>1. /\ toScan = {} /\ stopped /\ stopped' = FALSE
      /\ UNCHANGED <<channelState, driveVars>>
      /\ UNCHANGED <<driveSaved, rescanWork, bHotPlug, sdevs, toScan, worker, unreported>>
  BY DEF EnableHotplugAfterScan, EnableHotplug, rescanVars, stateVars, driveVars
<1>2. /\ RescanStateOK /\ ExactlyServed /\ RemovedIsAdded /\ Loading /\ ScanWaits
  BY DEF RInv
<1>3. RescanStateOK' /\ Loading' /\ ScanWaits'
  BY <1>1, <1>2 DEF RescanStateOK, Loading, ScanWaits
<1>4. RemovedIsAdded'
  BY <1>1, <1>2 DEF RemovedIsAdded, Slots, Work
<1>5. \A p \in Ports \ unreported' : Repaired(p)'
  BY <1>1, <1>2 DEF Loading, Repaired
<1>6. QED
  BY <1>1, <1>2, <1>3, <1>4, <1>5, ServedStays DEF RInv

\* channel_rescan is entered.
LEMMA StartRepairs ==
  ASSUME IInv, RInv, RescanStarts
  PROVE  RInv'
<1>1. /\ worker = Idle /\ rescanWork # <<>>
      /\ rescanWork' = Tail(rescanWork) /\ worker' = Head(rescanWork)
      /\ UNCHANGED <<channelState, driveVars>>
      /\ UNCHANGED <<driveSaved, stopped, bHotPlug, sdevs, toScan, unreported>>
  BY DEF RescanStarts, TakeRescanWork, stateVars, driveVars
<1>2. /\ RescanStateOK /\ ExactlyServed /\ RemovedIsAdded /\ Loading /\ ScanWaits
      /\ ~stopped => \A p \in Ports \ unreported : Repaired(p)
  BY DEF RInv
<1>3. ~stopped
  BY <1>1, <1>2 DEF Loading
<1>4. rescanWork \in Seq(RescanItems)
  BY DEF IInv, TypeOK, HotTypeOK
<1>5. PICK n : n = Len(rescanWork)
  OBVIOUS
<1>6. /\ n \in Nat \ {0} /\ Slots' = 0..(n - 1) /\ Slots = 0..n
      /\ \A i \in 0..(n - 1) : Work(i)' = Work(i + 1)
      /\ Work(0).remove = {} /\ Work(0).add = {}
  BY <1>1, <1>4, <1>5, WorkShifts DEF Slots
<1>7. /\ \A p, i : i \in Slots /\ p \in Work(i).remove =>
              i - 1 \in Slots' /\ p \in Work(i - 1)'.remove
      /\ \A p, i : i \in Slots /\ p \in Work(i).add =>
              i - 1 \in Slots' /\ p \in Work(i - 1)'.add
  BY <1>6
<1>8. RemovedIsAdded'
  <2>1. SUFFICES ASSUME NEW p \in Ports, NEW i \in Slots', p \in Work(i)'.remove,
                        driveSaved'[p] # NoDrive
                 PROVE  \E j \in Slots' : j >= i /\ p \in Work(j)'.add
    BY DEF RemovedIsAdded
  <2>2. i + 1 \in Slots /\ p \in Work(i + 1).remove /\ driveSaved[p] # NoDrive
    BY <1>1, <1>6, <2>1
  <2>3. PICK j \in Slots : j >= i + 1 /\ p \in Work(j).add
    BY <1>2, <2>2 DEF RemovedIsAdded
  <2>4. j - 1 \in Slots' /\ p \in Work(j - 1)'.add /\ j - 1 >= i
    BY <1>6, <1>7, <2>3
  <2>5. QED
    BY <2>4
<1>9. ASSUME NEW p \in Ports \ unreported'
      PROVE  Repaired(p)'
  <2>1. Repaired(p)
    BY <1>1, <1>2, <1>3
  <2>2. (\E i \in Slots : p \in Work(i).remove) => \E i \in Slots' : p \in Work(i)'.remove
    BY <1>7, Zenon
  <2>3. (\E i \in Slots : p \in Work(i).add) => \E i \in Slots' : p \in Work(i)'.add
    BY <1>7, Zenon
  <2>4. QED
    BY <1>1, <2>1, <2>2, <2>3 DEF Repaired
<1>10. RescanStateOK'
  <2>1. Head(rescanWork) \in RescanItems
    BY <1>1, <1>4, HeadTailProperties
  <2>2. QED
    BY <1>1, <1>2, <2>1 DEF RescanStateOK
<1>11. Loading' /\ ScanWaits'
  BY <1>1, <1>2, <1>3 DEF Loading, ScanWaits
<1>12. QED
  BY <1>1, <1>2, <1>8, <1>9, <1>10, <1>11, ServedStays DEF RInv

\* The two loops of channel_rescan.
LEMMA LoopRepairs ==
  ASSUME IInv, RInv, RescanRemoves \/ RescanAdds
  PROVE  RInv'
<1>1. /\ RescanStateOK /\ ExactlyServed /\ RemovedIsAdded /\ Loading /\ ScanWaits
      /\ ~stopped => \A p \in Ports \ unreported : Repaired(p)
  BY DEF RInv
<1>2. /\ worker.remove # {} \/ worker.add # {}
      /\ UNCHANGED vars /\ UNCHANGED <<toScan, unreported>>
  BY DEF RescanRemoves, RescanAdds
<1>3. /\ UNCHANGED <<channelState, driveVars>>
      /\ UNCHANGED <<driveSaved, rescanWork, stopped, bHotPlug>>
  BY <1>2 DEF vars, stateVars, driveVars, hotVars
<1>4. ~stopped
  BY <1>1, <1>2 DEF Loading, Idle
<1>5. /\ Loading' /\ ScanWaits'
  BY <1>1, <1>2, <1>3, <1>4 DEF Loading, ScanWaits
<1>6. /\ 0 \in Slots /\ Slots' = Slots /\ Work(0) = worker /\ Work(0)' = worker'
      /\ \A i \in Slots \ {0} : i > 0 /\ Work(i)' = Work(i)
      /\ Slots \subseteq Nat
  <2>1. Len(rescanWork) \in Nat
    BY LenProperties DEF IInv, TypeOK, HotTypeOK
  <2>2. QED
    BY <1>3, <2>1 DEF Slots, Work
<1>7. driveSaved \in Drives /\ sdevs \in Drives /\ worker \in RescanItems
  BY <1>1 DEF RescanStateOK, IInv, TypeOK, DriveTypeOK
<1>8. CASE RescanRemoves
  <2>1. PICK p : p = MinPort(worker.remove)
    OBVIOUS
  <2>2. /\ worker.remove # {} /\ sdevs' = [sdevs EXCEPT ![p] = NoDrive]
        /\ worker' = [worker EXCEPT !.remove = @ \ {p}]
    BY <1>8, <2>1 DEF RescanRemoves
  <2>3. p \in worker.remove /\ p \in Ports
    BY <1>7, <2>1, <2>2, MinPortIn DEF RescanItems
  <2>4. /\ worker' \in RescanItems
        /\ worker'.remove = worker.remove \ {p} /\ worker'.add = worker.add
    BY <1>7, <2>2 DEF RescanItems
  <2>5. /\ sdevs' \in Drives
        /\ \A q \in Ports : sdevs'[q] = IF q = p THEN NoDrive ELSE sdevs[q]
    BY <1>7, <2>2, <2>3 DEF Drives
  <2>6. /\ \A i \in Slots : Work(i)'.add = Work(i).add
        /\ \A i \in Slots : Work(i)'.remove \subseteq Work(i).remove
        /\ \A i \in Slots : Work(i).remove \subseteq Work(i)'.remove \cup {p}
    BY <1>6, <2>4
  <2>7. RemovedIsAdded'
    BY <1>1, <1>3, <1>6, <2>6 DEF RemovedIsAdded
  <2>8. ASSUME NEW q \in Ports \ unreported'
        PROVE  Repaired(q)'
    <3>1. CASE q = p
      <4>1. driveSaved[p] # NoDrive => \E i \in Slots : p \in Work(i).add
        BY <1>1, <1>6, <2>3 DEF RemovedIsAdded
      <4>2. QED
        BY <1>3, <1>6, <2>5, <2>6, <3>1, <4>1 DEF Repaired
    <3>2. CASE q # p
      <4>1. Repaired(q)
        BY <1>1, <1>2, <1>4
      <4>2. QED
        BY <1>3, <1>6, <2>5, <2>6, <3>2, <4>1 DEF Repaired
    <3>3. QED
      BY <3>1, <3>2
  <2>9. RescanStateOK'
    BY <1>1, <1>2, <2>4, <2>5 DEF RescanStateOK
  <2>10. QED
    BY <1>1, <1>3, <1>5, <2>7, <2>8, <2>9, ServedStays DEF RInv
<1>9. CASE RescanAdds
  <2>1. PICK p : p = MinPort(worker.add)
    OBVIOUS
  <2>2. /\ worker.remove = {} /\ worker.add # {} /\ channelState \in Settled
        /\ sdevs' = [sdevs EXCEPT ![p] = IF @ = NoDrive THEN driveReady[p] ELSE @]
        /\ worker' = [worker EXCEPT !.add = @ \ {p}]
    BY <1>9, <2>1 DEF RescanAdds, AddDevice
  <2>3. p \in worker.add /\ p \in Ports
    BY <1>7, <2>1, <2>2, MinPortIn DEF RescanItems
  <2>4. /\ worker' \in RescanItems
        /\ worker'.remove = {} /\ worker'.add = worker.add \ {p}
    BY <1>7, <2>2 DEF RescanItems
  <2>5. /\ sdevs' \in Drives
        /\ \A q \in Ports \ {p} : sdevs'[q] = sdevs[q]
        /\ sdevs'[p] = IF sdevs[p] = NoDrive THEN driveSaved[p] ELSE sdevs[p]
    <3>1. driveReady = driveSaved
      BY <1>1, <2>2, SettledServes
    <3>2. QED
      BY <1>7, <2>2, <2>3, <3>1 DEF Drives
  <2>6. /\ \A i \in Slots : Work(i)'.remove = Work(i).remove
        /\ Work(0).remove = {} /\ Work(0)'.add = Work(0).add \ {p}
        /\ \A i \in Slots \ {0} : Work(i)'.add = Work(i).add
    BY <1>6, <2>2, <2>4
  <2>7. RemovedIsAdded'
    <3>1. SUFFICES ASSUME NEW q \in Ports, NEW i \in Slots', q \in Work(i)'.remove,
                          driveSaved'[q] # NoDrive
                   PROVE  \E j \in Slots' : j >= i /\ q \in Work(j)'.add
      BY DEF RemovedIsAdded
    <3>2. i # 0 /\ i \in Slots /\ q \in Work(i).remove /\ driveSaved[q] # NoDrive
      BY <1>3, <1>6, <2>6, <3>1
    <3>3. PICK j \in Slots : j >= i /\ q \in Work(j).add
      BY <1>1, <3>2 DEF RemovedIsAdded
    <3>4. j # 0
      BY <1>6, <3>2, <3>3
    <3>5. QED
      BY <1>6, <2>6, <3>3, <3>4
  <2>8. ASSUME NEW q \in Ports \ unreported'
        PROVE  Repaired(q)'
    <3>1. Repaired(q)
      BY <1>1, <1>2, <1>4
    <3>2. CASE q # p
      <4>1. \A i \in Slots : q \in Work(i).add => q \in Work(i)'.add
        BY <2>6, <3>2
      <4>2. QED
        BY <1>3, <1>6, <2>5, <2>6, <3>1, <3>2, <4>1 DEF Repaired
    <3>3. CASE q = p /\ sdevs[p] = NoDrive
      BY <1>3, <2>5, <3>3 DEF Repaired
    <3>4. CASE q = p /\ sdevs[p] # NoDrive
      <4>1. SUFFICES ASSUME sdevs[p] # driveSaved[p]
                     PROVE  Repaired(p)'
        BY <1>3, <2>5, <3>4 DEF Repaired
      <4>2. PICK i \in Slots : p \in Work(i).remove
        BY <3>1, <3>4, <4>1 DEF Repaired
      <4>3. i # 0 /\ p \in Work(i)'.remove
        BY <2>6, <4>2
      <4>4. driveSaved[p] # NoDrive => \E j \in Slots : j >= i /\ p \in Work(j).add
        BY <1>1, <2>3, <4>2 DEF RemovedIsAdded
      <4>5. driveSaved[p] # NoDrive => \E j \in Slots : p \in Work(j)'.add
        BY <1>6, <2>6, <4>3, <4>4
      <4>6. QED
        BY <1>3, <1>6, <4>3, <4>5 DEF Repaired
    <3>5. QED
      BY <3>2, <3>3, <3>4
  <2>9. RescanStateOK'
    BY <1>1, <1>2, <2>4, <2>5 DEF RescanStateOK
  <2>10. QED
    BY <1>1, <1>3, <1>5, <2>7, <2>8, <2>9, ServedStays DEF RInv
<1>10. QED
  BY <1>8, <1>9

-----------------------------------------------------------------------------
(* The theorems.                                                           *)

\* A step of IALRescan is a step of its channel or leaves it alone.
LEMMA RescanDrivesChannel ==
  ASSUME [RescanNext]_allVars
  PROVE  [Next]_vars
<1>1. Tick \/ ChannelEvent => Next
  BY Zenon DEF Tick, ChannelEvent, Next
<1>2. RescanStarts \/ EnableHotplugAfterScan => Next
  BY Zenon DEF RescanStarts, EnableHotplugAfterScan, Next
<1>3. ScanTarget \/ RescanRemoves \/ RescanAdds \/ UNCHANGED allVars => UNCHANGED vars
  BY DEF ScanTarget, RescanRemoves, RescanAdds, allVars
<1>4. QED
  BY <1>1, <1>2, <1>3, Zenon DEF RescanNext

\* The channel behaves as IALChannel specifies.
THEOREM RescanImplementsChannel == RescanSpec => Spec
<1>1. RescanInit => Init
  BY DEF RescanInit
<1>2. [RescanNext]_allVars => [Next]_vars
  BY RescanDrivesChannel, Zenon
<1>3. QED
  BY <1>1, <1>2, PTL DEF RescanSpec, Spec

\* mv_ial_init_soc_sata before its scan.
LEMMA RescanInitEstablishes ==
  ASSUME RescanInit
  PROVE  RInv
<1>1. /\ sdevs = NoDrives /\ toScan = Ports /\ worker = Idle /\ unreported = {}
      /\ driveReady = NoDrives /\ driveCurrent = NoDrives /\ driveSaved = NoDrives
      /\ rescanWork = <<>> /\ stopped = TRUE
  BY DEF RescanInit, Init
<1>2. RescanStateOK
  BY <1>1 DEF RescanStateOK, Drives, NoDrives, RescanItems, Idle
<1>3. ExactlyServed /\ ScanWaits
  BY <1>1 DEF ExactlyServed, ScanWaits
<1>4. RemovedIsAdded
  BY <1>1 DEF RemovedIsAdded, Slots, Work, Idle
<1>5. Loading
  BY <1>1 DEF Loading, NoDrives
<1>6. QED
  BY <1>1, <1>2, <1>3, <1>4, <1>5 DEF RInv

\* Nothing changes.
LEMMA RescanStutterKeeps ==
  ASSUME RInv, UNCHANGED allVars
  PROVE  RInv'
<1>1. /\ UNCHANGED <<channelState, driveSaved, driveCurrent, driveReady, rescanWork>>
      /\ UNCHANGED <<stopped, bHotPlug, sdevs, toScan, worker, unreported>>
  BY DEF allVars, vars, stateVars, driveVars, hotVars, rescanVars
<1>2. RescanStateOK' /\ ExactlyServed' /\ Loading' /\ ScanWaits'
  BY <1>1 DEF RInv, RescanStateOK, ExactlyServed, Loading, ScanWaits
<1>3. RemovedIsAdded' /\ \A p : Repaired(p) => Repaired(p)'
  BY <1>1 DEF RInv, RemovedIsAdded, Repaired, Slots, Work
<1>4. QED
  BY <1>1, <1>2, <1>3 DEF RInv

\* The invariant, and the hypotheses under which it holds: as in the run, the
\* rescan_wrapper can be allocated and a drive that answers identifies itself.
THEOREM RescanInvariant ==
  ASSUME "notify" \notin Faults, "identify" \notin Faults
  PROVE  RescanSpec => []RInv
<1>1. RescanInit => RInv
  BY RescanInitEstablishes, Zenon
<1>2. ASSUME IInv, IInv', RInv, [RescanNext]_allVars
      PROVE  RInv'
  <2>1. ASSUME Recorded, SavesAs(driveSaved), ExactlyServed'
        PROVE  RInv'
    BY <1>2, <2>1, ChannelStepRepairs
  <2>2. ExactlyServed
    BY <1>2 DEF RInv
  <2>3. CASE Tick
    <3>1. SavesAs(driveSaved)
      BY <1>2, <2>3, TickSaves DEF Tick, Saves
    <3>2. ExactlyServed'
      BY <1>2, <2>2, <2>3, TickServes DEF Tick
    <3>3. QED
      BY <2>1, <2>3, <3>1, <3>2 DEF Tick
  <2>4. CASE ChannelEvent
    <3>1. SavesAs(driveSaved) /\ ExactlyServed'
      BY <1>2, <2>2, <2>4, EventSaves, EventServes, Zenon DEF ChannelEvent
    <3>2. QED
      BY <2>1, <2>4, <3>1 DEF ChannelEvent
  <2>5. CASE UNCHANGED allVars
    BY <1>2, <2>5, RescanStutterKeeps, Zenon
  <2>6. QED
    BY <1>2, <2>3, <2>4, <2>5, ScanRepairs, EnableRepairs, StartRepairs, LoopRepairs,
       Zenon DEF RescanNext
<1>3. RescanSpec => []IInv
  BY RescanImplementsChannel, Invariance, PTL
<1>4. QED
  BY <1>1, <1>2, <1>3, PTL DEF RescanSpec

\* The variables keep their types, whatever fails.
THEOREM RescanTypeCorrect == RescanSpec => []RescanTypeOK
<1>1. RescanInit => RescanStateOK
  BY RescanInitEstablishes DEF RInv
<1>2. ASSUME IInv, RescanStateOK, [RescanNext]_allVars
      PROVE  RescanStateOK'
  <2>0. driveReady \in Drives /\ rescanWork \in Seq(RescanItems)
    BY <1>2 DEF IInv, TypeOK, DriveTypeOK, HotTypeOK
  <2>1. CASE Tick \/ ChannelEvent
    BY <1>2, <2>1 DEF Tick, ChannelEvent, Recorded, RescanStateOK
  <2>2. CASE ScanTarget
    BY <1>2, <2>0, <2>2 DEF ScanTarget, AddDevice, RescanStateOK, Drives
  <2>3. CASE EnableHotplugAfterScan \/ UNCHANGED allVars
    BY <1>2, <2>3 DEF EnableHotplugAfterScan, allVars, rescanVars, RescanStateOK
  <2>4. CASE RescanStarts
    <3>1. Head(rescanWork) \in RescanItems
      BY <2>0, <2>4, HeadTailProperties DEF RescanStarts, TakeRescanWork
    <3>2. QED
      BY <1>2, <2>4, <3>1 DEF RescanStarts, RescanStateOK
  <2>5. CASE RescanRemoves
    BY <1>2, <2>5 DEF RescanRemoves, RescanStateOK, Drives, RescanItems
  <2>6. CASE RescanAdds
    BY <1>2, <2>0, <2>6 DEF RescanAdds, AddDevice, RescanStateOK, Drives, RescanItems
  <2>7. QED
    BY <1>2, <2>1, <2>2, <2>3, <2>4, <2>5, <2>6, Zenon DEF RescanNext
<1>3. RescanSpec => []IInv
  BY RescanImplementsChannel, Invariance, PTL
<1>4. IInv /\ RescanStateOK => RescanTypeOK
  BY DEF IInv, RescanStateOK, RescanTypeOK
<1>5. QED
  BY <1>1, <1>2, <1>3, <1>4, PTL DEF RescanSpec

\* Whatever hot-plug events come before, between and during the loops of
\* channel_rescan, a difference between the mid-layer's devices and the drives
\* is repaired by work that IALBusChangeNotifyEx has scheduled.
THEOREM MismatchSafe ==
  ASSUME "notify" \notin Faults, "identify" \notin Faults
  PROVE  RescanSpec => []MismatchIsScheduled
<1>1. ASSUME IInv, RInv
      PROVE  MismatchIsScheduled
  <2>1. Len(rescanWork) \in Nat
    BY <1>1, LenProperties DEF IInv, TypeOK, HotTypeOK
  <2>2. \A i \in Slots : Work(i) \in Scheduled
    BY <2>1 DEF Slots, Work, Scheduled, Elems
  <2>3. QED
    BY <1>1, <2>2 DEF RInv, Repaired, MismatchIsScheduled
<1>2. RescanSpec => []IInv
  BY RescanImplementsChannel, Invariance, PTL
<1>3. QED
  BY <1>1, <1>2, RescanInvariant, PTL

=============================================================================
