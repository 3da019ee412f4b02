----------------------------- MODULE IALRescan -----------------------------
(***************************************************************************)
(* The channel of IALChannel together with the part of the driver that     *)
(* keeps the SCSI mid-layer's devices in step with the drives: the scan of *)
(* the host when the driver is loaded (mv_ial_init_soc_sata) and the       *)
(* channel_rescan work items that IALBusChangeNotifyEx schedules.          *)
(*                                                                         *)
(* "sdevs" is the mid-layer's scsi_device table: which drive was behind    *)
(* each target when its device was created.  scsi_add_device asks the      *)
(* target with an INQUIRY, which is answered once the channel is settled,  *)
(* and leaves a device that exists already alone.                          *)
(***************************************************************************)
EXTENDS IALChannel

VARIABLES
  sdevs,       \* [Ports -> drive the scsi_device stands for]
  toScan,      \* targets scsi_scan_host has still to ask
  worker,      \* the channel_rescan in progress: what is left to do
  unreported   \* history: ports whose change was dropped, "stopped" being set

rescanVars == <<sdevs, toScan, worker, unreported>>
allVars    == <<vars, rescanVars>>

Idle == [remove |-> {}, add |-> {}]

RescanTypeOK ==
  /\ TypeOK
  /\ sdevs \in Drives
  /\ toScan \subseteq Ports
  /\ worker \in RescanItems
  /\ unreported \subseteq Ports

-----------------------------------------------------------------------------

\* scsi_add_device and scsi_scan_host for target p (mid-layer): an existing
\* device is kept, a target without a drive gets none.
AddDevice(p) ==
  /\ channelState \in Settled
  /\ sdevs' = [sdevs EXCEPT ![p] = IF @ = NoDrive THEN driveReady[p] ELSE @]

\* Mutation: the loop over the targets runs one too far.
ScanPastLast ==
  /\ stopped /\ toScan # {}
  /\ LET p == MinPort(toScan)
     IN /\ AddDevice(p)
        /\ toScan' = (toScan \ {p}) \cup ({p + 1} \ Ports)
  /\ UNCHANGED <<vars, worker, unreported>>

\* scsi_scan_host at the end of mv_ial_init_soc_sata asks one target after
\* the other.
ScanTarget ==
  /\ stopped /\ toScan # {}
  /\ AddDevice(MinPort(toScan))
  /\ toScan' = toScan \ {MinPort(toScan)}
  /\ UNCHANGED <<vars, worker, unreported>>

\* The hot-plug handler is enabled when the scan is over.
EnableHotplugAfterScan ==
  /\ toScan = {}
  /\ EnableHotplug
  /\ UNCHANGED rescanVars

\* Mutation: the work waits for a channel that is ready, which a channel whose
\* cable was pulled may never be again.
RescanStartsWhenReady ==
  /\ channelState = "READY"
  /\ worker = Idle
  /\ TakeRescanWork
  /\ worker' = Head(rescanWork)
  /\ UNCHANGED <<sdevs, toScan, unreported>>

\* channel_rescan is entered, with rescan_mutex taken and "stopped" clear.
RescanStarts ==
  /\ worker = Idle
  /\ TakeRescanWork
  /\ worker' = Head(rescanWork)
  /\ UNCHANGED <<sdevs, toScan, unreported>>

\* The first loop of channel_rescan: scsi_remove_device of one target.
RescanRemoves ==
  /\ worker.remove # {}
  /\ LET p == MinPort(worker.remove)
     IN /\ sdevs' = [sdevs EXCEPT ![p] = NoDrive]
        /\ worker' = [worker EXCEPT !.remove = @ \ {p}]
  /\ UNCHANGED <<vars, toScan, unreported>>

\* Mutation: the two loops run in the other order.
RescanAddsFirst ==
  /\ worker.add # {}
  /\ LET p == MinPort(worker.add)
     IN /\ AddDevice(p)
        /\ worker' = [worker EXCEPT !.add = @ \ {p}]
  /\ UNCHANGED <<vars, toScan, unreported>>

\* The second loop: scsi_add_device of one target.
RescanAdds ==
  /\ worker.remove = {} /\ worker.add # {}
  /\ LET p == MinPort(worker.add)
     IN /\ AddDevice(p)
        /\ worker' = [worker EXCEPT !.add = @ \ {p}]
  /\ UNCHANGED <<vars, toScan, unreported>>

\* What a step of the channel does here: the ports whose saved drive it changes
\* while the hot-plug handler is stopped are recorded, except those still to be
\* scanned, until a notification has their device removed.
Recorded ==
  /\ unreported' = IF stopped
                   THEN unreported \cup
                          {p \in Ports \ toScan : driveSaved'[p] # driveSaved[p]}
                   ELSE unreported \ UNION {w.remove : w \in Elems(rescanWork')}
  /\ UNCHANGED <<sdevs, toScan, worker>>

Tick == mvIALTimerCallback /\ Recorded

ChannelEvent ==
  /\ \/ RestartChannel
     \/ CableDisconnect
     \/ mvPMHotPlugDetected
     \/ EdmaDisabled
     \/ \E changed \in SUBSET Ports : PMCommandCompletionCB(changed)
  /\ Recorded

-----------------------------------------------------------------------------

RescanInit ==
  /\ Init
  /\ sdevs = NoDrives
  /\ toScan = Ports
  /\ worker = Idle
  /\ unreported = {}

RescanNext ==
  \/ Tick
  \/ ChannelEvent
  \/ ScanTarget
  \/ EnableHotplugAfterScan
  \/ RescanStarts
  \/ RescanRemoves
  \/ RescanAdds

RescanSpec == RescanInit /\ [][RescanNext]_allVars

\* keventd runs the work items, the loading process finishes its scan, and
\* the channel's timer ticks.
RescanFairSpec ==
  /\ RescanSpec
  /\ WF_allVars(Tick)
  /\ WF_allVars(ScanTarget \/ EnableHotplugAfterScan)
  /\ WF_allVars(RescanStarts \/ RescanRemoves \/ RescanAdds)

-----------------------------------------------------------------------------

\* Whenever the channel is settled, every difference between the mid-layer's
\* devices and the drives is about to be repaired by work that is scheduled
\* or under way: a device of a drive that is gone or replaced is going to be
\* removed, a drive without its device is going to be added.  So with no work
\* left both agree, whatever hot-plug events came between the two loops of
\* channel_rescan.  Excepted are ports that changed after their scan while the
\* driver was still loading, because IALBusChangeNotifyEx drops those, until the
\* next removal of their drive is reported.
Scheduled == {worker} \cup Elems(rescanWork)
MismatchIsScheduled ==
  channelState \in Settled /\ ~stopped
    => \A p \in Ports \ unreported : sdevs[p] # driveSaved[p]
         => /\ sdevs[p] # NoDrive => \E w \in Scheduled : p \in w.remove
            /\ driveSaved[p] # NoDrive => \E w \in Scheduled : p \in w.add

\* If cables are left alone from some time on, the devices eventually match
\* the drives for good.
NoNewEvent == /\ channelState' \in {"CONNECTED", "PM_HOT_PLUG"}
                   => channelState' = channelState
              /\ channelState' = "NOT_CONNECTED" => driveSaved' = driveSaved
EventuallyInStep ==
  <>[][NoNewEvent]_allVars
    => <>[](\A p \in Ports \ unreported : sdevs[p] = driveSaved[p])

=============================================================================
