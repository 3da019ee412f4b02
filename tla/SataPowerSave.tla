---------------------------- MODULE SataPowerSave ----------------------------
(***************************************************************************)
(* The power saving of the DNS-323 (mvStorageDev.c) beside the channel of  *)
(* SataEdma: a kernel timer sends a disk to standby after a period without *)
(* READ or WRITE.                                                          *)
(*                                                                         *)
(* The timer function runs in a soft interrupt and takes no lock.  On this *)
(* single processor nothing of the IAL runs between its steps, but the     *)
(* interrupt routine may.                                                  *)
(***************************************************************************)
EXTENDS SataEdma

CONSTANT PowerManagementSupport   \* of the disk, from IDENTIFY: -1, 0 or 1

VARIABLE pm   \* the flags of the disk and the timer function's progress

psvars == <<ch, isr, lives, pm>>
chanvars == <<ch, isr, lives>>

PSInit ==
  /\ Init
  /\ pm = [hd_flag |-> "NO_HD", TimerState |-> "STOP", pc |-> "idle",
           SATA_hd_read_write |-> "NO_ACTIVE",
           PowerSavingModeStatus |-> "NO_ACTIVE",
           old |-> {}]   \* the commands there were when the timer was set

\* Code of the IAL runs, so the timer function does not.
Quiet == pm.pc = "idle"

-----------------------------------------------------------------------------
(* mvSataExecuteScsiCommand marks the disk for READ and WRITE only, whether *)
(* the command is accepted or not; VERIFY, SYNCHRONIZE CACHE and SMART are  *)
(* the non-UDMA commands.                                                   *)

ReadWrite ==
  /\ Quiet
  /\ pm' = [pm EXCEPT !.SATA_hd_read_write = "ACTIVE",
                      !.PowerSavingModeStatus = "ACTIVE"]
  /\ (\E c \in Cmds, p \in Ports : QueueUdma(c, p)) \/ UNCHANGED chanvars

OtherCommand ==
  /\ Quiet /\ UNCHANGED pm
  /\ \E c \in Cmds, p \in Ports : QueueNoneUdma(c, p)

\* The ioctls; enabling needs a disk.
EnablePowerSaving ==
  /\ Quiet /\ UNCHANGED chanvars
  /\ pm.hd_flag = "FOUND_HD"
  /\ pm' = [pm EXCEPT !.TimerState = "START", !.old = Owed,
                      !.SATA_hd_read_write = IF @ = "STANDBY" THEN @
                                                              ELSE "NO_ACTIVE"]

DisablePowerSaving ==
  /\ Quiet /\ UNCHANGED chanvars
  /\ pm' = [pm EXCEPT !.TimerState = "STOP", !.SATA_hd_read_write = "ACTIVE"]

-----------------------------------------------------------------------------
(* timer_run and SendPowerSavingModeCommand.                               *)

\* No command lives through a period, of a minute at least, from one setting of
\* the timer to the next: it would have timed out.
PeriodOver == \A c \in pm.old : lives[c] = 0

\* The period ends: an active disk gets another one, for an idle one DMA is
\* disabled.
TimerRun ==
  /\ Quiet /\ isr.pc = "idle" /\ pm.TimerState = "START" /\ PeriodOver
  /\ \/ /\ pm.SATA_hd_read_write = "ACTIVE"
        /\ pm' = [pm EXCEPT !.SATA_hd_read_write = "NO_ACTIVE", !.old = Owed]
        /\ UNCHANGED chanvars
     \/ /\ pm.SATA_hd_read_write = "NO_ACTIVE" /\ PowerManagementSupport = 1
        /\ pm' = [pm EXCEPT !.SATA_hd_read_write = "STANDBY", !.pc = "command"]
        /\ Step(disableChannelDma(ch), {}, isr)
     \/ /\ \/ pm.SATA_hd_read_write = "STANDBY"
           \/ pm.SATA_hd_read_write = "NO_ACTIVE" /\ PowerManagementSupport # 1
        /\ pm' = [pm EXCEPT !.old = Owed]
        /\ UNCHANGED chanvars

\* STANDBY IMMEDIATE is polled for; a disk that is busy is not sent it.  Whether
\* it was sent, succeeded or failed, the flag stays.  The drive's interrupt at
\* the end of the command is the spurious one of SataEdma.
StandbyImmediate ==
  /\ pm.pc = "command" /\ isr.pc = "idle"
  /\ pm' = [pm EXCEPT !.pc = "enable"]
  /\ UNCHANGED chanvars

\* mvSataEnableChannelDma, which refuses only a queue that is enabled.  By way of
\* activateEdma a drive still busy with a PIO command gets a soft reset and the
\* command is lost (ch.pio), but its entry stays.
StandbyEnablesDma ==
  /\ pm.pc = "enable" /\ isr.pc = "idle"
  /\ pm' = [pm EXCEPT !.pc = "idle", !.PowerSavingModeStatus = "STANDBY",
                      !.old = Owed]
  /\ IF ch.queueCommandsEnabled THEN UNCHANGED chanvars
     ELSE Step([activateEdma(ch) EXCEPT !.queueCommandsEnabled = TRUE], {}, isr)

-----------------------------------------------------------------------------
\* The interrupt routine and the hardware go on at any time.
Below ==
  /\ UNCHANGED pm
  /\ \/ IsrStep \/ DeviceNotBusy \/ DevicePIO \/ DeviceReadLog \/ DeviceSpurious
     \/ DeviceLate \/ EdmaFetches
     \/ \E t \in HostTags : DriveCompletes(t) \/ DriveFails(t)
     \/ \E kind \in LinkFaults : LinkEvent(kind)
     \/ \E kind \in Notices : LinkNotice(kind)

\* IDENTIFY finds the disk before DMA is enabled; hd_flag is never cleared.
Initialise ==
  /\ Quiet
  /\ \/ (RestartChannel \/ ConfigureChannel) /\ UNCHANGED pm
     \/ EnableChannelDma /\ pm' = [pm EXCEPT !.hd_flag = "FOUND_HD"]

PSNext ==
  \/ ReadWrite \/ OtherCommand
  \/ EnablePowerSaving \/ DisablePowerSaving
  \/ TimerRun \/ StandbyImmediate \/ StandbyEnablesDma
  \/ Initialise \/ Below

PSSpec == PSInit /\ [][PSNext]_psvars

-----------------------------------------------------------------------------
\* "if this function called while commands still not finished, then it's probably
\* timeout" (mvSataDisableChannelDma): commands found unfinished are given up.
\* So once the timer function is done, DMA is not enabled again over a PIO command
\* at the head of the list that was neither called back nor will be sent.
DisabledMeansGivenUp == Quiet => PioNotStranded

=============================================================================
