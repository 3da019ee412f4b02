------------------------------ MODULE IALHost ------------------------------
(***************************************************************************)
(* The Linux side of one channel: queuecommand, the error handler's abort  *)
(* and bus reset, the interrupt handler and the timer function, each split *)
(* where it releases adapter_lock, on top of the channel of IALChannel.    *)
(*                                                                         *)
(* The kernel is built without SMP and PREEMPT: process context (a         *)
(* submitter or the error handler thread, one at a time) is interrupted by *)
(* the timer softirq, both by the interrupt handler, and a section under   *)
(* adapter_lock by nothing.  Inside scsi_unblock_requests the timer        *)
(* function itself submits commands ("nested").                            *)
(*                                                                         *)
(* The SCSI mid-layer is environment: cmdState says who owns a command and    *)
(* how far error recovery has come with it.                                *)
(***************************************************************************)
EXTENDS IALChannel

CONSTANT NoCmd   \* no command is being dispatched

ASSUME NoCmdAssumption == NoCmd \notin Cmds

VARIABLES
  hostBlocked,   \* host[channel]->hostBlocked
  selfBlocked,   \* the mid-layer's host_self_blocked
  pc,            \* where each context stands
  local,         \* its list of completed commands, not yet handed over
  dispatching,   \* the command a context carries through queuecommand
  cmdState       \* the mid-layer's view of each command

hostVars == <<hostBlocked, selfBlocked, pc, local, dispatching, cmdState>>
fullVars == <<vars, hostVars>>

Submitters == {"caller", "nested"}
Contexts   == Submitters \cup {"timer", "irq"}
Steps      == {"idle", "dispatch", "take", "done",                \* queuecommand
               "abortTake", "abortDone", "resetTake",             \* error handler
               "check", "clear", "unblock", "run"}                \* timer

\* Owned by the mid-layer: idle, and during recovery aborted, failed, reset,
\* turDone.  Owned by the driver: issued, tur.  Given up by the mid-layer's
\* timer while the driver may still have them: timedout, turTimedout.
CmdStates == {"idle", "issued", "timedout", "aborted", "failed", "reset",
              "tur", "turTimedout", "turDone"}

HostTypeOK ==
  /\ TypeOK
  /\ hostBlocked \in BOOLEAN /\ selfBlocked \in BOOLEAN
  /\ pc \in [Contexts -> Steps]
  /\ local \in [Contexts -> SUBSET Cmds]
  /\ dispatching \in [Submitters -> Cmds \cup {NoCmd}]
  /\ cmdState \in [Cmds -> CmdStates]

-----------------------------------------------------------------------------
(* Who may run: adapter_lock is held across a "take" step and interrupts   *)
(* are off in the handler.                                                 *)

Locked == \/ pc["irq"] # "idle"
          \/ \E x \in Submitters : pc[x] \in {"take", "abortTake", "resetTake"}
MayInterrupt == ~Locked
TimerMayRun  == ~Locked /\ pc["nested"] = "idle"
HoldsLock(x) == pc[x] \in {"take", "abortTake", "resetTake"}
MayRun(x)    == /\ pc["irq"] = "idle"
                /\ pc["timer"] = IF x = "caller" THEN "idle" ELSE "run"
                /\ Locked => HoldsLock(x)

Goto(x, step) == pc' = [pc EXCEPT ![x] = step]

\* scsi_done, and scsi_eh_done for a command of the error handler: the call is
\* ignored when the mid-layer's timer has given up on the command.
ScsiDone(S) ==
  [c \in Cmds |-> IF c \notin S THEN cmdState[c]
                  ELSE CASE cmdState[c] = "issued" -> "idle"
                         [] cmdState[c] = "tur" -> "turDone"
                         [] OTHER -> cmdState[c]]

\* Mutation: the flag is computed afresh although the host is blocked.
BlockAgain ==
  IF channelState' \notin Settled
  THEN hostBlocked' = TRUE /\ selfBlocked' = TRUE
  ELSE hostBlocked' = FALSE /\ UNCHANGED selfBlocked

\* mv_ial_block_requests, called after the event changed the channel state.
BlockRequests ==
  CASE hostBlocked -> UNCHANGED <<hostBlocked, selfBlocked>>
    [] ~hostBlocked /\ channelState' \notin Settled ->
         hostBlocked' = TRUE /\ selfBlocked' = TRUE
    [] OTHER -> hostBlocked' = FALSE /\ UNCHANGED selfBlocked

-----------------------------------------------------------------------------
(* mv_ial_lib_int_handler.                                                 *)

\* mvSataInterruptServiceRoutine finds one event or one completion;
\* mv_ial_lib_event_notify blocks the host when it restarted the channel.
Interrupt ==
  /\ MayInterrupt
  /\ \/ RestartChannel /\ BlockRequests
     \/ mvPMHotPlugDetected /\ BlockRequests
     \/ CableDisconnect /\ UNCHANGED <<hostBlocked, selfBlocked>>
     \/ EdmaDisabled /\ UNCHANGED <<hostBlocked, selfBlocked>>
     \/ /\ \E i \in 1..Len(commandsQueue) : CommandCompletes(i)
        /\ UNCHANGED <<hostBlocked, selfBlocked>>
     \/ /\ \E changed \in SUBSET Ports : PMCommandCompletionCB(changed)
        /\ UNCHANGED <<hostBlocked, selfBlocked>>
  /\ Goto("irq", "take")
  /\ UNCHANGED <<local, dispatching, cmdState>>

\* The handler hands the completed commands over before it returns.
InterruptCompletes ==
  /\ pc["irq"] = "take"
  /\ TakeDoneList
  /\ cmdState' = ScsiDone(Elems(scsi_cmnd_done))
  /\ Goto("irq", "idle")
  /\ UNCHANGED <<hostBlocked, selfBlocked, local, dispatching>>

-----------------------------------------------------------------------------
(* asyncStartTimerFunction.                                                *)

TimerTick ==
  /\ TimerMayRun /\ pc["timer"] = "idle"
  /\ mvIALTimerCallback
  /\ Goto("timer", IF hostBlocked THEN "check" ELSE "take")
  /\ UNCHANGED <<hostBlocked, selfBlocked, local, dispatching, cmdState>>

\* Mutation: an unplugged channel does not unblock its host.
UnblockOnlyReady ==
  /\ TimerMayRun /\ pc["timer"] = "check"
  /\ Goto("timer", IF channelState = "READY" THEN "clear" ELSE "take")
  /\ UNCHANGED <<vars, hostBlocked, selfBlocked, local, dispatching, cmdState>>

\* mv_ial_unblock_requests runs with adapter_lock released: its test, the
\* flag and scsi_unblock_requests are three steps.
UnblockTests ==
  /\ TimerMayRun /\ pc["timer"] = "check"
  /\ Goto("timer", IF channelState \in Settled THEN "clear" ELSE "take")
  /\ UNCHANGED <<vars, hostBlocked, selfBlocked, local, dispatching, cmdState>>

UnblockClears ==
  /\ TimerMayRun /\ pc["timer"] = "clear"
  /\ hostBlocked' = FALSE
  /\ Goto("timer", "unblock")
  /\ UNCHANGED <<vars, selfBlocked, local, dispatching, cmdState>>

UnblockRequests ==
  /\ TimerMayRun /\ pc["timer"] = "unblock"
  /\ selfBlocked' = FALSE
  /\ Goto("timer", "run")
  /\ UNCHANGED <<vars, hostBlocked, local, dispatching, cmdState>>

\* Mutation: the end of the list is taken for one more command.
TimerTakesEnd ==
  /\ TimerMayRun /\ pc["timer"] \in {"take", "run"}
  /\ TakeDoneList
  /\ local' = [local EXCEPT !["timer"] = Elems(scsi_cmnd_done) \cup {NoCmd}]
  /\ Goto("timer", "done")
  /\ UNCHANGED <<hostBlocked, selfBlocked, dispatching, cmdState>>

TimerTakes ==
  /\ TimerMayRun /\ pc["timer"] \in {"take", "run"}
  /\ TakeDoneList
  /\ local' = [local EXCEPT !["timer"] = Elems(scsi_cmnd_done)]
  /\ Goto("timer", "done")
  /\ UNCHANGED <<hostBlocked, selfBlocked, dispatching, cmdState>>

TimerCompletes ==
  /\ TimerMayRun /\ pc["timer"] = "done"
  /\ cmdState' = ScsiDone(local["timer"])
  /\ local' = [local EXCEPT !["timer"] = {}]
  /\ Goto("timer", "idle")
  /\ UNCHANGED <<vars, hostBlocked, selfBlocked, dispatching>>

-----------------------------------------------------------------------------
(* mv_ial_ht_queuecommand, from a submitter, nested in the timer function, *)
(* or for a TEST UNIT READY of the error handler.                          *)

Recovering == \E c \in Cmds : cmdState[c] \notin {"idle", "issued"}

\* scsi_dispatch_cmd (mid-layer) tests the block under host_lock, which
\* queuecommand releases before it takes adapter_lock.
Dispatch(x, c) ==
  /\ MayRun(x) /\ pc[x] = "idle"
  /\ cmdState[c] = "idle" /\ ~selfBlocked /\ ~Recovering
  /\ cmdState' = [cmdState EXCEPT ![c] = "issued"]
  /\ dispatching' = [dispatching EXCEPT ![x] = c]
  /\ Goto(x, "dispatch")
  /\ UNCHANGED <<vars, hostBlocked, selfBlocked, local>>

\* The section under adapter_lock.
QueueCommand(x, p) ==
  /\ MayRun(x) /\ pc[x] = "dispatch"
  /\ \/ mvExecuteScsiCommand(dispatching[x], p)
     \/ SendSmartCommand(dispatching[x], p)
  /\ dispatching' = [dispatching EXCEPT ![x] = NoCmd]
  /\ Goto(x, "take")
  /\ UNCHANGED <<hostBlocked, selfBlocked, local, cmdState>>

\* No memory for the SAL block or no PRD table: -1, the mid-layer keeps the
\* command.  The error handler ignores the result and waits for its timeout.
QueueCommandRefused(x) ==
  /\ MayRun(x) /\ pc[x] = "dispatch"
  /\ cmdState' = [cmdState EXCEPT ![dispatching[x]] =
                    IF @ = "issued" THEN "idle" ELSE "turTimedout"]
  /\ dispatching' = [dispatching EXCEPT ![x] = NoCmd]
  /\ Goto(x, "idle")
  /\ UNCHANGED <<vars, hostBlocked, selfBlocked, local>>

\* The same list is taken at the end of the section under the lock.
QueueCommandTakes(x) ==
  /\ MayRun(x) /\ pc[x] = "take"
  /\ TakeDoneList
  /\ local' = [local EXCEPT ![x] = Elems(scsi_cmnd_done)]
  /\ Goto(x, "done")
  /\ UNCHANGED <<hostBlocked, selfBlocked, dispatching, cmdState>>

\* mv_ial_lib_do_done, with host_lock taken again.
QueueCommandCompletes(x) ==
  /\ MayRun(x) /\ pc[x] = "done"
  /\ cmdState' = ScsiDone(local[x])
  /\ local' = [local EXCEPT ![x] = {}]
  /\ Goto(x, "idle")
  /\ UNCHANGED <<vars, hostBlocked, selfBlocked, dispatching>>

-----------------------------------------------------------------------------
(* Timeouts and error recovery.                                            *)

\* The mid-layer's timer (mid-layer), in the same softirq as the driver's.
CommandTimesOut(c) ==
  /\ TimerMayRun /\ pc["timer"] = "idle"
  /\ cmdState[c] \in {"issued", "tur"}
  /\ \A x \in Submitters : dispatching[x] # c
  /\ cmdState' = [cmdState EXCEPT ![c] =
                    IF @ = "issued" THEN "timedout" ELSE "turTimedout"]
  /\ UNCHANGED <<vars, hostBlocked, selfBlocked, pc, local, dispatching>>

\* The error handler thread runs when every command the host has was given up,
\* and deals with one at a time (mid-layer).
RecoveryMayRun == /\ MayRun("caller") /\ pc["caller"] = "idle"
                  /\ \A c \in Cmds : cmdState[c] \notin {"issued", "tur"}

\* mv_ial_ht_abort, the section under adapter_lock.
Abort(c) ==
  /\ RecoveryMayRun
  /\ cmdState[c] \in {"timedout", "turTimedout"}
  /\ \A d \in Cmds \ {c} : cmdState[d] # "turTimedout"
  /\ RestartChannel
  /\ BlockRequests
  /\ dispatching' = [dispatching EXCEPT !["caller"] = c]
  /\ Goto("caller", "abortTake")
  /\ UNCHANGED <<local, cmdState>>

\* Mutation: the completed commands are left in the list.
AbortLeavesList ==
  /\ MayRun("caller") /\ pc["caller"] = "abortTake"
  /\ Goto("caller", "abortDone")
  /\ UNCHANGED <<vars, hostBlocked, selfBlocked, local, dispatching, cmdState>>

\* mv_ial_lib_get_first_cmnd, still under the lock.
AbortTakes ==
  /\ MayRun("caller") /\ pc["caller"] = "abortTake"
  /\ TakeDoneList
  /\ local' = [local EXCEPT !["caller"] = Elems(scsi_cmnd_done)]
  /\ Goto("caller", "abortDone")
  /\ UNCHANGED <<hostBlocked, selfBlocked, dispatching, cmdState>>

\* SUCCESS when some command was completed, FAILED when none was; after a
\* TEST UNIT READY that timed out the mid-layer does not look at the result.
AbortReturns ==
  /\ MayRun("caller") /\ pc["caller"] = "abortDone"
  /\ LET c == dispatching["caller"]
     IN cmdState' = [ScsiDone(local["caller"]) EXCEPT ![c] =
                       IF cmdState[c] = "timedout" /\ local["caller"] # {}
                       THEN "aborted" ELSE "failed"]
  /\ local' = [local EXCEPT !["caller"] = {}]
  /\ dispatching' = [dispatching EXCEPT !["caller"] = NoCmd]
  /\ Goto("caller", "idle")
  /\ UNCHANGED <<vars, hostBlocked, selfBlocked>>

\* scsi_eh_tur (mid-layer): the same command structure is sent again, past the
\* block, with TEST UNIT READY in it.
TestUnitReady(c) ==
  /\ RecoveryMayRun
  /\ cmdState[c] \in {"aborted", "reset"}
  /\ \A d \in Cmds : cmdState[d] # "turTimedout"
  /\ cmdState' = [cmdState EXCEPT ![c] = "tur"]
  /\ dispatching' = [dispatching EXCEPT !["caller"] = c]
  /\ Goto("caller", "dispatch")
  /\ UNCHANGED <<vars, hostBlocked, selfBlocked, local>>

\* mv_ial_ht_bus_reset when every command could not be aborted; without a
\* channel it returns FAILED and changes nothing.
BusReset ==
  /\ RecoveryMayRun
  /\ \E c \in Cmds : cmdState[c] = "failed"
  /\ \A c \in Cmds : cmdState[c] \in {"idle", "failed"}
  /\ sataChannel
  /\ RestartChannel
  /\ BlockRequests
  /\ Goto("caller", "resetTake")
  /\ UNCHANGED <<local, dispatching, cmdState>>

\* "don't call scsi done for the commands on this channel": the completed
\* commands are dropped.
BusResetReturns ==
  /\ MayRun("caller") /\ pc["caller"] = "resetTake"
  /\ TakeDoneList
  /\ cmdState' = [c \in Cmds |-> IF cmdState[c] = "failed" THEN "reset"
                                                           ELSE cmdState[c]]
  /\ Goto("caller", "idle")
  /\ UNCHANGED <<hostBlocked, selfBlocked, local, dispatching>>

\* The error handler finishes a command (mid-layer): it answered, or the
\* device is taken offline.  The mid-layer then retries or frees it.
RecoveryFinishes(c) ==
  /\ RecoveryMayRun
  /\ cmdState[c] \in {"turDone", "failed"}
  /\ \/ cmdState' = [cmdState EXCEPT ![c] = "idle"]
     \/ cmdState[c] = "turDone" /\ cmdState' = [cmdState EXCEPT ![c] = "failed"]
  /\ UNCHANGED <<vars, hostBlocked, selfBlocked, pc, local, dispatching>>

-----------------------------------------------------------------------------

\* mv_ial_init_soc_sata blocks a host whose channel is being initialised.
HostInit ==
  /\ Init
  /\ hostBlocked = (channelState \notin Settled)
  /\ selfBlocked = hostBlocked
  /\ pc = [x \in Contexts |-> "idle"]
  /\ local = [x \in Contexts |-> {}]
  /\ dispatching = [x \in Submitters |-> NoCmd]
  /\ cmdState = [c \in Cmds |-> "idle"]

TimerFunction ==
  \/ TimerTick \/ UnblockTests \/ UnblockClears \/ UnblockRequests
  \/ TimerTakes \/ TimerCompletes

HostNext ==
  \/ Interrupt
  \/ InterruptCompletes
  \/ TimerTick
  \/ UnblockTests
  \/ UnblockClears
  \/ UnblockRequests
  \/ TimerTakes
  \/ TimerCompletes
  \/ \E x \in Submitters, c \in Cmds : Dispatch(x, c)
  \/ \E x \in Submitters, p \in Ports : QueueCommand(x, p)
  \/ \E x \in Submitters : QueueCommandRefused(x)
  \/ \E x \in Submitters : QueueCommandTakes(x)
  \/ \E x \in Submitters : QueueCommandCompletes(x)
  \/ \E c \in Cmds : CommandTimesOut(c)
  \/ \E c \in Cmds : Abort(c)
  \/ AbortTakes
  \/ AbortReturns
  \/ \E c \in Cmds : TestUnitReady(c)
  \/ BusReset
  \/ BusResetReturns
  \/ \E c \in Cmds : RecoveryFinishes(c)

HostSpec == HostInit /\ [][HostNext]_fullVars

\* The handler returns and a section under adapter_lock ends.  Interrupts do
\* not follow each other so closely that the softirq they interrupt never
\* gets a step.
SubmitterStep(x) ==
  \/ \E p \in Ports : QueueCommand(x, p)
  \/ QueueCommandTakes(x) \/ QueueCommandCompletes(x)
HostFairSpec ==
  /\ HostSpec
  /\ WF_fullVars(InterruptCompletes)
  /\ WF_fullVars(QueueCommandTakes("caller") \/ AbortTakes \/ BusResetReturns)
  /\ SF_fullVars(SubmitterStep("nested"))
  /\ SF_fullVars(TimerFunction)

-----------------------------------------------------------------------------

\* Where the driver may have command c: in one of its queues, in a list of
\* completed commands some context is about to hand over, or in queuecommand.
DriverHas(c) ==
  \/ c \in Held
  \/ \E x \in Contexts : c \in local[x]
  \/ \E x \in Submitters : pc[x] = "dispatch" /\ dispatching[x] = c

\* The driver never forgets a command the mid-layer waits for: from
\* queuecommand to scsi_done it is in one of the driver's lists, through
\* resets, unplugs and the windows in which adapter_lock is released.
NothingLost ==
  \A c \in Cmds : cmdState[c] \in {"issued", "tur"} => DriverHas(c)

\* A command the mid-layer may free or reuse is in none of the driver's lists:
\* after abort or bus reset no completion of it can come late.
NothingKept ==
  \A c \in Cmds :
    cmdState[c] \in {"idle", "aborted", "failed", "reset", "turDone"}
      => ~DriverHas(c)

\* A blocked mid-layer is going to be unblocked: hostBlocked, which makes the
\* timer try, is only cleared on the way to scsi_unblock_requests.
BlockedIsRemembered ==
  selfBlocked => hostBlocked \/ pc["timer"] = "unblock"

\* Once nothing restarts the channel any more, the mid-layer is unblocked for
\* good: no interleaving of an event with the unprotected test, flag and call
\* of mv_ial_unblock_requests leaves the host blocked for ever.
EventuallyUnblocked == <>[][NoNewReset]_fullVars => <>[]~selfBlocked

\* "Blocks request from SCSI mid layer while channel initialization is in
\* progress" (mv_ial_block_requests).
InitIsBlocked == channelState \notin Settled => selfBlocked

=============================================================================
