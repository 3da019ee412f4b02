---------------------------- MODULE IALHostProofs ----------------------------
(***************************************************************************)
(* Proofs about IALHost: whatever the interleaving of submitters, error    *)
(* handler, timer function and interrupt handler, the driver has exactly   *)
(* the commands the mid-layer waits for, and a blocked host is remembered. *)
(***************************************************************************)
EXTENDS IALHost, IALQueueProofs

-----------------------------------------------------------------------------
(* The inductive invariant.                                                *)

HostStateOK ==
  /\ hostBlocked \in BOOLEAN /\ selfBlocked \in BOOLEAN
  /\ pc \in [Contexts -> Steps]
  /\ local \in [Contexts -> SUBSET Cmds]
  /\ dispatching \in [Submitters -> Cmds \cup {NoCmd}]
  /\ cmdState \in [Cmds -> CmdStates]

\* Where each context can stand, and who waits for whom: the caller waits for
\* the timer function, which waits for the commands submitted inside it.
Order ==
  /\ pc["irq"] \in {"idle", "take"}
  /\ pc["timer"] \in {"idle", "check", "clear", "unblock", "run", "take", "done"}
  /\ pc["nested"] \in {"idle", "dispatch", "take", "done"}
  /\ pc["caller"] \in Steps \ {"check", "clear", "unblock", "run"}
  /\ pc["nested"] # "idle" => pc["timer"] = "run"
  /\ HoldsLock("caller") => pc["timer"] = "idle" /\ pc["irq"] = "idle"
  /\ HoldsLock("nested") => pc["irq"] = "idle"
  /\ \A x \in Contexts : local[x] # {} => pc[x] \in {"done", "abortDone"}

\* A command is in one place at most: the channel's lists, the list some
\* context is about to hand over, or the hands of queuecommand.
OnePlace ==
  /\ \A x \in Contexts : local[x] \cap Held = {}
  /\ \A x, y \in Contexts : x # y => local[x] \cap local[y] = {}
  /\ \A x \in Submitters : pc[x] = "dispatch" =>
       /\ dispatching[x] \in Cmds /\ dispatching[x] \notin Held
       /\ cmdState[dispatching[x]] \in {"issued", "tur"}
       /\ \A y \in Contexts : dispatching[x] \notin local[y]
       /\ \A y \in Submitters : pc[y] = "dispatch" /\ dispatching[y] = dispatching[x]
                                  => y = x

\* While the error handler aborts, nobody is waited for and nothing enters the
\* driver; while it resets the bus, no command is timing out.
Recovery ==
  /\ pc["caller"] \in {"abortTake", "abortDone"} =>
       /\ dispatching["caller"] \in Cmds
       /\ cmdState[dispatching["caller"]] \in {"timedout", "turTimedout"}
       /\ \A c \in Cmds : cmdState[c] \notin {"issued", "tur"}
       /\ pc["nested"] = "idle" /\ local["timer"] = {}
  /\ pc["caller"] = "abortTake" => Held = Elems(scsi_cmnd_done)
  /\ pc["caller"] = "abortDone" => Held = {}
  /\ pc["caller"] = "resetTake" => \A c \in Cmds : cmdState[c] \in {"idle", "failed"}

Custody == Order /\ OnePlace /\ Recovery /\ NothingLost /\ NothingKept

HInv == IInv /\ QueuesOnce /\ HostStateOK /\ Custody /\ BlockedIsRemembered

-----------------------------------------------------------------------------
(* What the steps of the channel do to the commands the driver holds.      *)

\* The done list is part of what the channel holds.
LEMMA DoneIsHeld == Elems(scsi_cmnd_done) \subseteq Held
BY DEF Held

\* Events, completions and timer ticks move commands between the lists only.
LEMMA ChannelKeeps ==
  ASSUME IInv, QueuesOnce,
         \/ mvIALTimerCallback \/ RestartChannel \/ CableDisconnect
         \/ mvPMHotPlugDetected \/ EdmaDisabled
         \/ \E i \in 1..Len(commandsQueue) : CommandCompletes(i)
         \/ \E changed \in SUBSET Ports : PMCommandCompletionCB(changed)
  PROVE  IInv' /\ QueuesOnce' /\ Held' = Held
<1>1. Keeps \/ Flushes => QueuesOnce' /\ Held' = Held
  BY FlushKeepsOnce, KeepingKeepsOnce, Zenon
<1>2. CASE mvIALTimerCallback
  BY <1>1, <1>2, TickFlushes, TickKeeps, Zenon
<1>3. CASE \/ RestartChannel \/ CableDisconnect \/ mvPMHotPlugDetected \/ EdmaDisabled
           \/ \E changed \in SUBSET Ports : PMCommandCompletionCB(changed)
  BY <1>1, <1>3, EventFlushes, EventKeeps, Zenon
<1>4. ASSUME NEW i \in 1..Len(commandsQueue), CommandCompletes(i)
      PROVE  IInv' /\ QueuesOnce' /\ Held' = Held
  <2>1. IInv'
    BY <1>4, CommandKeeps, Zenon
  <2>2. Completes(i)
    BY <1>4 DEF CommandCompletes, Completes
  <2>3. QED
    BY <2>1, <2>2, CompletionKeepsOnce, Zenon
<1>5. QED
  BY <1>2, <1>3, <1>4, Zenon

\* mvRestartChannel leaves commands in the done list only.
LEMMA RestartEmpties ==
  ASSUME IInv, RestartChannel
  PROVE  Held' = Elems(scsi_cmnd_done')
<1>1. IALChannelPendingCmdQueue' = <<>>
  BY DEF RestartChannel, mvRestartChannel, FlushSCSICommandQueue
<1>2. commandsQueue' = <<>>
  BY DEF RestartChannel, mvRestartChannel, FlushDmaQueue, IInv, EdmaWorkHasChannel
<1>3. QED
  BY <1>1, <1>2, ElemsEmpty DEF Held

\* mv_ial_lib_get_first_cmnd.
LEMMA TakeEmpties ==
  ASSUME IInv, QueuesOnce, TakeDoneList
  PROVE  IInv' /\ QueuesOnce' /\ Held' = Held \ Elems(scsi_cmnd_done)
<1>1. IInv'
  BY CommandKeeps, Zenon
<1>2. QED
  BY <1>1, TakingKeepsOnce, Zenon

\* A submission adds its command.
LEMMA SubmissionAdds ==
  ASSUME IInv, QueuesOnce, NEW c \in Cmds \ Held, NEW p \in Ports,
         mvExecuteScsiCommand(c, p) \/ SendSmartCommand(c, p)
  PROVE  IInv' /\ QueuesOnce' /\ Held' = Held \cup {c}
<1>1. IInv'
  BY CommandKeeps, Zenon
<1>2. Enters(c)
  BY SubmissionEnters, Zenon
<1>3. QED
  BY <1>1, <1>2, EntryKeepsOnce, Zenon

\* A step of the host alone.
LEMMA ChannelStays ==
  ASSUME IInv, QueuesOnce, UNCHANGED vars
  PROVE  IInv' /\ QueuesOnce' /\ Held' = Held
<1>1. IInv'
  BY StutterKeeps, Zenon
<1>2. Keeps
  BY DEF Keeps, vars
<1>3. QED
  BY <1>1, <1>2, KeepingKeepsOnce, Zenon

-----------------------------------------------------------------------------
(* Steps of the host.                                                      *)

\* While the caller holds adapter_lock nobody else runs.
LEMMA LockExcludes ==
  ASSUME HostStateOK, Order, HoldsLock("caller")
  PROVE  ~MayInterrupt /\ ~TimerMayRun /\ ~MayRun("nested") /\ pc["irq"] # "take"
BY DEF HostStateOK, Order, HoldsLock, MayInterrupt, TimerMayRun, MayRun, Locked, Submitters

\* The interrupt handler or the timer function goes on, and takes no command
\* anywhere.
LEMMA MovingKeeps ==
  ASSUME HostStateOK, Custody, NEW x \in {"irq", "timer"}, NEW step \in Steps,
         ~HoldsLock("caller"), local[x] = {}, Goto(x, step),
         UNCHANGED <<local, dispatching, cmdState>>, Held' = Held, Order'
  PROVE  pc' \in [Contexts -> Steps] /\ Custody'
<1>1. pc' \in [Contexts -> Steps] /\ \A y \in Submitters : pc'[y] = pc[y]
  BY DEF HostStateOK, Goto, Contexts, Submitters
<1>2. "caller" \in Submitters /\ "nested" \in Submitters
  BY DEF Submitters
<1>3. OnePlace'
  BY <1>1 DEF Custody, OnePlace
<1>4. Recovery'
  BY <1>1, <1>2 DEF Custody, Recovery, HoldsLock
<1>5. \A c : DriverHas(c)' <=> DriverHas(c)
  BY <1>1 DEF DriverHas
<1>6. NothingLost' /\ NothingKept'
  BY <1>5 DEF Custody, NothingLost, NothingKept
<1>7. QED
  BY <1>1, <1>3, <1>4, <1>6 DEF Custody

\* mv_ial_lib_int_handler.
LEMMA InterruptKeeps ==
  ASSUME HInv, Interrupt
  PROVE  HInv'
<1>1. /\ MayInterrupt /\ Goto("irq", "take")
      /\ UNCHANGED <<local, dispatching, cmdState>>
      /\ \/ UNCHANGED <<hostBlocked, selfBlocked>>
         \/ BlockRequests
  BY DEF Interrupt
<1>2. IInv' /\ QueuesOnce' /\ Held' = Held
  BY ChannelKeeps, Zenon DEF HInv, Interrupt
<1>3. /\ pc["irq"] = "idle"
      /\ \A x \in Submitters : pc[x] \notin {"take", "abortTake", "resetTake"}
  BY <1>1 DEF MayInterrupt, Locked
<1>4. /\ pc' = [pc EXCEPT !["irq"] = "take"]
      /\ "irq" \in Contexts /\ "caller" \in Submitters /\ "nested" \in Submitters
  BY <1>1 DEF Goto, Contexts, Submitters
<1>5. local["irq"] = {} /\ ~HoldsLock("caller") /\ "take" \in Steps
  BY <1>3, <1>4 DEF HInv, Custody, Order, HoldsLock, Steps
<1>6. Order'
  BY <1>1, <1>3, <1>4, <1>5 DEF HInv, Custody, Order, HoldsLock, HostStateOK, Contexts
<1>7. pc' \in [Contexts -> Steps] /\ Custody'
  BY <1>1, <1>2, <1>5, <1>6, MovingKeeps, Zenon DEF HInv
<1>8. hostBlocked' \in BOOLEAN /\ selfBlocked' \in BOOLEAN /\ BlockedIsRemembered'
  BY <1>1, <1>4 DEF HInv, HostStateOK, BlockRequests, BlockedIsRemembered, Contexts
<1>9. HostStateOK'
  BY <1>1, <1>7, <1>8 DEF HInv, HostStateOK
<1>10. QED
  BY <1>2, <1>7, <1>8, <1>9, Zenon DEF HInv

\* The steps of asyncStartTimerFunction that take no command.
LEMMA TimerKeeps ==
  ASSUME HInv, TimerTick \/ UnblockTests \/ UnblockClears \/ UnblockRequests
  PROVE  HInv'
<1>1. IInv' /\ QueuesOnce' /\ Held' = Held
  BY ChannelKeeps, ChannelStays, Zenon
     DEF HInv, TimerTick, UnblockTests, UnblockClears, UnblockRequests
<1>2. /\ TimerMayRun /\ UNCHANGED <<local, dispatching, cmdState>>
      /\ pc["timer"] \in {"idle", "check", "clear", "unblock"}
      /\ \E step \in {"check", "clear", "unblock", "run", "take"} : Goto("timer", step)
  BY DEF TimerTick, UnblockTests, UnblockClears, UnblockRequests
<1>3. PICK step \in {"check", "clear", "unblock", "run", "take"} : Goto("timer", step)
  BY <1>2, Zenon
<1>4. /\ pc["irq"] = "idle" /\ pc["nested"] = "idle"
      /\ \A x \in Submitters : pc[x] \notin {"take", "abortTake", "resetTake"}
  BY <1>2 DEF TimerMayRun, Locked
<1>5. /\ pc' = [pc EXCEPT !["timer"] = step]
      /\ "timer" \in Contexts /\ "caller" \in Submitters /\ "nested" \in Submitters
  BY <1>3 DEF Goto, Contexts, Submitters
<1>6. local["timer"] = {} /\ ~HoldsLock("caller") /\ step \in Steps
  BY <1>2, <1>4, <1>5 DEF HInv, Custody, Order, HoldsLock, Steps
<1>7. Order'
  BY <1>2, <1>4, <1>5, <1>6 DEF HInv, Custody, Order, HoldsLock, HostStateOK, Contexts
<1>8. pc' \in [Contexts -> Steps] /\ Custody'
  BY <1>1, <1>2, <1>3, <1>6, <1>7, MovingKeeps, Zenon DEF HInv
<1>9. hostBlocked' \in BOOLEAN /\ selfBlocked' \in BOOLEAN
  BY DEF HInv, HostStateOK, TimerTick, UnblockTests, UnblockClears, UnblockRequests
<1>10. BlockedIsRemembered'
  BY <1>5 DEF HInv, HostStateOK, TimerTick, UnblockTests, UnblockClears, UnblockRequests,
              BlockedIsRemembered, Goto
<1>11. HostStateOK'
  BY <1>2, <1>8, <1>9 DEF HInv, HostStateOK
<1>12. QED
  BY <1>1, <1>8, <1>10, <1>11, Zenon DEF HInv

\* A context takes the done list for its own.
LEMMA TakingKeeps ==
  ASSUME HInv, NEW x \in {"timer", "caller", "nested"}, NEW step \in Steps,
         TakeDoneList, local' = [local EXCEPT ![x] = Elems(scsi_cmnd_done)],
         Goto(x, step), local[x] = {}, pc[x] # "dispatch", step # "dispatch",
         UNCHANGED <<hostBlocked, selfBlocked, dispatching, cmdState>>,
         pc[x] # "unblock", Order', Recovery'
  PROVE  HInv'
<1> DEFINE done == Elems(scsi_cmnd_done)
<1>1. IInv' /\ QueuesOnce' /\ Held' = Held \ done
  BY TakeEmpties, Zenon DEF HInv
<1>2. done \subseteq Held /\ Held \subseteq Cmds
  <2>1. Held \subseteq Cmds
    BY DEF HInv, IInv, TypeOK, QueueTypeOK, Held, Elems
  <2>2. QED
    BY <2>1, DoneIsHeld
<1>3. /\ \A y \in Contexts : local'[y] = IF y = x THEN done ELSE local[y]
      /\ \A y \in Contexts : pc'[y] = IF y = x THEN step ELSE pc[y]
      /\ x \in Contexts /\ Submitters \subseteq Contexts
      /\ pc' \in [Contexts -> Steps]
  BY DEF HInv, HostStateOK, Goto, Contexts, Submitters
<1> HIDE DEF done
<1>4. OnePlace'
  <2>1. \A y \in Contexts : local'[y] \cap Held' = {}
    BY <1>1, <1>2, <1>3 DEF HInv, Custody, OnePlace
  <2>2. \A y, z \in Contexts : y # z => local'[y] \cap local'[z] = {}
    BY <1>1, <1>2, <1>3 DEF HInv, Custody, OnePlace
  <2>3. ASSUME NEW y \in Submitters, pc'[y] = "dispatch"
        PROVE  /\ dispatching'[y] \in Cmds /\ dispatching'[y] \notin Held'
               /\ cmdState'[dispatching'[y]] \in {"issued", "tur"}
               /\ \A z \in Contexts : dispatching'[y] \notin local'[z]
               /\ \A z \in Submitters : pc'[z] = "dispatch" /\ dispatching'[z] = dispatching'[y]
                                          => z = y
    BY <1>1, <1>2, <1>3, <2>3 DEF HInv, Custody, OnePlace
  <2>4. QED
    BY <2>1, <2>2, <2>3, Zenon DEF OnePlace
<1>5. \A c : DriverHas(c)' <=> DriverHas(c)
  <2>1. \A c : (c \in Held' \/ \E y \in Contexts : c \in local'[y])
               <=> (c \in Held \/ \E y \in Contexts : c \in local[y])
    BY <1>1, <1>2, <1>3
  <2>2. \A y \in Submitters : pc'[y] = "dispatch" <=> pc[y] = "dispatch"
    BY <1>3
  <2>3. QED
    BY <2>1, <2>2 DEF DriverHas
<1>6. NothingLost' /\ NothingKept'
  BY <1>5 DEF HInv, Custody, NothingLost, NothingKept
<1>7. HostStateOK'
  BY <1>2, <1>3 DEF HInv, HostStateOK
<1>8. BlockedIsRemembered'
  BY <1>3 DEF HInv, BlockedIsRemembered, Contexts
<1>9. QED
  BY <1>1, <1>4, <1>6, <1>7, <1>8 DEF HInv, Custody

\* The timer function and queuecommand take the done list.
LEMMA TakeSteps ==
  ASSUME HInv, \/ TimerTakes
               \/ \E x \in Submitters : QueueCommandTakes(x)
               \/ AbortTakes
  PROVE  HInv'
<1>0. /\ \A y \in Contexts : pc[y] \in Steps /\ local[y] \in SUBSET Cmds
      /\ {"caller", "nested", "timer", "irq"} \subseteq Contexts
      /\ "caller" \in Submitters /\ "nested" \in Submitters
      /\ pc \in [Contexts -> Steps] /\ local \in [Contexts -> SUBSET Cmds]
  BY DEF HInv, HostStateOK, Contexts, Submitters
<1>1. CASE TimerTakes
  <2>1. /\ TimerMayRun /\ pc["timer"] \in {"take", "run"} /\ TakeDoneList
        /\ local' = [local EXCEPT !["timer"] = Elems(scsi_cmnd_done)]
        /\ Goto("timer", "done")
        /\ UNCHANGED <<hostBlocked, selfBlocked, dispatching, cmdState>>
    BY <1>1 DEF TimerTakes
  <2>2. /\ pc["irq"] = "idle" /\ pc["nested"] = "idle"
        /\ pc["caller"] \notin {"take", "abortTake", "resetTake"}
    BY <1>0, <2>1 DEF TimerMayRun, Locked
  <2>3. pc' = [pc EXCEPT !["timer"] = "done"]
    BY <2>1 DEF Goto
  <2>4. local["timer"] = {}
    BY <1>0, <2>1 DEF HInv, Custody, Order
  <2>5. Order'
    BY <1>0, <2>1, <2>2, <2>3 DEF HInv, Custody, Order, HoldsLock
  <2>6. Held' = Held \ Elems(scsi_cmnd_done)
    BY <2>1, TakeEmpties, Zenon DEF HInv
  <2>7. Recovery'
    <3>1. pc["caller"] = "abortDone" => Held = {} /\ Elems(scsi_cmnd_done) = {}
      BY DoneIsHeld DEF HInv, Custody, Recovery
    <3>2. QED
      BY <1>0, <2>1, <2>2, <2>3, <2>6, <3>1 DEF HInv, Custody, Recovery
  <2>8. "done" \in Steps
    BY DEF Steps
  <2>9. QED
    BY <2>1, <2>4, <2>5, <2>7, <2>8, TakingKeeps
<1>2. ASSUME NEW x \in Submitters, QueueCommandTakes(x)
      PROVE  HInv'
  <2>1. /\ MayRun(x) /\ pc[x] = "take" /\ TakeDoneList
        /\ local' = [local EXCEPT ![x] = Elems(scsi_cmnd_done)]
        /\ Goto(x, "done")
        /\ UNCHANGED <<hostBlocked, selfBlocked, dispatching, cmdState>>
    BY <1>2 DEF QueueCommandTakes
  <2>2. /\ x \in {"caller", "nested"}
        /\ x = "nested" => ~HoldsLock("caller")
    BY <2>1, LockExcludes DEF Submitters, HInv, Custody
  <2>3. pc' = [pc EXCEPT ![x] = "done"]
    BY <2>1 DEF Goto
  <2>4. local[x] = {}
    BY <1>0, <2>1, <2>2 DEF HInv, Custody, Order
  <2>5. Order'
    BY <1>0, <2>1, <2>2, <2>3 DEF HInv, Custody, Order, HoldsLock, MayRun, Steps
  <2>6. Recovery'
    BY <1>0, <2>1, <2>2, <2>3 DEF HInv, Custody, Recovery, HoldsLock
  <2>7. "done" \in Steps
    BY DEF Steps
  <2>8. QED
    BY <2>1, <2>2, <2>4, <2>5, <2>6, <2>7, TakingKeeps
<1>3. CASE AbortTakes
  <2>1. /\ MayRun("caller") /\ pc["caller"] = "abortTake" /\ TakeDoneList
        /\ local' = [local EXCEPT !["caller"] = Elems(scsi_cmnd_done)]
        /\ Goto("caller", "abortDone")
        /\ UNCHANGED <<hostBlocked, selfBlocked, dispatching, cmdState>>
    BY <1>3 DEF AbortTakes
  <2>2. pc' = [pc EXCEPT !["caller"] = "abortDone"]
    BY <2>1 DEF Goto
  <2>3. local["caller"] = {}
    BY <1>0, <2>1 DEF HInv, Custody, Order
  <2>4. Order'
    BY <1>0, <2>1, <2>2 DEF HInv, Custody, Order, HoldsLock, MayRun, Steps
  <2>5. Held' = Held \ Elems(scsi_cmnd_done)
    BY <2>1, TakeEmpties, Zenon DEF HInv
  <2>6. Recovery'
    BY <1>0, <2>1, <2>2, <2>5 DEF HInv, Custody, Recovery
  <2>7. "abortDone" \in Steps
    BY DEF Steps
  <2>8. QED
    BY <2>1, <2>3, <2>4, <2>6, <2>7, TakingKeeps
<1>4. QED
  BY <1>1, <1>2, <1>3

\* scsi_done answers commands that are waited for, and no others.
LEMMA DoneAnswers ==
  ASSUME HostStateOK, NEW S, NEW c \in Cmds
  PROVE  /\ ScsiDone(S) \in [Cmds -> CmdStates]
         /\ c \notin S => ScsiDone(S)[c] = cmdState[c]
         /\ c \in S => ScsiDone(S)[c] \notin {"issued", "tur"}
         /\ cmdState[c] \notin {"issued", "tur"} => ScsiDone(S)[c] = cmdState[c]
BY DEF HostStateOK, ScsiDone, CmdStates

\* A context hands its list over.
LEMMA HandingKeeps ==
  ASSUME HInv, NEW x \in {"timer", "caller", "nested"},
         pc[x] = "done", UNCHANGED vars,
         cmdState' = ScsiDone(local[x]), local' = [local EXCEPT ![x] = {}],
         Goto(x, "idle"), x # "caller" => ~HoldsLock("caller"), Order',
         UNCHANGED <<hostBlocked, selfBlocked, dispatching>>
  PROVE  HInv'
<1>1. IInv' /\ QueuesOnce' /\ Held' = Held
  BY ChannelStays, Zenon DEF HInv
<1>2. /\ \A y \in Contexts : local'[y] = IF y = x THEN {} ELSE local[y]
      /\ \A y \in Contexts : pc'[y] = IF y = x THEN "idle" ELSE pc[y]
      /\ x \in Contexts /\ Submitters \subseteq Contexts
      /\ {"caller", "nested", "timer"} \subseteq Contexts
      /\ pc' \in [Contexts -> Steps] /\ local' \in [Contexts -> SUBSET Cmds]
  BY DEF HInv, HostStateOK, Goto, Contexts, Submitters, Steps
<1>3. HostStateOK /\ OnePlace /\ Recovery /\ NothingLost /\ NothingKept
  BY DEF HInv, Custody
<1>4. /\ cmdState' \in [Cmds -> CmdStates]
      /\ \A c \in Cmds :
           /\ c \notin local[x] => cmdState'[c] = cmdState[c]
           /\ c \in local[x] => cmdState'[c] \notin {"issued", "tur"}
           /\ cmdState[c] \notin {"issued", "tur"} => cmdState'[c] = cmdState[c]
  <2>1. ScsiDone(local[x]) \in [Cmds -> CmdStates]
    BY <1>3 DEF HostStateOK, ScsiDone, CmdStates
  <2>2. QED
    BY <1>3, <2>1, DoneAnswers, Zenon
<1>5. HostStateOK'
  BY <1>2, <1>3, <1>4 DEF HostStateOK
<1>6. \A y \in Submitters : pc'[y] = "dispatch" <=> pc[y] = "dispatch"
  BY <1>2
<1>7. OnePlace'
  <2>1. \A y \in Contexts : local'[y] \cap Held' = {}
    BY <1>1, <1>2, <1>3 DEF OnePlace
  <2>2. \A y, z \in Contexts : y # z => local'[y] \cap local'[z] = {}
    BY <1>2, <1>3 DEF OnePlace
  <2>3. ASSUME NEW y \in Submitters, pc'[y] = "dispatch"
        PROVE  /\ dispatching'[y] \in Cmds /\ dispatching'[y] \notin Held'
               /\ cmdState'[dispatching'[y]] \in {"issued", "tur"}
               /\ \A z \in Contexts : dispatching'[y] \notin local'[z]
               /\ \A z \in Submitters : pc'[z] = "dispatch" /\ dispatching'[z] = dispatching'[y]
                                          => z = y
    BY <1>1, <1>2, <1>3, <1>4, <1>6, <2>3 DEF OnePlace
  <2>4. QED
    BY <2>1, <2>2, <2>3, Zenon DEF OnePlace
<1>8. Recovery'
  BY <1>1, <1>2, <1>3, <1>4 DEF Recovery, HoldsLock
<1>9. ASSUME NEW c \in Cmds
      PROVE  DriverHas(c)' <=> DriverHas(c) /\ c \notin local[x]
  <2>1. (c \in Held' \/ \E y \in Contexts : c \in local'[y])
        <=> (c \in Held \/ \E y \in Contexts : c \in local[y]) /\ c \notin local[x]
    BY <1>1, <1>2, <1>3 DEF OnePlace
  <2>2. (\E y \in Submitters : pc'[y] = "dispatch" /\ dispatching'[y] = c)
        <=> (\E y \in Submitters : pc[y] = "dispatch" /\ dispatching[y] = c)
    BY <1>6
  <2>3. (\E y \in Submitters : pc[y] = "dispatch" /\ dispatching[y] = c)
          => c \notin local[x]
    BY <1>2, <1>3 DEF OnePlace
  <2>4. QED
    BY <2>1, <2>2, <2>3 DEF DriverHas
<1>10. NothingLost'
  BY <1>3, <1>4, <1>9 DEF NothingLost
<1>11. NothingKept'
  BY <1>3, <1>4, <1>9 DEF NothingKept
<1>12. BlockedIsRemembered'
  BY <1>2 DEF HInv, BlockedIsRemembered
<1>13. QED
  BY <1>1, <1>5, <1>7, <1>8, <1>10, <1>11, <1>12 DEF HInv, Custody

\* The timer function and queuecommand hand their lists over.
LEMMA HandSteps ==
  ASSUME HInv, TimerCompletes \/ \E x \in Submitters : QueueCommandCompletes(x)
  PROVE  HInv'
<1>0. /\ {"caller", "nested", "timer", "irq"} \subseteq Contexts
      /\ "caller" \in Submitters /\ "nested" \in Submitters
      /\ pc \in [Contexts -> Steps] /\ local \in [Contexts -> SUBSET Cmds]
  BY DEF HInv, HostStateOK, Contexts, Submitters
<1>1. CASE TimerCompletes
  <2>1. /\ TimerMayRun /\ pc["timer"] = "done" /\ UNCHANGED vars
        /\ cmdState' = ScsiDone(local["timer"])
        /\ local' = [local EXCEPT !["timer"] = {}] /\ Goto("timer", "idle")
        /\ UNCHANGED <<hostBlocked, selfBlocked, dispatching>>
    BY <1>1 DEF TimerCompletes
  <2>2. /\ pc["irq"] = "idle" /\ pc["nested"] = "idle"
        /\ pc["caller"] \notin {"take", "abortTake", "resetTake"}
    BY <1>0, <2>1 DEF TimerMayRun, Locked
  <2>3. pc' = [pc EXCEPT !["timer"] = "idle"] /\ ~HoldsLock("caller")
    BY <2>1, <2>2 DEF Goto, HoldsLock
  <2>4. Order'
    BY <1>0, <2>1, <2>2, <2>3 DEF HInv, Custody, Order, HoldsLock
  <2>5. QED
    BY <2>1, <2>3, <2>4, HandingKeeps
<1>2. ASSUME NEW x \in Submitters, QueueCommandCompletes(x)
      PROVE  HInv'
  <2>1. /\ MayRun(x) /\ pc[x] = "done" /\ UNCHANGED vars
        /\ cmdState' = ScsiDone(local[x])
        /\ local' = [local EXCEPT ![x] = {}] /\ Goto(x, "idle")
        /\ UNCHANGED <<hostBlocked, selfBlocked, dispatching>>
    BY <1>2 DEF QueueCommandCompletes
  <2>2. /\ x \in {"caller", "nested"}
        /\ x = "nested" => ~HoldsLock("caller")
    BY <2>1, LockExcludes DEF Submitters, HInv, Custody
  <2>3. pc' = [pc EXCEPT ![x] = "idle"]
    BY <2>1 DEF Goto
  <2>4. Order'
    BY <1>0, <2>1, <2>2, <2>3 DEF HInv, Custody, Order, HoldsLock, MayRun, Steps
  <2>5. QED
    BY <2>1, <2>2, <2>4, HandingKeeps
<1>3. QED
  BY <1>1, <1>2

\* The interrupt handler hands the done list over.
LEMMA InterruptCompletesKeeps ==
  ASSUME HInv, InterruptCompletes
  PROVE  HInv'
<1> DEFINE done == Elems(scsi_cmnd_done)
<1>0. /\ {"caller", "nested", "timer", "irq"} \subseteq Contexts
      /\ "caller" \in Submitters /\ "nested" \in Submitters
      /\ Submitters \subseteq Contexts /\ "irq" \notin Submitters
      /\ pc \in [Contexts -> Steps] /\ local \in [Contexts -> SUBSET Cmds]
  BY DEF HInv, HostStateOK, Contexts, Submitters
<1>1. /\ pc["irq"] = "take" /\ TakeDoneList /\ cmdState' = ScsiDone(done)
      /\ pc' = [pc EXCEPT !["irq"] = "idle"]
      /\ UNCHANGED <<hostBlocked, selfBlocked, local, dispatching>>
  BY DEF InterruptCompletes, Goto
<1>2. IInv' /\ QueuesOnce' /\ Held' = Held \ done
  BY <1>1, TakeEmpties, Zenon DEF HInv
<1>3. done \subseteq Held
  BY DoneIsHeld
<1>4. HostStateOK /\ Order /\ OnePlace /\ Recovery /\ NothingLost /\ NothingKept
  BY DEF HInv, Custody
<1>5. /\ cmdState' \in [Cmds -> CmdStates]
      /\ \A c \in Cmds :
           /\ c \notin done => cmdState'[c] = cmdState[c]
           /\ c \in done => cmdState'[c] \notin {"issued", "tur"}
           /\ cmdState[c] \notin {"issued", "tur"} => cmdState'[c] = cmdState[c]
  <2>1. ScsiDone(done) \in [Cmds -> CmdStates]
    BY <1>4 DEF HostStateOK, ScsiDone, CmdStates
  <2>2. QED
    BY <1>1, <1>4, <2>1, DoneAnswers, Zenon
<1> HIDE DEF done
<1>6. /\ \A y \in Contexts \ {"irq"} : pc'[y] = pc[y]
      /\ pc'["irq"] = "idle" /\ pc' \in [Contexts -> Steps]
      /\ \A y \in Submitters : pc'[y] = pc[y]
  BY <1>0, <1>1 DEF Steps
<1>7. HostStateOK'
  BY <1>1, <1>4, <1>5, <1>6 DEF HostStateOK
<1>8. Order'
  BY <1>0, <1>1, <1>4, <1>6 DEF Order, HoldsLock
<1>9. OnePlace'
  <2>1. \A y \in Contexts : local'[y] \cap Held' = {}
    BY <1>1, <1>2, <1>4 DEF OnePlace
  <2>2. \A y, z \in Contexts : y # z => local'[y] \cap local'[z] = {}
    BY <1>1, <1>4 DEF OnePlace
  <2>3. ASSUME NEW y \in Submitters, pc'[y] = "dispatch"
        PROVE  /\ dispatching'[y] \in Cmds /\ dispatching'[y] \notin Held'
               /\ cmdState'[dispatching'[y]] \in {"issued", "tur"}
               /\ \A z \in Contexts : dispatching'[y] \notin local'[z]
               /\ \A z \in Submitters : pc'[z] = "dispatch" /\ dispatching'[z] = dispatching'[y]
                                          => z = y
    BY <1>1, <1>2, <1>3, <1>4, <1>5, <1>6, <2>3 DEF OnePlace
  <2>4. QED
    BY <2>1, <2>2, <2>3, Zenon DEF OnePlace
<1>10. Recovery'
  <2>1. ~HoldsLock("caller")
    BY <1>1, <1>4, LockExcludes, Zenon
  <2>2. QED
    BY <1>0, <1>1, <1>2, <1>4, <1>5, <1>6, <2>1 DEF Recovery, HoldsLock
<1>11. ASSUME NEW c \in Cmds
       PROVE  DriverHas(c)' <=> DriverHas(c) /\ c \notin done
  <2>1. (c \in Held' \/ \E y \in Contexts : c \in local'[y])
        <=> (c \in Held \/ \E y \in Contexts : c \in local[y]) /\ c \notin done
    BY <1>1, <1>2, <1>3, <1>4 DEF OnePlace
  <2>2. (\E y \in Submitters : pc'[y] = "dispatch" /\ dispatching'[y] = c)
        <=> (\E y \in Submitters : pc[y] = "dispatch" /\ dispatching[y] = c)
    BY <1>1, <1>6
  <2>3. (\E y \in Submitters : pc[y] = "dispatch" /\ dispatching[y] = c) => c \notin done
    BY <1>3, <1>4 DEF OnePlace
  <2>4. QED
    BY <2>1, <2>2, <2>3 DEF DriverHas
<1>12. NothingLost'
  BY <1>4, <1>5, <1>11 DEF NothingLost
<1>13. NothingKept'
  BY <1>4, <1>5, <1>11 DEF NothingKept
<1>14. BlockedIsRemembered'
  BY <1>0, <1>1, <1>6 DEF HInv, BlockedIsRemembered
<1>15. QED
  BY <1>2, <1>7, <1>8, <1>9, <1>10, <1>12, <1>13, <1>14 DEF HInv, Custody

\* The mid-layer hands a command it owns to queuecommand: scsi_dispatch_cmd, or
\* the error handler's TEST UNIT READY.
LEMMA OfferingKeeps ==
  ASSUME HInv, NEW x \in Submitters, NEW c \in Cmds, NEW s \in {"issued", "tur"},
         pc[x] = "idle", ~DriverHas(c), UNCHANGED vars,
         pc["caller"] \notin {"abortTake", "abortDone", "resetTake"},
         cmdState' = [cmdState EXCEPT ![c] = s],
         dispatching' = [dispatching EXCEPT ![x] = c],
         Goto(x, "dispatch"), Order',
         UNCHANGED <<hostBlocked, selfBlocked, local>>
  PROVE  HInv'
<1>1. IInv' /\ QueuesOnce' /\ Held' = Held
  BY ChannelStays, Zenon DEF HInv
<1>2. /\ {"caller", "nested", "timer"} \subseteq Contexts
      /\ "caller" \in Submitters /\ "timer" \notin Submitters
      /\ x \in Contexts /\ Submitters \subseteq Contexts
      /\ pc' \in [Contexts -> Steps]
      /\ \A y \in Contexts : pc'[y] = IF y = x THEN "dispatch" ELSE pc[y]
  BY DEF HInv, HostStateOK, Goto, Contexts, Submitters, Steps
<1>3. HostStateOK /\ OnePlace /\ Recovery /\ NothingLost /\ NothingKept
  BY DEF HInv, Custody
<1>4. /\ cmdState' \in [Cmds -> CmdStates]
      /\ \A d \in Cmds : cmdState'[d] = IF d = c THEN s ELSE cmdState[d]
      /\ dispatching' \in [Submitters -> Cmds \cup {NoCmd}]
      /\ \A y \in Submitters : dispatching'[y] = IF y = x THEN c ELSE dispatching[y]
  BY <1>3 DEF HostStateOK, CmdStates
<1>5. HostStateOK'
  BY <1>2, <1>3, <1>4 DEF HostStateOK
<1>6. /\ c \notin Held /\ \A y \in Contexts : c \notin local[y]
      /\ \A y \in Submitters : pc[y] = "dispatch" => dispatching[y] # c
  BY DEF DriverHas
<1>7. OnePlace'
  <2>1. \A y \in Contexts : local'[y] \cap Held' = {}
    BY <1>1, <1>3 DEF OnePlace
  <2>2. \A y, z \in Contexts : y # z => local'[y] \cap local'[z] = {}
    BY <1>3 DEF OnePlace
  <2>3. ASSUME NEW y \in Submitters, pc'[y] = "dispatch"
        PROVE  /\ dispatching'[y] \in Cmds /\ dispatching'[y] \notin Held'
               /\ cmdState'[dispatching'[y]] \in {"issued", "tur"}
               /\ \A z \in Contexts : dispatching'[y] \notin local'[z]
               /\ \A z \in Submitters : pc'[z] = "dispatch" /\ dispatching'[z] = dispatching'[y]
                                          => z = y
    <3>1. CASE y = x
      BY <1>1, <1>2, <1>4, <1>6, <3>1
    <3>2. CASE y # x
      BY <1>1, <1>2, <1>3, <1>4, <1>6, <2>3, <3>2 DEF OnePlace
    <3>3. QED
      BY <3>1, <3>2
  <2>4. QED
    BY <2>1, <2>2, <2>3, Zenon DEF OnePlace
<1>8. Recovery'
  BY <1>2 DEF Recovery
<1>9. \A d \in Cmds : DriverHas(d)' <=> DriverHas(d) \/ d = c
  BY <1>1, <1>2, <1>4 DEF DriverHas
<1>10. NothingLost'
  BY <1>3, <1>4, <1>9 DEF NothingLost
<1>11. NothingKept'
  BY <1>3, <1>4, <1>9 DEF NothingKept
<1>12. BlockedIsRemembered'
  BY <1>2 DEF HInv, BlockedIsRemembered
<1>13. QED
  BY <1>1, <1>5, <1>7, <1>8, <1>10, <1>11, <1>12 DEF HInv, Custody

\* scsi_dispatch_cmd and scsi_eh_tur.
LEMMA OfferSteps ==
  ASSUME HInv, \/ \E x \in Submitters, c \in Cmds : Dispatch(x, c)
               \/ \E c \in Cmds : TestUnitReady(c)
  PROVE  HInv'
<1>0. /\ {"caller", "nested", "timer", "irq"} \subseteq Contexts
      /\ "caller" \in Submitters /\ "nested" \in Submitters
      /\ pc \in [Contexts -> Steps] /\ local \in [Contexts -> SUBSET Cmds]
  BY DEF HInv, HostStateOK, Contexts, Submitters
<1>1. ASSUME NEW x \in Submitters, NEW c \in Cmds, Dispatch(x, c)
      PROVE  HInv'
  <2>1. /\ MayRun(x) /\ pc[x] = "idle" /\ cmdState[c] = "idle" /\ ~Recovering
        /\ cmdState' = [cmdState EXCEPT ![c] = "issued"]
        /\ dispatching' = [dispatching EXCEPT ![x] = c]
        /\ Goto(x, "dispatch")
        /\ UNCHANGED vars /\ UNCHANGED <<hostBlocked, selfBlocked, local>>
    BY <1>1 DEF Dispatch
  <2>2. /\ x \in {"caller", "nested"}
        /\ x = "nested" => ~HoldsLock("caller")
    BY <2>1, LockExcludes DEF Submitters, HInv, Custody
  <2>3. pc["caller"] \notin {"abortTake", "abortDone", "resetTake"}
    BY <2>1, <2>2 DEF HInv, Custody, Recovery, Recovering, HoldsLock
  <2>4. ~DriverHas(c)
    BY <2>1 DEF HInv, Custody, NothingKept
  <2>5. pc' = [pc EXCEPT ![x] = "dispatch"]
    BY <2>1 DEF Goto
  <2>6. Order'
    BY <1>0, <2>1, <2>2, <2>5 DEF HInv, Custody, Order, HoldsLock, MayRun, Steps
  <2>7. QED
    BY <2>1, <2>3, <2>4, <2>6, OfferingKeeps
<1>2. ASSUME NEW c \in Cmds, TestUnitReady(c)
      PROVE  HInv'
  <2>1. /\ MayRun("caller") /\ pc["caller"] = "idle"
        /\ cmdState[c] \in {"aborted", "reset"}
        /\ cmdState' = [cmdState EXCEPT ![c] = "tur"]
        /\ dispatching' = [dispatching EXCEPT !["caller"] = c]
        /\ Goto("caller", "dispatch")
        /\ UNCHANGED vars /\ UNCHANGED <<hostBlocked, selfBlocked, local>>
    BY <1>2 DEF TestUnitReady, RecoveryMayRun
  <2>2. ~DriverHas(c)
    BY <2>1 DEF HInv, Custody, NothingKept
  <2>3. pc' = [pc EXCEPT !["caller"] = "dispatch"]
    BY <2>1 DEF Goto
  <2>4. Order'
    BY <1>0, <2>1, <2>3 DEF HInv, Custody, Order, HoldsLock, MayRun, Steps
  <2>5. QED
    BY <1>0, <2>1, <2>2, <2>4, OfferingKeeps
<1>3. QED
  BY <1>1, <1>2

\* queuecommand puts the command into a list of the channel, or refuses it.
LEMMA QueueSteps ==
  ASSUME HInv, NEW x \in Submitters,
         QueueCommandRefused(x) \/ \E p \in Ports : QueueCommand(x, p)
  PROVE  HInv'
<1>1. PICK c : c = dispatching[x]
  OBVIOUS
<1>2. HostStateOK /\ Order /\ OnePlace /\ Recovery /\ NothingLost /\ NothingKept
  BY DEF HInv, Custody
<1>3. /\ MayRun(x) /\ pc[x] = "dispatch"
      /\ dispatching' = [dispatching EXCEPT ![x] = NoCmd]
      /\ UNCHANGED <<hostBlocked, selfBlocked, local>>
  BY DEF QueueCommand, QueueCommandRefused
<1>4. /\ c \in Cmds \ Held /\ cmdState[c] \in {"issued", "tur"}
      /\ \A y \in Contexts : c \notin local[y]
      /\ \A y \in Submitters \ {x} : pc[y] = "dispatch" => dispatching[y] # c
  BY <1>1, <1>2, <1>3 DEF OnePlace
<1>5. \/ /\ pc' = [pc EXCEPT ![x] = "take"] /\ UNCHANGED cmdState
         /\ IInv' /\ QueuesOnce' /\ Held' = Held \cup {c}
      \/ /\ pc' = [pc EXCEPT ![x] = "idle"]
         /\ \E s \in {"idle", "turTimedout"} : cmdState' = [cmdState EXCEPT ![c] = s]
         /\ IInv' /\ QueuesOnce' /\ Held' = Held
  <2>1. ASSUME NEW p \in Ports, QueueCommand(x, p)
        PROVE  /\ pc' = [pc EXCEPT ![x] = "take"] /\ UNCHANGED cmdState
               /\ IInv' /\ QueuesOnce' /\ Held' = Held \cup {c}
    <3>1. /\ pc' = [pc EXCEPT ![x] = "take"] /\ UNCHANGED cmdState
          /\ mvExecuteScsiCommand(c, p) \/ SendSmartCommand(c, p)
      BY <1>1, <2>1, Zenon DEF QueueCommand, Goto
    <3>2. QED
      BY <1>4, <3>1, SubmissionAdds, Zenon DEF HInv
  <2>2. CASE QueueCommandRefused(x)
    <3>1. /\ pc' = [pc EXCEPT ![x] = "idle"] /\ UNCHANGED vars
          /\ \E s \in {"idle", "turTimedout"} : cmdState' = [cmdState EXCEPT ![c] = s]
      BY <1>1, <2>2 DEF QueueCommandRefused, Goto
    <3>2. QED
      BY <3>1, ChannelStays, Zenon DEF HInv
  <2>3. QED
    BY <2>1, <2>2
<1>6. /\ {"caller", "nested", "timer", "irq"} \subseteq Contexts
      /\ x \in Contexts /\ Submitters \subseteq Contexts /\ x # "timer" /\ x # "irq"
      /\ x \in {"caller", "nested"}
      /\ "caller" \in Submitters /\ "nested" \in Submitters
      /\ pc' \in [Contexts -> Steps]
      /\ \A y \in Contexts \ {x} : pc'[y] = pc[y]
      /\ pc'[x] \in {"take", "idle"}
  BY <1>2, <1>5 DEF HostStateOK, Contexts, Submitters, Steps
<1>7. /\ cmdState' \in [Cmds -> CmdStates]
      /\ \A d \in Cmds \ {c} : cmdState'[d] = cmdState[d]
      /\ dispatching' \in [Submitters -> Cmds \cup {NoCmd}]
      /\ \A y \in Submitters \ {x} : dispatching'[y] = dispatching[y]
      /\ Held \subseteq Held' /\ Held' \subseteq Held \cup {c}
  BY <1>2, <1>3, <1>4, <1>5 DEF HostStateOK, CmdStates
<1>8. HostStateOK'
  BY <1>2, <1>3, <1>6, <1>7 DEF HostStateOK
<1>9. x = "nested" => pc["caller"] \notin {"abortTake", "abortDone", "resetTake"}
  <2>1. x = "nested" => ~HoldsLock("caller")
    BY <1>2, <1>3, LockExcludes, Zenon
  <2>2. QED
    BY <1>2, <1>3, <2>1 DEF Recovery, HoldsLock
<1>10. Order'
  <2>1. /\ pc["irq"] = "idle"
        /\ x = "caller" => pc["timer"] = "idle" /\ pc["nested"] = "idle"
        /\ x = "nested" => pc["timer"] = "run" /\ ~HoldsLock("caller")
    BY <1>2, <1>3, LockExcludes DEF MayRun, Order, Submitters
  <2>2. \A y \in Contexts : local'[y] # {} => pc'[y] \in {"done", "abortDone"}
    BY <1>2, <1>3, <1>6 DEF Order
  <2>3. QED
    BY <1>2, <1>6, <2>1, <2>2 DEF Order, HoldsLock, Steps
<1>11. OnePlace'
  <2>1. \A y \in Contexts : local'[y] \cap Held' = {}
    BY <1>2, <1>3, <1>4, <1>7 DEF OnePlace
  <2>2. \A y, z \in Contexts : y # z => local'[y] \cap local'[z] = {}
    BY <1>2, <1>3 DEF OnePlace
  <2>3. ASSUME NEW y \in Submitters, pc'[y] = "dispatch"
        PROVE  /\ dispatching'[y] \in Cmds /\ dispatching'[y] \notin Held'
               /\ cmdState'[dispatching'[y]] \in {"issued", "tur"}
               /\ \A z \in Contexts : dispatching'[y] \notin local'[z]
               /\ \A z \in Submitters : pc'[z] = "dispatch" /\ dispatching'[z] = dispatching'[y]
                                          => z = y
    <3>1. y # x /\ pc[y] = "dispatch" /\ dispatching[y] # c
      BY <1>4, <1>6, <2>3
    <3>2. QED
      BY <1>2, <1>3, <1>6, <1>7, <3>1 DEF OnePlace
  <2>4. QED
    BY <2>1, <2>2, <2>3, Zenon DEF OnePlace
<1>12. Recovery'
  <2>1. pc'["caller"] \notin {"abortTake", "abortDone", "resetTake"}
    BY <1>6, <1>9
  <2>2. QED
    BY <2>1 DEF Recovery
<1>13. /\ \A d \in Cmds \ {c} : DriverHas(d)' <=> DriverHas(d)
       /\ DriverHas(c)' <=> c \in Held'
  <2>1. \A y \in Submitters : pc'[y] = "dispatch" =>
          y # x /\ pc[y] = "dispatch" /\ dispatching'[y] = dispatching[y] /\ dispatching[y] # c
    BY <1>4, <1>6, <1>7
  <2>2. \A y \in Submitters : pc[y] = "dispatch" /\ dispatching[y] # c =>
          pc'[y] = "dispatch" /\ dispatching'[y] = dispatching[y]
    BY <1>1, <1>6, <1>7
  <2>3. QED
    BY <1>3, <1>4, <1>7, <2>1, <2>2 DEF DriverHas
<1>14. c \in Held' \/ cmdState'[c] \notin {"issued", "tur"}
  BY <1>2, <1>4, <1>5 DEF HostStateOK
<1>15. c \in Held' => cmdState'[c] \in {"issued", "tur"}
  BY <1>2, <1>4, <1>5 DEF HostStateOK
<1>16. NothingLost'
  BY <1>2, <1>7, <1>13, <1>14 DEF NothingLost
<1>17. NothingKept'
  BY <1>2, <1>7, <1>13, <1>15 DEF NothingKept
<1>18. BlockedIsRemembered'
  BY <1>3, <1>6 DEF HInv, BlockedIsRemembered
<1>19. QED
  BY <1>5, <1>8, <1>10, <1>11, <1>12, <1>16, <1>17, <1>18 DEF HInv, Custody

\* The mid-layer's timer gives a command up; the error handler finishes one.
LEMMA MidLayerSteps ==
  ASSUME HInv, NEW c \in Cmds, CommandTimesOut(c) \/ RecoveryFinishes(c)
  PROVE  HInv'
<1>1. /\ UNCHANGED vars /\ UNCHANGED <<hostBlocked, selfBlocked, pc, local, dispatching>>
      /\ \E s \in {"timedout", "turTimedout", "idle", "failed"} :
           cmdState' = [cmdState EXCEPT ![c] = s]
  BY DEF CommandTimesOut, RecoveryFinishes
<1>2. PICK s \in {"timedout", "turTimedout", "idle", "failed"} :
        cmdState' = [cmdState EXCEPT ![c] = s]
  BY <1>1, Zenon
<1>3. IInv' /\ QueuesOnce' /\ Held' = Held
  BY <1>1, ChannelStays, Zenon DEF HInv
<1>4. HostStateOK /\ Order /\ OnePlace /\ Recovery /\ NothingLost /\ NothingKept
  BY DEF HInv, Custody
<1>5. /\ cmdState' \in [Cmds -> CmdStates]
      /\ \A d \in Cmds : cmdState'[d] = IF d = c THEN s ELSE cmdState[d]
  BY <1>2, <1>4 DEF HostStateOK, CmdStates
<1>6. \/ CommandTimesOut(c)
      \/ RecoveryFinishes(c) /\ ~DriverHas(c)
  BY <1>4 DEF RecoveryFinishes, NothingKept
<1>7. CommandTimesOut(c) => s \in {"timedout", "turTimedout"}
  BY <1>4, <1>5 DEF CommandTimesOut, HostStateOK
<1>8. HostStateOK'
  BY <1>1, <1>4, <1>5 DEF HostStateOK
<1>9. Order'
  BY <1>1, <1>4 DEF Order, HoldsLock
<1>10. OnePlace'
  <2>1. \A y \in Contexts : local'[y] \cap Held' = {}
    BY <1>1, <1>3, <1>4 DEF OnePlace
  <2>2. \A y, z \in Contexts : y # z => local'[y] \cap local'[z] = {}
    BY <1>1, <1>4 DEF OnePlace
  <2>3. \A y \in Submitters : pc[y] = "dispatch" => dispatching[y] # c
    BY <1>6 DEF CommandTimesOut, DriverHas
  <2>4. ASSUME NEW y \in Submitters, pc'[y] = "dispatch"
        PROVE  /\ dispatching'[y] \in Cmds /\ dispatching'[y] \notin Held'
               /\ cmdState'[dispatching'[y]] \in {"issued", "tur"}
               /\ \A z \in Contexts : dispatching'[y] \notin local'[z]
               /\ \A z \in Submitters : pc'[z] = "dispatch" /\ dispatching'[z] = dispatching'[y]
                                          => z = y
    BY <1>1, <1>3, <1>4, <1>5, <2>3, <2>4 DEF OnePlace
  <2>5. QED
    BY <2>1, <2>2, <2>4, Zenon DEF OnePlace
<1>11. Recovery'
  <2>1. pc["caller"] \notin {"abortTake", "abortDone", "resetTake"}
    <3>1. CASE CommandTimesOut(c)
      <4>1. TimerMayRun /\ cmdState[c] \in {"issued", "tur"}
        BY <3>1 DEF CommandTimesOut
      <4>2. ~HoldsLock("caller")
        BY <1>4, <4>1, LockExcludes, Zenon
      <4>3. QED
        BY <1>4, <4>1, <4>2 DEF HoldsLock, Recovery
    <3>2. CASE RecoveryFinishes(c)
      BY <3>2 DEF RecoveryFinishes, RecoveryMayRun
    <3>3. QED
      BY <1>6, <3>1, <3>2
  <2>2. QED
    BY <1>1, <2>1 DEF Recovery
<1>12. \A d : DriverHas(d)' <=> DriverHas(d)
  BY <1>1, <1>3 DEF DriverHas
<1>13. NothingLost'
  BY <1>4, <1>5, <1>12 DEF NothingLost
<1>14. NothingKept'
  BY <1>4, <1>5, <1>6, <1>7, <1>12 DEF NothingKept
<1>15. BlockedIsRemembered'
  BY <1>1 DEF HInv, BlockedIsRemembered
<1>16. QED
  BY <1>3, <1>8, <1>9, <1>10, <1>11, <1>13, <1>14, <1>15 DEF HInv, Custody

\* The error handler restarts the channel: mv_ial_ht_abort, mv_ial_ht_bus_reset.
LEMMA RestartingKeeps ==
  ASSUME HInv, BusReset \/ \E c \in Cmds : Abort(c)
  PROVE  HInv'
<1>1. /\ RecoveryMayRun /\ RestartChannel /\ BlockRequests
      /\ UNCHANGED <<local, cmdState>>
  BY DEF BusReset, Abort
<1>2. IInv' /\ QueuesOnce' /\ Held' = Held
  BY <1>1, ChannelKeeps, Zenon DEF HInv
<1>3. Held' = Elems(scsi_cmnd_done')
  BY <1>1, RestartEmpties, Zenon DEF HInv
<1>4. HostStateOK /\ Order /\ OnePlace /\ Recovery /\ NothingLost /\ NothingKept
  BY DEF HInv, Custody
<1>5. /\ {"caller", "nested", "timer", "irq"} \subseteq Contexts
      /\ Submitters = {"caller", "nested"} /\ Submitters \subseteq Contexts
  BY DEF Contexts, Submitters
<1>6. /\ pc["caller"] = "idle" /\ pc["timer"] = "idle" /\ pc["irq"] = "idle"
      /\ pc["nested"] = "idle" /\ local["timer"] = {}
      /\ \A c \in Cmds : cmdState[c] \notin {"issued", "tur"}
  BY <1>1, <1>4, <1>5 DEF RecoveryMayRun, MayRun, Order
<1>7. /\ hostBlocked' \in BOOLEAN /\ selfBlocked' \in BOOLEAN
      /\ selfBlocked' => hostBlocked'
  BY <1>1, <1>4, <1>6 DEF BlockRequests, HostStateOK, HInv, BlockedIsRemembered
<1>8. \E step \in {"abortTake", "resetTake"} : pc' = [pc EXCEPT !["caller"] = step]
  BY DEF BusReset, Abort, Goto
<1>9. /\ pc' \in [Contexts -> Steps] /\ pc'["caller"] \in {"abortTake", "resetTake"}
      /\ \A y \in Contexts \ {"caller"} : pc'[y] = pc[y]
      /\ \A y \in Submitters : pc'[y] # "dispatch" /\ pc[y] # "dispatch"
  BY <1>4, <1>5, <1>6, <1>8 DEF HostStateOK, Steps
<1>10. dispatching' \in [Submitters -> Cmds \cup {NoCmd}]
  BY <1>4 DEF HostStateOK, BusReset, Abort
<1>11. HostStateOK'
  BY <1>1, <1>4, <1>7, <1>9, <1>10 DEF HostStateOK
<1>12. Order'
  BY <1>1, <1>4, <1>5, <1>6, <1>9 DEF Order, HoldsLock, Steps
<1>13. OnePlace'
  BY <1>1, <1>2, <1>4, <1>9 DEF OnePlace
<1>14. Recovery'
  <2>1. ASSUME NEW c \in Cmds, Abort(c)
        PROVE  Recovery'
    <3>1. /\ cmdState[c] \in {"timedout", "turTimedout"}
          /\ dispatching' = [dispatching EXCEPT !["caller"] = c]
          /\ pc' = [pc EXCEPT !["caller"] = "abortTake"]
      BY <2>1 DEF Abort, Goto
    <3>2. dispatching'["caller"] = c /\ pc'["caller"] = "abortTake"
      BY <1>4, <1>5, <3>1 DEF HostStateOK
    <3>3. QED
      BY <1>1, <1>3, <1>5, <1>6, <1>9, <3>1, <3>2 DEF Recovery
  <2>2. CASE BusReset
    <3>1. /\ \A c \in Cmds : cmdState[c] \in {"idle", "failed"}
          /\ pc' = [pc EXCEPT !["caller"] = "resetTake"]
      BY <2>2 DEF BusReset, Goto
    <3>2. pc'["caller"] = "resetTake"
      BY <1>4, <1>5, <3>1 DEF HostStateOK
    <3>3. QED
      BY <1>1, <3>1, <3>2 DEF Recovery
  <2>3. QED
    BY <2>1, <2>2
<1>15. \A d : DriverHas(d)' <=> DriverHas(d)
  BY <1>1, <1>2, <1>9 DEF DriverHas
<1>16. NothingLost' /\ NothingKept'
  BY <1>1, <1>4, <1>15 DEF NothingLost, NothingKept
<1>17. BlockedIsRemembered'
  BY <1>7 DEF BlockedIsRemembered
<1>18. QED
  BY <1>2, <1>11, <1>12, <1>13, <1>14, <1>16, <1>17 DEF HInv, Custody

\* mv_ial_ht_abort and mv_ial_ht_bus_reset return: the driver has nothing.
LEMMA ReturningKeeps ==
  ASSUME HInv, AbortReturns \/ BusResetReturns
  PROVE  HInv'
<1>1. HostStateOK /\ Order /\ OnePlace /\ Recovery /\ NothingLost /\ NothingKept
  BY DEF HInv, Custody
<1>2. /\ {"caller", "nested", "timer", "irq"} = Contexts
      /\ Submitters = {"caller", "nested"} /\ Submitters \subseteq Contexts
  BY DEF Contexts, Submitters
<1>3. /\ MayRun("caller") /\ pc["caller"] \in {"abortDone", "resetTake"}
      /\ pc' = [pc EXCEPT !["caller"] = "idle"]
      /\ UNCHANGED <<hostBlocked, selfBlocked>>
  BY DEF AbortReturns, BusResetReturns, Goto
<1>4. /\ pc["timer"] = "idle" /\ pc["irq"] = "idle" /\ pc["nested"] = "idle"
      /\ local["timer"] = {} /\ local["irq"] = {} /\ local["nested"] = {}
  BY <1>1, <1>2, <1>3 DEF MayRun, Order
<1>5. /\ pc' \in [Contexts -> Steps] /\ pc'["caller"] = "idle"
      /\ \A y \in Contexts : pc'[y] = "idle"
  BY <1>1, <1>2, <1>3, <1>4 DEF HostStateOK, Steps
<1>6. CASE AbortReturns
  <2>1. /\ pc["caller"] = "abortDone" /\ UNCHANGED vars
        /\ local' = [local EXCEPT !["caller"] = {}]
        /\ dispatching' = [dispatching EXCEPT !["caller"] = NoCmd]
    BY <1>6 DEF AbortReturns
  <2>2. PICK c : c = dispatching["caller"]
    OBVIOUS
  <2>3. \E s \in {"aborted", "failed"} :
          cmdState' = [ScsiDone(local["caller"]) EXCEPT ![c] = s]
    BY <1>6, <2>2 DEF AbortReturns
  <2>4. \A d \in Cmds : cmdState[d] \notin {"issued", "tur"}
    BY <1>1, <2>1 DEF Recovery
  <2>5. /\ cmdState' \in [Cmds -> CmdStates]
        /\ \A d \in Cmds : cmdState'[d] \notin {"issued", "tur"}
    <3>1. /\ ScsiDone(local["caller"]) \in [Cmds -> CmdStates]
          /\ \A d \in Cmds : ScsiDone(local["caller"])[d] \notin {"issued", "tur"}
      BY <1>1, <2>4 DEF HostStateOK, ScsiDone, CmdStates
    <3>2. QED
      BY <2>3, <3>1 DEF CmdStates
  <2>6. IInv' /\ QueuesOnce' /\ Held' = {}
    <3>1. Held = {}
      BY <1>1, <2>1 DEF Recovery
    <3>2. QED
      BY <2>1, <3>1, ChannelStays, Zenon DEF HInv
  <2>7. local' \in [Contexts -> SUBSET Cmds] /\ \A y \in Contexts : local'[y] = {}
    BY <1>1, <1>2, <1>4, <2>1 DEF HostStateOK
  <2>8. dispatching' \in [Submitters -> Cmds \cup {NoCmd}]
    BY <1>1, <2>1 DEF HostStateOK
  <2>9. HostStateOK'
    BY <1>1, <1>3, <1>5, <2>5, <2>7, <2>8 DEF HostStateOK
  <2>10. Order' /\ OnePlace' /\ Recovery'
    BY <1>2, <1>5, <2>6, <2>7 DEF Order, OnePlace, Recovery, HoldsLock, Steps
  <2>11. \A d : ~DriverHas(d)'
    BY <1>2, <1>5, <2>6, <2>7 DEF DriverHas
  <2>12. NothingLost' /\ NothingKept'
    BY <2>5, <2>11 DEF NothingLost, NothingKept
  <2>13. BlockedIsRemembered'
    BY <1>3, <1>4 DEF HInv, BlockedIsRemembered
  <2>14. QED
    BY <2>6, <2>9, <2>10, <2>12, <2>13 DEF HInv, Custody
<1>7. CASE BusResetReturns
  <2>1. /\ pc["caller"] = "resetTake" /\ TakeDoneList
        /\ cmdState' = [c \in Cmds |-> IF cmdState[c] = "failed" THEN "reset"
                                                                 ELSE cmdState[c]]
        /\ UNCHANGED <<local, dispatching>>
    BY <1>7 DEF BusResetReturns
  <2>2. \A d \in Cmds : cmdState[d] \in {"idle", "failed"}
    BY <1>1, <2>1 DEF Recovery
  <2>3. /\ cmdState' \in [Cmds -> CmdStates]
        /\ \A d \in Cmds : cmdState'[d] \notin {"issued", "tur"}
    BY <2>1, <2>2 DEF CmdStates
  <2>4. IInv' /\ QueuesOnce' /\ Held' \subseteq Held
    <3>1. IInv' /\ QueuesOnce' /\ Held' = Held \ Elems(scsi_cmnd_done)
      BY <2>1, TakeEmpties, Zenon DEF HInv
    <3>2. QED
      BY <3>1
  <2>5. \A y \in Contexts : local'[y] = {}
    BY <1>1, <1>2, <1>3, <1>4, <2>1 DEF Order
  <2>6. HostStateOK'
    BY <1>1, <1>3, <1>5, <2>1, <2>3 DEF HostStateOK
  <2>7. Order' /\ OnePlace' /\ Recovery'
    BY <1>2, <1>5, <2>5 DEF Order, OnePlace, Recovery, HoldsLock, Steps
  <2>8. \A d \in Cmds : ~DriverHas(d)'
    <3>1. \A d \in Cmds : d \notin Held
      BY <1>1, <2>2 DEF NothingKept, DriverHas
    <3>2. QED
      BY <1>2, <1>5, <2>4, <2>5, <3>1 DEF DriverHas
  <2>9. NothingLost' /\ NothingKept'
    BY <2>3, <2>8 DEF NothingLost, NothingKept
  <2>10. BlockedIsRemembered'
    BY <1>3, <1>4 DEF HInv, BlockedIsRemembered
  <2>11. QED
    BY <2>4, <2>6, <2>7, <2>9, <2>10 DEF HInv, Custody
<1>8. QED
  BY <1>6, <1>7

-----------------------------------------------------------------------------
(* The theorems.                                                           *)

\* mv_ial_init_soc_sata.
LEMMA HostInitEstablishes ==
  ASSUME HostInit
  PROVE  HInv
<1>1. IInv
  BY InitEstablishes DEF HostInit
<1>2. QueuesOnce /\ Held = {}
  BY ElemsEmpty, OnceEmpty DEF HostInit, Init, QueuesOnce, Held
<1>3. /\ "caller" \in Contexts /\ "nested" \in Contexts /\ "timer" \in Contexts
      /\ "irq" \in Contexts /\ Submitters \subseteq Contexts
  BY DEF Contexts, Submitters
<1>4. HostStateOK
  BY DEF HostInit, HostStateOK, Steps, CmdStates
<1>5. Order /\ OnePlace /\ Recovery
  BY <1>2, <1>3 DEF HostInit, Order, OnePlace, Recovery, HoldsLock, Steps
<1>6. \A c : ~DriverHas(c)
  BY <1>2, <1>3 DEF HostInit, DriverHas
<1>7. NothingLost /\ NothingKept
  BY <1>6 DEF HostInit, NothingLost, NothingKept
<1>8. BlockedIsRemembered
  BY DEF HostInit, BlockedIsRemembered
<1>9. QED
  BY <1>1, <1>2, <1>4, <1>5, <1>7, <1>8 DEF HInv, Custody

\* A step that changes nothing.
LEMMA HostStutterKeeps ==
  ASSUME HInv, UNCHANGED fullVars
  PROVE  HInv'
<1>1. UNCHANGED vars /\ UNCHANGED hostVars
  BY DEF fullVars
<1>2. IInv' /\ QueuesOnce' /\ Held' = Held
  BY <1>1, ChannelStays, Zenon DEF HInv
<1>3. UNCHANGED <<hostBlocked, selfBlocked, pc, local, dispatching, cmdState>>
  BY <1>1 DEF hostVars
<1>4. Elems(scsi_cmnd_done)' = Elems(scsi_cmnd_done)
  BY <1>1 DEF vars, queueVars
<1>5. HostStateOK' /\ Order' /\ OnePlace' /\ Recovery' /\ BlockedIsRemembered'
  BY <1>2, <1>3, <1>4 DEF HInv, Custody, HostStateOK, Order, HoldsLock, OnePlace, Recovery,
     BlockedIsRemembered
<1>6. NothingLost' /\ NothingKept'
  BY <1>2, <1>3 DEF HInv, Custody, NothingLost, NothingKept, DriverHas
<1>7. QED
  BY <1>2, <1>5, <1>6 DEF HInv, Custody

\* Every step of every context keeps the invariant.
LEMMA HostStepKeeps ==
  ASSUME HInv, [HostNext]_fullVars
  PROVE  HInv'
<1>1. CASE HostNext
  BY <1>1, InterruptKeeps, InterruptCompletesKeeps, TimerKeeps, TakeSteps, HandSteps,
     OfferSteps, QueueSteps, MidLayerSteps, RestartingKeeps, ReturningKeeps, Zenon
     DEF HostNext
<1>2. CASE UNCHANGED fullVars
  BY <1>2, HostStutterKeeps, Zenon
<1>3. QED
  BY <1>1, <1>2, Zenon

\* The invariant holds in every state of the host.
THEOREM HostInvariant == HostSpec => []HInv
<1>1. HostInit => HInv
  BY HostInitEstablishes, Zenon
<1>2. HInv /\ [HostNext]_fullVars => HInv'
  BY HostStepKeeps, Zenon
<1>3. QED
  BY <1>1, <1>2, PTL DEF HostSpec

\* The variables of the host and of its channel keep their types.
THEOREM HostTypeCorrect == HostSpec => []HostTypeOK
<1>1. HInv => HostTypeOK
  BY DEF HInv, IInv, HostStateOK, HostTypeOK
<1>2. QED
  BY <1>1, HostInvariant, PTL

\* The driver never forgets a command the mid-layer waits for: from
\* queuecommand to scsi_done it is in a list of the channel, in a list a
\* context is about to hand over, or in queuecommand.
THEOREM NothingLostSafe == HostSpec => []NothingLost
<1>1. HInv => NothingLost
  BY DEF HInv, Custody
<1>2. QED
  BY <1>1, HostInvariant, PTL

\* The driver has no command the mid-layer owns: after mv_ial_ht_abort or
\* mv_ial_ht_bus_reset no late scsi_done can reach a command that was freed.
THEOREM NothingKeptSafe == HostSpec => []NothingKept
<1>1. HInv => NothingKept
  BY DEF HInv, Custody
<1>2. QED
  BY <1>1, HostInvariant, PTL

\* Whatever interrupts mv_ial_unblock_requests, a blocked mid-layer is known
\* to the timer function, which will unblock it.
THEOREM BlockedSafe == HostSpec => []BlockedIsRemembered
<1>1. HInv => BlockedIsRemembered
  BY DEF HInv
<1>2. QED
  BY <1>1, HostInvariant, PTL

-----------------------------------------------------------------------------
(* The host drives the channel as IALChannel says it is driven.            *)

\* A step of the host is a step of the channel or leaves it alone: what
\* queuecommand submits is not in one of the channel's lists.
LEMMA HostDrivesChannel ==
  ASSUME HInv, [HostNext]_fullVars
  PROVE  [Next]_vars
<1>1. ASSUME NEW x \in Submitters, NEW p \in Ports, QueueCommand(x, p)
      PROVE  Next
  <2>1. dispatching[x] \in Cmds \ Held
    BY <1>1 DEF QueueCommand, HInv, Custody, OnePlace
  <2>2. QED
    BY <1>1, <2>1, Zenon DEF QueueCommand, Next
<1>2. Interrupt \/ TimerTick => Next
  BY Zenon DEF Interrupt, TimerTick, Next
<1>3. ASSUME \/ InterruptCompletes \/ TimerTakes \/ AbortTakes \/ BusResetReturns
             \/ \E x \in Submitters : QueueCommandTakes(x)
      PROVE  Next
  BY <1>3, Zenon
     DEF InterruptCompletes, TimerTakes, AbortTakes, BusResetReturns, QueueCommandTakes, Next
<1>4. BusReset \/ (\E c \in Cmds : Abort(c)) => Next
  BY Zenon DEF BusReset, Abort, Next
<1>5. ASSUME \/ UnblockTests \/ UnblockClears \/ UnblockRequests \/ TimerCompletes
             \/ AbortReturns \/ UNCHANGED fullVars
             \/ \E x \in Submitters, c \in Cmds : Dispatch(x, c)
             \/ \E x \in Submitters : QueueCommandRefused(x) \/ QueueCommandCompletes(x)
             \/ \E c \in Cmds : \/ CommandTimesOut(c) \/ TestUnitReady(c)
                                \/ RecoveryFinishes(c)
      PROVE  UNCHANGED vars
  BY <1>5 DEF UnblockTests, UnblockClears, UnblockRequests, TimerCompletes, AbortReturns,
     fullVars, Dispatch, QueueCommandRefused, QueueCommandCompletes, CommandTimesOut,
     TestUnitReady, RecoveryFinishes
<1>6. QED
  BY <1>1, <1>2, <1>3, <1>4, <1>5, Zenon DEF HostNext

\* The channel under queuecommand, error handler, timer and interrupts behaves
\* as IALChannel specifies: its theorems hold of the host as well.
THEOREM HostImplementsChannel == HostSpec => Spec
<1>1. HostInit => Init
  BY DEF HostInit
<1>2. HInv /\ [HostNext]_fullVars => [Next]_vars
  BY HostDrivesChannel, Zenon
<1>3. QED
  BY <1>1, <1>2, HostInvariant, PTL DEF HostSpec, Spec

=============================================================================
