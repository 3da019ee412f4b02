------------------------------ MODULE SataEdma ------------------------------
(***************************************************************************)
(* One channel of the core SATA driver (mvSata.c) on a GEN_IIE controller: *)
(* the software queue with its tags, the EDMA request and response rings,  *)
(* the switch between EDMA and PIO, the interrupt routine and the recovery *)
(* from device errors.                                                     *)
(*                                                                         *)
(* "ch" is MV_SATA_CHANNEL together with the registers and the ring memory *)
(* it shares with the hardware; the C functions are operators from one     *)
(* value of it to the next.  The IAL calls the driver under adapter_lock   *)
(* and the interrupt routine holds that lock from "cleared" to "idle": in  *)
(* between only the hardware moves.                                        *)
(*                                                                         *)
(* FIS-based switching is off (mvSataConfigureChannel clears FBSEnabled).  *)
(* A slot of a ring is emptied when it is read: the code never reads it    *)
(* again before it is written.                                             *)
(***************************************************************************)
EXTENDS Integers, Sequences, FiniteSets

CONSTANTS
  Cmds,          \* commands of the upper layer
  NoCmd,
  Ports,         \* ports behind the port multiplier
  HostTags,      \* MV_SATA_SW_QUEUE_SIZE tags of the channel
  DeviceTags,    \* MV_SATA_TAGS_PER_POOL tags of each port
  QueueLength,   \* MV_EDMA_QUEUE_LENGTH slots of each ring
  Modes,         \* EDMA modes the IAL may configure
  Faults         \* what may go wrong besides a command failing

ReadLog == 255   \* host tag 0xFF: the driver's own READ LOG EXT
NoTag   == -1

EdmaModes == {"NOT_QUEUED", "QUEUED", "NATIVE_QUEUING"}
LinkFaults == {"unrecoverable", "disconnect", "connect"}
Notices == {"asyncNotify", "recoverable"}
AllFaults == LinkFaults \cup Notices
               \cup {"pio", "readlog", "softreset", "spurious", "late"}

\* The first bound is the #error of mvSata.h: a full ring looks empty.
ASSUME EdmaAssumption ==
  /\ IsFiniteSet(HostTags) /\ IsFiniteSet(DeviceTags) /\ IsFiniteSet(Ports)
  /\ QueueLength \in Nat /\ Cardinality(HostTags) < QueueLength
  /\ HostTags = 0..(Cardinality(HostTags) - 1) /\ HostTags # {}
  /\ DeviceTags = 0..(Cardinality(DeviceTags) - 1) /\ DeviceTags # {}
  /\ ReadLog \notin HostTags /\ NoCmd \notin Cmds
  /\ Ports = 0..(Cardinality(Ports) - 1) /\ Ports # {}
  /\ Modes \subseteq EdmaModes /\ Modes # {} /\ Faults \subseteq AllFaults

VARIABLES
  ch,      \* the channel and its hardware
  isr,     \* the locals of mvSataInterruptServiceRoutine and its callees
  lives    \* per command: accepted minus called back

vars == <<ch, isr, lives>>

Slots == 0..(QueueLength - 1)

\* Mutation: a pointer of a ring does not wrap.
Next1NoWrap(ptr) == ptr + 1

Next1(ptr) == (ptr + 1) % QueueLength

FreeEntry == [cmd |-> NoCmd, type |-> "FREE", PMPort |-> 0, deviceTag |-> 0,
              isCommandInEdma |-> FALSE, commandAborted |-> FALSE]
NoResponse == [id |-> NoTag, err |-> FALSE]
NoRing(x) == [i \in Slots |-> x]

\* initTagsStack: the top of a stack is the head of the sequence.
FullStack(tags) == [i \in 1..Cardinality(tags) |-> i - 1]

Idle == [pc |-> "idle", ret |-> "idle", edmaError |-> FALSE,
         rspInPtr |-> 0, rspOutPtr |-> 0]
Pcs  == {"idle", "cleared", "responses", "error", "insert", "ports"}

Init ==
  /\ ch = [queueCommandsEnabled |-> FALSE, EdmaActive |-> FALSE,
           queuedDMA |-> CHOOSE m \in Modes : TRUE,
           commandsQueue |-> <<>>,
           entry |-> [t \in HostTags |-> FreeEntry],
           HostTagsPool |-> FullStack(HostTags),
           DeviceTagsPool |-> [p \in Ports |-> FullStack(DeviceTags)],
           outstandingCommands |-> 0, noneUdmaOutstandingCommands |-> 0,
           portQueuedCommands |-> [p \in Ports |-> 0],
           state |-> "IDLE", PortsWithErrors |-> {}, CurrPort |-> 0,
           reqInPtr |-> 0, rspOutPtr |-> 0,
           \* hardware and ring memory
           requestQueue |-> NoRing(NoTag), responseQueue |-> NoRing(NoResponse),
           reqOutPtr |-> 0, rspInPtr |-> 0, edmaEnabled |-> FALSE,
           errorCause |-> {}, responseDone |-> FALSE, saDevMask |-> FALSE,
           \* the drives
           executing |-> {}, erring |-> [p \in Ports |-> NoTag], pio |-> NoTag,
           \* how far the IAL has come with initialising the channel
           phase |-> "restarted"]
  /\ isr = Idle
  /\ lives = [c \in Cmds |-> 0]

-----------------------------------------------------------------------------
(* Tags and the list of commands.                                          *)

Elems(q) == {q[i] : i \in DOMAIN q}

\* commandsQueueRemove: the entry is unlinked from the list.
Without(q, t) ==
  IF t \notin Elems(q) THEN q
  ELSE LET k == CHOOSE i \in DOMAIN q : q[i] = t
       IN [i \in 1..(Len(q) - 1) |-> IF i < k THEN q[i] ELSE q[i + 1]]

Used(s) == {t \in HostTags : s.entry[t] # FreeEntry}
Held(s) == {s.entry[t].cmd : t \in Used(s)}
One(b)  == IF b THEN 1 ELSE 0
IsPIO(s, t) == t = ReadLog \/ s.entry[t].type = "NONE_UDMA"
HeadIsPIO(s) == s.commandsQueue # <<>> /\ IsPIO(s, Head(s.commandsQueue))

isEmpty(stack) == stack = <<>>

\* addCommand, with the tags getTag popped and the fields mvSataQueueCommand set.
addCommand(s, c, type, p) ==
  LET t == Head(s.HostTagsPool)
  IN [s EXCEPT
        !.entry[t] = [cmd |-> c, type |-> type, PMPort |-> p,
                      deviceTag |-> Head(s.DeviceTagsPool[p]),
                      isCommandInEdma |-> FALSE, commandAborted |-> FALSE],
        !.HostTagsPool = Tail(@), !.DeviceTagsPool[p] = Tail(@),
        !.commandsQueue = Append(@, t),
        !.outstandingCommands = @ + 1,
        !.noneUdmaOutstandingCommands = @ + One(type = "NONE_UDMA"),
        !.portQueuedCommands[p] = @ + 1]

\* Mutation: a PIO command leaves its count behind.
RemoveKeepsCount(s, t) ==
  LET e == s.entry[t]
  IN [s EXCEPT
        !.entry[t] = FreeEntry,
        !.HostTagsPool = <<t>> \o @,
        !.DeviceTagsPool[e.PMPort] = <<e.deviceTag>> \o @,
        !.commandsQueue = Without(@, t),
        !.outstandingCommands = @ - 1,
        !.portQueuedCommands[e.PMPort] = @ - 1]

removeCommand(s, t) ==
  LET e == s.entry[t]
  IN [s EXCEPT
        !.entry[t] = FreeEntry,
        !.HostTagsPool = <<t>> \o @,
        !.DeviceTagsPool[e.PMPort] = <<e.deviceTag>> \o @,
        !.commandsQueue = Without(@, t),
        !.outstandingCommands = @ - 1,
        !.noneUdmaOutstandingCommands = @ - One(e.type = "NONE_UDMA"),
        !.portQueuedCommands[e.PMPort] = @ - 1]

\* The loops over the list stop at the first command outside the EDMA.
LeadingInEdma(s) ==
  {t \in HostTags :
     \E k \in DOMAIN s.commandsQueue :
       /\ s.commandsQueue[k] = t
       /\ \A j \in 1..k : /\ s.commandsQueue[j] # ReadLog
                          /\ s.entry[s.commandsQueue[j]].isCommandInEdma}

\* _getHostTagByDeviceTag: the tags it can return, none or one.
HostTagsByDeviceTag(s, d, p) ==
  {t \in LeadingInEdma(s) : s.entry[t].deviceTag = d /\ s.entry[t].PMPort = p}

-----------------------------------------------------------------------------
(* The EDMA engine.                                                        *)

\* Mutation: the device interrupt stays masked.
DeactivateDeaf(s) ==
  [s EXCEPT !.EdmaActive = FALSE, !.edmaEnabled = FALSE, !.executing = {}]

\* deactivateEdma; the engine is taken to stop within the second it is given.
deactivateEdma(s) ==
  [s EXCEPT !.EdmaActive = FALSE, !.edmaEnabled = FALSE, !.executing = {},
            !.saDevMask = TRUE]

\* activateEdma drops every interrupt that is pending but the asynchronous
\* notification.  _checkATAStatus gives a drive that is busy a soft reset first:
\* the PIO command it was executing is lost.
activateEdma(s) ==
  [s EXCEPT !.EdmaActive = TRUE, !.edmaEnabled = TRUE, !.saDevMask = FALSE,
            !.responseDone = FALSE, !.errorCause = @ \cap {"asyncNotify"},
            !.pio = NoTag]

\* Mutation: the pointers of the request ring are left.
ResetResponsesOnly(s) ==
  [s EXCEPT !.rspOutPtr = 0, !.rspInPtr = 0,
            !.responseQueue = NoRing(NoResponse)]

\* _resetEdmaQPointers.
resetEdmaQPointers(s) ==
  [s EXCEPT !.reqInPtr = 0, !.rspOutPtr = 0, !.reqOutPtr = 0, !.rspInPtr = 0,
            !.requestQueue = NoRing(NoTag),
            !.responseQueue = NoRing(NoResponse)]

\* resetEdmaChannel; what a drive still executes is lost to the driver.
resetEdmaChannel(s) ==
  [resetEdmaQPointers(s) EXCEPT
     !.edmaEnabled = FALSE, !.EdmaActive = FALSE,
     !.queueCommandsEnabled = FALSE,
     !.outstandingCommands = 0, !.noneUdmaOutstandingCommands = 0,
     !.portQueuedCommands = [p \in Ports |-> 0],
     !.HostTagsPool = FullStack(HostTags),
     !.DeviceTagsPool = [p \in Ports |-> FullStack(DeviceTags)],
     !.entry = [t \in HostTags |-> FreeEntry], !.commandsQueue = <<>>,
     !.state = "IDLE", !.PortsWithErrors = {}, !.CurrPort = 0,
     !.executing = {}, !.pio = NoTag, !.erring = [p \in Ports |-> NoTag]]

EdmaReqQueueInsert(s, t) ==
  [s EXCEPT !.requestQueue[s.reqInPtr] = t, !.reqInPtr = Next1(@),
            !.entry[t].isCommandInEdma = TRUE,
            !.entry[t].commandAborted = FALSE]

\* _insertQCommandsIntoEdma with a UDMA command at the head: the leading UDMA
\* commands enter the request ring in the order of the list.
insertLeadingUdma(s) ==
  LET q == s.commandsQueue
      n == Cardinality({k \in DOMAIN q : \A j \in 1..k : ~IsPIO(s, q[j])})
      Place(i) == 1 + ((i - s.reqInPtr + QueueLength) % QueueLength)
  IN [activateEdma(s) EXCEPT
        !.requestQueue = [i \in Slots |-> IF Place(i) <= n THEN q[Place(i)]
                                                           ELSE @[i]],
        !.reqInPtr = (@ + n) % QueueLength,
        !.entry = [t \in HostTags |->
                     IF t \in {q[k] : k \in 1..n}
                     THEN [@[t] EXCEPT !.isCommandInEdma = TRUE,
                                       !.commandAborted = FALSE]
                     ELSE @[t]]]

\* mvSataDisableChannelDma.
disableChannelDma(s) ==
  deactivateEdma([s EXCEPT !.queueCommandsEnabled = FALSE])

\* Mutation: only the commands in the EDMA are called back.
FlushUdmaOnly(s) ==
  IF s.queueCommandsEnabled THEN {}
  ELSE {s.entry[t].cmd : t \in {x \in Used(s) : s.entry[x].isCommandInEdma}}

\* mvSataFlushDmaQueue refuses while commands may be queued.
flushedCommands(s) == IF s.queueCommandsEnabled THEN {} ELSE Held(s)
flushDmaQueue(s)   == IF s.queueCommandsEnabled THEN s ELSE resetEdmaChannel(s)

\* Mutation: the queue is flushed before it is disabled.
FlushFirst(s) ==
  [ch |-> [disableChannelDma(flushDmaQueue(s)) EXCEPT !.phase = "restarted"],
   called |-> flushedCommands(s)]

\* What mvRestartChannel, mvStopChannel and handleUnrecoverableError do to the
\* channel: nothing is left in it and the IAL initialises it again.
restartChannel(s) ==
  [ch |-> [flushDmaQueue(disableChannelDma(s)) EXCEPT !.phase = "restarted"],
   called |-> flushedCommands(disableChannelDma(s))]

-----------------------------------------------------------------------------
(* Helpers of the actions: a step gives the channel, the commands called   *)
(* back in it and the locals of the interrupt routine.                     *)

Step(s, called, locals) ==
  /\ ch' = s
  /\ lives' = [c \in Cmds |-> lives[c] - One(c \in called)]
  /\ isr' = locals

Goto(pc)   == [isr EXCEPT !.pc = pc]
Return     == IF isr.ret = "idle" THEN Idle ELSE Goto(isr.ret)
Call(pc, ret) == [isr EXCEPT !.pc = pc, !.ret = ret]

\* _doDevErrorRecovery: a soft reset in QUEUED mode, which may fail and leave
\* the queue disabled; otherwise the list is inserted again.
doDevErrorRecovery(s, called, ret) ==
  \/ Step([resetEdmaQPointers(s) EXCEPT
             !.queueCommandsEnabled = TRUE, !.saDevMask = TRUE,
             !.erring = [p \in Ports |-> NoTag]],
          called, Call("insert", ret))
  \/ /\ "softreset" \in Faults /\ s.queuedDMA = "QUEUED"
     /\ Step(s, called, IF ret = "idle" THEN Idle ELSE Goto(ret))

\* completePIOCommand for a command of the upper layer that failed.
failPIOCommand(s, t, ret) ==
  doDevErrorRecovery(
    [removeCommand(s, t) EXCEPT !.queueCommandsEnabled = FALSE, !.pio = NoTag],
    {s.entry[t].cmd}, ret)

\* completePIOCommand for READ LOG EXT that failed: ReadLogExtCompletionCB
\* leaves the channel to the timeout of the upper layer.
failReadLog(s) ==
  [s EXCEPT !.queueCommandsEnabled = FALSE, !.pio = NoTag,
            !.commandsQueue = Without(@, ReadLog)]

-----------------------------------------------------------------------------
(* Calls of the IAL.                                                       *)

\* The IAL is done with initialising and no interrupt routine runs.
Ready == ch.phase = "ready" /\ isr.pc = "idle"

CanQueue(c, p) ==
  /\ Ready /\ lives[c] = 0
  /\ ch.queueCommandsEnabled
  /\ ~isEmpty(ch.HostTagsPool) /\ ~isEmpty(ch.DeviceTagsPool[p])

Accept(s, c) == /\ ch' = s
                /\ lives' = [lives EXCEPT ![c] = 1]
                /\ UNCHANGED isr

\* Mutation: during a device error the command is put into the ring for the EDMA
\* to find it there later.
QueueUdmaAnyState(c, p) ==
  LET t == Head(ch.HostTagsPool)
      s == IF ch.EdmaActive \/ ch.state # "IDLE" THEN ch ELSE activateEdma(ch)
  IN /\ CanQueue(c, p)
     /\ IF ch.noneUdmaOutstandingCommands = 0
        THEN Accept(EdmaReqQueueInsert(addCommand(s, c, "UDMA", p), t), c)
        ELSE Accept(addCommand(ch, c, "UDMA", p), c)

\* Mutation: a command overtakes the PIO commands of the list.
QueueUdmaPastPio(c, p) ==
  LET t == Head(ch.HostTagsPool)
      s == IF ch.EdmaActive THEN ch ELSE activateEdma(ch)
  IN /\ CanQueue(c, p)
     /\ IF ch.state = "IDLE"
        THEN Accept(EdmaReqQueueInsert(addCommand(s, c, "UDMA", p), t), c)
        ELSE Accept(addCommand(ch, c, "UDMA", p), c)

\* mvSataQueueCommand, UDMA command.
QueueUdma(c, p) ==
  LET t == Head(ch.HostTagsPool)
      s == IF ch.EdmaActive THEN ch ELSE activateEdma(ch)
  IN /\ CanQueue(c, p)
     /\ IF ch.noneUdmaOutstandingCommands = 0 /\ ch.state = "IDLE"
        THEN Accept(EdmaReqQueueInsert(addCommand(s, c, "UDMA", p), t), c)
        ELSE Accept(addCommand(ch, c, "UDMA", p), c)

\* Mutation: the EDMA is not stopped for a PIO command.
SendBesideEdma(c, p) ==
  LET t == Head(ch.HostTagsPool)
      s == addCommand(ch, c, "NONE_UDMA", p)
  IN /\ CanQueue(c, p)
     /\ \/ s.outstandingCommands # 1 /\ Accept(s, c)
        \/ s.outstandingCommands = 1 /\ Accept([s EXCEPT !.pio = t], c)

\* mvSataQueueCommand, non-UDMA command: alone in the queue it is sent at once.
\* When the drive is not ready the command is removed again and refused.
QueueNoneUdma(c, p) ==
  LET t == Head(ch.HostTagsPool)
      s == addCommand(ch, c, "NONE_UDMA", p)
      off == IF s.EdmaActive THEN deactivateEdma(s) ELSE s
  IN /\ CanQueue(c, p)
     /\ \/ s.outstandingCommands # 1 /\ Accept(s, c)
        \/ /\ s.outstandingCommands = 1
           /\ \/ Accept([off EXCEPT !.pio = t], c)
              \/ /\ "pio" \in Faults
                 /\ Step(removeCommand(off, t), {}, isr)

\* The IAL restarts the channel: abort, bus reset, a cable event.
RestartChannel ==
  /\ isr.pc = "idle" /\ ch.phase = "ready"
  /\ LET r == restartChannel(ch) IN Step(r.ch, r.called, isr)

\* Mutation: configuring the channel leaves the queue as it was.
ConfigureKeepsQueue ==
  /\ isr.pc = "idle" /\ ch.phase = "restarted"
  /\ ch.errorCause = {} /\ ~ch.responseDone
  /\ Step([resetEdmaChannel(ch) EXCEPT
             !.queueCommandsEnabled = ch.queueCommandsEnabled,
             !.saDevMask = FALSE, !.phase = "configured"], {}, isr)

\* mvStartChannelInit configures the channel from the timer function, which
\* runs once no interrupt is pending.
ConfigureChannel ==
  /\ isr.pc = "idle" /\ ch.phase = "restarted"
  /\ ch.errorCause = {} /\ ~ch.responseDone
  /\ Step([resetEdmaChannel(ch) EXCEPT !.saDevMask = FALSE,
                                       !.phase = "configured"], {}, isr)

\* mvSataConfigEdmaMode and mvSataEnableChannelDma, which refuses a channel
\* that is enabled already.
EnableChannelDma ==
  /\ isr.pc = "idle" /\ ch.phase = "configured" /\ ~ch.queueCommandsEnabled
  /\ \E mode \in Modes :
       Step([activateEdma([ch EXCEPT !.queuedDMA = mode]) EXCEPT
               !.queueCommandsEnabled = TRUE, !.phase = "ready"], {}, isr)

-----------------------------------------------------------------------------
(* mvSataInterruptServiceRoutine and handleEdmaInterrupt.                  *)

\* The causes are read, and the unit cause is cleared.
IsrClears ==
  /\ isr.pc = "idle" /\ (ch.responseDone \/ ch.errorCause # {})
  /\ Step([ch EXCEPT !.responseDone = FALSE], {},
          [Idle EXCEPT !.pc = IF ch.responseDone THEN "cleared" ELSE "error",
                       !.edmaError = ch.errorCause # {}])

\* Then the response pointer is read.
IsrReadsPointer ==
  /\ isr.pc = "cleared"
  /\ Step(ch, {}, [isr EXCEPT !.pc = "responses", !.rspInPtr = ch.rspInPtr,
                              !.rspOutPtr = ch.rspOutPtr])

\* isGoodCompletionsExpected in NATIVE_QUEUING mode: a command the drive did
\* not abort, a request not yet fetched, a response not yet handled.
isGoodCompletionsExpected(s) ==
  \/ \E t \in LeadingInEdma(s) : ~s.entry[t].commandAborted
  \/ s.reqOutPtr # s.reqInPtr
  \/ s.rspOutPtr # s.rspInPtr

\* enterRequestSenseState: a drive that is still busy is waited for.
enterRequestSenseState(s, called, ret, locals) ==
  LET off == [deactivateEdma(s) EXCEPT !.errorCause = @ \ {"devErr"}]
  IN \/ Step([off EXCEPT !.state = "WAIT_FOR_BUSY"], called,
             IF ret = "idle" THEN Idle ELSE [locals EXCEPT !.pc = ret])
     \/ Step([off EXCEPT !.state = "REQUEST_SENSE", !.CurrPort = 0], called,
             [locals EXCEPT !.pc = "ports", !.ret = ret])

\* handleEdmaResponse, for a response whose flags disable the queue.  With an
\* unrecoverable error pending the response does not count.
BadResponse(s, t, locals) ==
  LET off == [s EXCEPT !.queueCommandsEnabled = FALSE, !.EdmaActive = FALSE]
  IN IF ch.errorCause \cap {"unrecoverable", "disconnect"} # {} \/ t \notin Used(s)
     THEN Step(off, {}, locals)
     ELSE Step(removeCommand(off, t), {s.entry[t].cmd}, locals)

\* Mutation: the EDMA is not stopped for a PIO command that became the head.
GoodResponseEdmaStays(s, t, locals) ==
  LET r == removeCommand(s, t)
      called == {s.entry[t].cmd}
  IN IF t \notin Used(s) THEN Step(s, {}, locals)
     ELSE IF ~r.queueCommandsEnabled THEN Step(r, called, locals)
     ELSE IF r.state = "WAIT_FOR_COMPLETIONS" /\ ~isGoodCompletionsExpected(r)
     THEN enterRequestSenseState(r, called, "responses", locals)
     ELSE Step(r, called, locals)

\* handleEdmaResponse, for a response that completes its command.
GoodResponse(s, t, locals) ==
  LET r == removeCommand(s, t)
      called == {s.entry[t].cmd}
  IN IF t \notin Used(s) THEN Step(s, {}, locals)
     ELSE IF ~r.queueCommandsEnabled THEN Step(r, called, locals)
     ELSE IF r.state = "WAIT_FOR_COMPLETIONS" /\ ~isGoodCompletionsExpected(r)
     THEN enterRequestSenseState(r, called, "responses", locals)
     ELSE IF HeadIsPIO(r)
     THEN Step(deactivateEdma(r), called,
               [locals EXCEPT !.pc = "insert", !.ret = "responses"])
     ELSE Step(r, called, locals)

\* Mutation: the out pointer is advanced in the routine's copy only.
IsrResponseKeepsPointer ==
  LET rsp == ch.responseQueue[isr.rspOutPtr]
      locals == [isr EXCEPT !.rspOutPtr = Next1(@)]
  IN /\ isr.pc = "responses" /\ isr.rspOutPtr # isr.rspInPtr
     /\ IF rsp.err /\ ch.queuedDMA # "NATIVE_QUEUING"
        THEN BadResponse(ch, rsp.id, locals)
        ELSE GoodResponse(ch, rsp.id, locals)

\* One turn of the loop over the responses.
IsrResponse ==
  LET rsp == ch.responseQueue[isr.rspOutPtr]
      s == [ch EXCEPT !.rspOutPtr = Next1(isr.rspOutPtr),
                      !.responseQueue[isr.rspOutPtr] = NoResponse]
      locals == [isr EXCEPT !.rspOutPtr = Next1(@)]
  IN /\ isr.pc = "responses" /\ isr.rspOutPtr # isr.rspInPtr
     /\ IF rsp.err /\ ch.queuedDMA # "NATIVE_QUEUING"
        THEN BadResponse(s, rsp.id, locals)
        ELSE GoodResponse(s, rsp.id, locals)

\* Mutation: the cause is cleared once the responses are handled.
IsrClearsLate ==
  /\ isr.pc = "responses" /\ isr.rspOutPtr = isr.rspInPtr
  /\ Step([ch EXCEPT !.responseDone = FALSE], {},
          IF isr.edmaError \/ ~ch.queueCommandsEnabled
          THEN [Idle EXCEPT !.pc = "error"] ELSE Idle)

\* The end of the loop; a queue found disabled is an error whatever the cause
\* register said when it was read.
IsrResponsesDone ==
  /\ isr.pc = "responses" /\ isr.rspOutPtr = isr.rspInPtr
  /\ Step(ch, {}, IF isr.edmaError \/ ~ch.queueCommandsEnabled
                  THEN [Idle EXCEPT !.pc = "error"] ELSE Idle)

-----------------------------------------------------------------------------
(* handleEdmaError: the cause register is read and cleared, the first      *)
(* reason in the order of the code decides.                                *)

Cleared == [ch EXCEPT !.errorCause = {}]

\* handleDisconnect, handleConnect, handleUnrecoverableError.  A connect whose
\* drive is gone again is left as it is.
ErrorLink ==
  /\ isr.pc = "error" /\ ch.errorCause \cap LinkFaults # {}
  /\ \/ LET r == restartChannel(Cleared) IN Step(r.ch, r.called, Idle)
     \/ /\ "connect" \in ch.errorCause
        /\ Step(IF "disconnect" \in ch.errorCause
                THEN [Cleared EXCEPT !.queueCommandsEnabled = FALSE,
                                     !.EdmaActive = FALSE,
                                     !.edmaEnabled = FALSE, !.executing = {}]
                ELSE Cleared, {}, Idle)

\* handleAsyncNotify returns with every other cause cleared, a device error
\* included.  When it is a hot plug the IAL restarts a channel that is not at the
\* beginning of its initialisation (mvPMHotPlugDetected).
ErrorAsyncNotify ==
  /\ isr.pc = "error" /\ ch.errorCause \cap LinkFaults = {}
  /\ "asyncNotify" \in ch.errorCause
  /\ \/ Step(Cleared, {}, Idle)
     \/ /\ ch.phase # "restarted"
        /\ LET r == restartChannel(Cleared) IN Step(r.ch, r.called, Idle)

\* handleEdmaFailedCommand: the command the drive, or in QUEUED mode with one
\* command for the port the list, names.
FailedCommand(s) ==
  UNION {IF s.queuedDMA = "QUEUED" /\ s.portQueuedCommands[p] = 1
         THEN {t \in LeadingInEdma(s) : s.entry[t].PMPort = p}
         ELSE HostTagsByDeviceTag(s, s.erring[p], p)
         : p \in {x \in Ports : s.erring[x] # NoTag}}

\* handleSelfDisable.
ErrorSelfDisable ==
  LET s == [Cleared EXCEPT !.queueCommandsEnabled = FALSE, !.EdmaActive = FALSE]
      F == IF "devErr" \in ch.errorCause /\ ch.queuedDMA # "NATIVE_QUEUING"
           THEN FailedCommand(s) ELSE {}
  IN /\ isr.pc = "error" /\ ch.errorCause \cap LinkFaults = {}
     /\ "asyncNotify" \notin ch.errorCause /\ "selfDisable" \in ch.errorCause
     /\ IF ~ch.EdmaActive THEN doDevErrorRecovery(Cleared, {}, "idle")
        ELSE IF F = {} THEN doDevErrorRecovery(s, {}, "idle")
        ELSE \E t \in F :
               doDevErrorRecovery(removeCommand(s, t), {s.entry[t].cmd}, "idle")

\* handleDevErr: updatePortsWithErrors, setAbortedCommands, and on to the
\* request sense state when no good completion is expected any more.
ErrorDevErr ==
  LET bad == ch.PortsWithErrors \cup {p \in Ports : ch.erring[p] # NoTag}
      s == [Cleared EXCEPT
              !.state = IF @ = "IDLE" THEN "WAIT_FOR_COMPLETIONS" ELSE @,
              !.PortsWithErrors = bad,
              !.entry = [t \in HostTags |->
                           IF t \in LeadingInEdma(ch) /\ @[t].PMPort \in bad
                           THEN [@[t] EXCEPT !.commandAborted = TRUE]
                           ELSE @[t]]]
  IN /\ isr.pc = "error"
     /\ ch.errorCause \cap (LinkFaults \cup {"asyncNotify", "selfDisable"}) = {}
     /\ "devErr" \in ch.errorCause
     /\ IF ~ch.EdmaActive \/ ch.queuedDMA # "NATIVE_QUEUING"
        THEN Step(Cleared, {}, Idle)
        ELSE IF isGoodCompletionsExpected(s) THEN Step(s, {}, Idle)
        ELSE enterRequestSenseState(s, {}, "idle", isr)

\* handleRecoverableError: after too many of them without a completion the
\* channel is given up as for an unrecoverable error.  recoveredErrorsCounter is
\* abstracted to that choice.
ErrorRecoverable ==
  /\ isr.pc = "error" /\ ch.errorCause = {"recoverable"}
  /\ \/ Step(Cleared, {}, Idle)
     \/ LET r == restartChannel(Cleared) IN Step(r.ch, r.called, Idle)

\* The queue was found disabled and the register shows no reason.
ErrorNothing ==
  /\ isr.pc = "error" /\ ch.errorCause = {}
  /\ Step(ch, {}, Idle)

-----------------------------------------------------------------------------
(* Steps shared by the paths above.                                        *)

\* _insertQCommandsIntoEdma.
InsertQCommandsIntoEdma ==
  /\ isr.pc = "insert"
  /\ IF ch.commandsQueue = <<>> THEN Step(ch, {}, Return)
     ELSE LET t == Head(ch.commandsQueue)
          IN IF ~IsPIO(ch, t) THEN Step(insertLeadingUdma(ch), {}, Return)
             ELSE \/ Step([ch EXCEPT !.pio = t], {}, Return)
                  \/ "pio" \in Faults /\ failPIOCommand(ch, t, isr.ret)

\* handlePortError: READ LOG EXT to the next port in error; after the last one
\* the commands are inserted again.
HandlePortError ==
  LET P == {p \in ch.PortsWithErrors : p >= ch.CurrPort}
      p == CHOOSE x \in P : \A y \in P : x <= y
      s == [ch EXCEPT !.CurrPort = p, !.commandsQueue = <<ReadLog>> \o @]
  IN /\ isr.pc = "ports"
     /\ IF P = {}
        THEN Step([resetEdmaQPointers(ch) EXCEPT !.state = "IDLE",
                     !.PortsWithErrors = {}, !.CurrPort = 0],
                  {}, Goto("insert"))
        ELSE \/ Step([s EXCEPT !.pio = ReadLog], {}, Return)
             \/ "pio" \in Faults /\ Step(failReadLog(s), {}, Return)

-----------------------------------------------------------------------------
(* handleDeviceInterrupt: the drive interrupts and the interrupt is not    *)
(* masked.                                                                 *)

DeviceInterrupt == isr.pc = "idle" /\ ch.saDevMask
PioPorts == [Idle EXCEPT !.pc = "ports"]

\* The drive that was busy when the EDMA stopped is done.
DeviceNotBusy ==
  /\ DeviceInterrupt /\ ch.state = "WAIT_FOR_BUSY"
  /\ Step([ch EXCEPT !.state = "REQUEST_SENSE", !.CurrPort = 0], {}, PioPorts)

\* Mutation: the commands behind a PIO command are not inserted after it.
DevicePIOForgets ==
  LET t == ch.pio
  IN /\ DeviceInterrupt /\ t \in HostTags /\ ch.state # "WAIT_FOR_BUSY"
     /\ \/ Step([removeCommand(ch, t) EXCEPT !.pio = NoTag],
               {ch.entry[t].cmd}, isr)
        \/ failPIOCommand(ch, t, "idle")

\* handlePIOInterrupt and completePIOCommand for a command of the upper layer.
pioInterrupt(t) ==
  \/ Step([removeCommand(ch, t) EXCEPT !.pio = NoTag],
          {ch.entry[t].cmd}, [Idle EXCEPT !.pc = "insert"])
  \/ failPIOCommand(ch, t, "idle")

DevicePIO ==
  /\ DeviceInterrupt /\ ch.pio \in HostTags /\ ch.state # "WAIT_FOR_BUSY"
  /\ pioInterrupt(ch.pio)

\* READ LOG EXT: parseReadLogExtOutPut calls back the command the drive names,
\* then it is the next port's turn.  A log that does not parse is dropped.
DeviceReadLog ==
  LET s == [ch EXCEPT !.pio = NoTag, !.commandsQueue = Without(@, ReadLog)]
      p == ch.CurrPort
      T == HostTagsByDeviceTag(s, ch.erring[p], p)
  IN /\ DeviceInterrupt /\ ch.pio = ReadLog
     /\ \/ \E t \in T :
             Step([removeCommand(s, t) EXCEPT !.erring[p] = NoTag,
                                              !.CurrPort = p + 1],
                  {s.entry[t].cmd}, PioPorts)
        \/ (T = {} \/ "readlog" \in Faults) /\ Step(s, {}, isr)
        \/ "readlog" \in Faults /\ Step(failReadLog(ch), {}, isr)

\* No PIO command runs and none heads the list: the interrupt is masked.
DeviceSpurious ==
  /\ "spurious" \in Faults /\ DeviceInterrupt
  /\ ch.pio = NoTag /\ ch.state # "WAIT_FOR_BUSY"
  /\ ~HeadIsPIO(ch)
  /\ Step([ch EXCEPT !.saDevMask = FALSE], {}, isr)

\* A drive interrupts late, after the soft reset it did not answer in time: a PIO
\* command at the head of the list is taken to be done although it was not sent.
DeviceLate ==
  /\ "late" \in Faults /\ DeviceInterrupt
  /\ ch.pio = NoTag /\ ch.state # "WAIT_FOR_BUSY"
  /\ HeadIsPIO(ch)
  /\ pioInterrupt(Head(ch.commandsQueue))

-----------------------------------------------------------------------------
(* The hardware, between any two steps of the driver.                      *)

Hardware(s) == ch' = s /\ UNCHANGED <<isr, lives>>

\* The engine fetches a request; without queuing one command runs at a time.
\* A drive in error rejects what it is sent.
EdmaFetches ==
  LET t == ch.requestQueue[ch.reqOutPtr]
      s == [ch EXCEPT !.reqOutPtr = Next1(@),
                      !.requestQueue[ch.reqOutPtr] = NoTag]
  IN /\ ch.edmaEnabled /\ ch.reqOutPtr # ch.reqInPtr
     /\ ch.queuedDMA = "NOT_QUEUED" => ch.executing = {}
     /\ IF /\ ch.queuedDMA = "NATIVE_QUEUING"
           /\ ch.erring[ch.entry[t].PMPort] # NoTag
        THEN Hardware([s EXCEPT !.errorCause = @ \cup {"devErr"}])
        ELSE Hardware([s EXCEPT !.executing = @ \cup {t}])

Respond(s, t, bad) ==
  [s EXCEPT !.responseQueue[s.rspInPtr] = [id |-> t, err |-> bad],
            !.rspInPtr = Next1(@), !.responseDone = TRUE,
            !.executing = @ \ {t}]

DriveCompletes(t) ==
  /\ ch.edmaEnabled /\ t \in ch.executing
  /\ Hardware(Respond(ch, t, FALSE))

\* In NATIVE_QUEUING mode the drive aborts what it holds and the engine goes
\* on; otherwise the engine disables itself, with or without a response.
DriveFails(t) ==
  LET p == ch.entry[t].PMPort
      s == [ch EXCEPT !.erring[p] = ch.entry[t].deviceTag]
      off == [s EXCEPT !.edmaEnabled = FALSE,
                       !.errorCause = @ \cup {"devErr", "selfDisable"}]
  IN /\ ch.edmaEnabled /\ t \in ch.executing
     /\ IF ch.queuedDMA = "NATIVE_QUEUING"
        THEN Hardware([s EXCEPT
               !.errorCause = @ \cup {"devErr"},
               !.executing = {x \in @ : ch.entry[x].PMPort # p}])
        ELSE \/ Hardware([off EXCEPT !.executing = {}])
             \/ Hardware([Respond(off, t, TRUE) EXCEPT !.executing = {}])

\* An error of the link stops the engine.
LinkEvent(kind) ==
  /\ kind \in Faults \ ch.errorCause
  /\ Hardware([ch EXCEPT !.errorCause = @ \cup {kind},
                         !.edmaEnabled = FALSE, !.executing = {}])

\* A notification of the port multiplier, or an error the link recovered from,
\* does not.
LinkNotice(kind) ==
  /\ kind \in Faults \ ch.errorCause
  /\ Hardware([ch EXCEPT !.errorCause = @ \cup {kind}])

-----------------------------------------------------------------------------
IsrStep ==
  \/ IsrClears \/ IsrReadsPointer \/ IsrResponse \/ IsrResponsesDone
  \/ ErrorLink \/ ErrorAsyncNotify \/ ErrorSelfDisable \/ ErrorDevErr
  \/ ErrorRecoverable \/ ErrorNothing
  \/ InsertQCommandsIntoEdma \/ HandlePortError

Next ==
  \/ \E c \in Cmds, p \in Ports : QueueUdma(c, p) \/ QueueNoneUdma(c, p)
  \/ RestartChannel \/ ConfigureChannel \/ EnableChannelDma
  \/ IsrStep
  \/ DeviceNotBusy \/ DevicePIO \/ DeviceReadLog \/ DeviceSpurious \/ DeviceLate
  \/ EdmaFetches
  \/ \E t \in HostTags : DriveCompletes(t) \/ DriveFails(t)
  \/ \E kind \in LinkFaults : LinkEvent(kind)
  \/ \E kind \in Notices : LinkNotice(kind)

Spec == Init /\ [][Next]_vars

\* An interrupt that is pending is served and runs to its end, the IAL goes on
\* with the initialisation it began, the engine fetches, a drive finishes its
\* PIO command and does not pass over a queued command for ever.
Fairness ==
  /\ WF_vars(IsrStep)
  /\ WF_vars(ConfigureChannel) /\ WF_vars(EnableChannelDma)
  /\ SF_vars(DeviceNotBusy \/ DevicePIO \/ DeviceReadLog)
  /\ WF_vars(EdmaFetches)
  /\ \A t \in HostTags : SF_vars(DriveCompletes(t) \/ DriveFails(t))

FairSpec == Spec /\ Fairness

-----------------------------------------------------------------------------
(* Properties.                                                             *)

Tags == HostTags \cup {NoTag}

\* The variables of the channel, its rings and the interrupt routine have
\* their types.
TypeOK ==
  /\ ch.queueCommandsEnabled \in BOOLEAN /\ ch.EdmaActive \in BOOLEAN
  /\ ch.queuedDMA \in Modes
  /\ ch.commandsQueue \in Seq(HostTags \cup {ReadLog})
  /\ ch.entry \in [HostTags -> {FreeEntry} \cup
       [cmd : Cmds, type : {"UDMA", "NONE_UDMA"}, PMPort : Ports,
        deviceTag : DeviceTags, isCommandInEdma : BOOLEAN,
        commandAborted : BOOLEAN]]
  /\ ch.HostTagsPool \in Seq(HostTags)
  /\ ch.DeviceTagsPool \in [Ports -> Seq(DeviceTags)]
  /\ ch.outstandingCommands \in Nat
  /\ ch.noneUdmaOutstandingCommands \in Nat
  /\ ch.portQueuedCommands \in [Ports -> Nat]
  /\ ch.state \in {"IDLE", "WAIT_FOR_COMPLETIONS", "WAIT_FOR_BUSY",
                   "REQUEST_SENSE"}
  /\ ch.PortsWithErrors \subseteq Ports /\ ch.CurrPort \in Nat
  /\ {ch.reqInPtr, ch.reqOutPtr, ch.rspInPtr, ch.rspOutPtr} \subseteq Slots
  /\ ch.requestQueue \in [Slots -> Tags]
  /\ ch.responseQueue \in [Slots -> [id : Tags, err : BOOLEAN]]
  /\ ch.edmaEnabled \in BOOLEAN /\ ch.responseDone \in BOOLEAN
  /\ ch.saDevMask \in BOOLEAN
  /\ ch.errorCause \subseteq LinkFaults \cup Notices \cup {"devErr", "selfDisable"}
  /\ ch.executing \subseteq HostTags
  /\ ch.erring \in [Ports -> DeviceTags \cup {NoTag}]
  /\ ch.pio \in Tags \cup {ReadLog}
  /\ ch.phase \in {"restarted", "configured", "ready"}
  /\ isr \in [pc : Pcs, ret : {"idle", "responses"}, edmaError : BOOLEAN,
              rspInPtr : Slots, rspOutPtr : Slots]
  /\ lives \in [Cmds -> {0, 1}]

Owed == {c \in Cmds : lives[c] = 1}

\* The driver holds exactly the commands it owes a call back: no flush, reset or
\* error path frees a queue entry without calling back, or calls back and keeps
\* the entry.
OwesWhatItHolds == Held(ch) = Owed

NoDuplicates(q) == \A i, j \in DOMAIN q : q[i] = q[j] => i = j
CountOf(S) == Cardinality(S)

\* The tag stacks, the entries, the list and the three counters tell the same
\* story: every host tag is either free once or used by one command of the
\* list, every device tag likewise at its port, READ LOG EXT has no entry and
\* stands at the head only, and the counters mvSataQueueCommand branches on are
\* exact after any mix of completions, failures, refusals and flushes.
QueueConsistent ==
  /\ NoDuplicates(ch.HostTagsPool)
  /\ Elems(ch.HostTagsPool) = HostTags \ Used(ch)
  /\ \A p \in Ports :
       LET U == {t \in Used(ch) : ch.entry[t].PMPort = p}
       IN /\ NoDuplicates(ch.DeviceTagsPool[p])
          /\ Elems(ch.DeviceTagsPool[p])
               = DeviceTags \ {ch.entry[t].deviceTag : t \in U}
          /\ CountOf({ch.entry[t].deviceTag : t \in U}) = CountOf(U)
          /\ ch.portQueuedCommands[p] = CountOf(U)
  /\ NoDuplicates(ch.commandsQueue)
  /\ Elems(ch.commandsQueue) \ {ReadLog} = Used(ch)
  /\ \A i \in DOMAIN ch.commandsQueue : ch.commandsQueue[i] = ReadLog => i = 1
  /\ ch.outstandingCommands = CountOf(Used(ch))
  /\ ch.noneUdmaOutstandingCommands =
       CountOf({t \in Used(ch) : ch.entry[t].type = "NONE_UDMA"})

\* "stop once reached a command that has not been inserted into the EDMA since
\* the next commands also must be outside the EDMA": the loops over the list
\* may stop there.
InEdmaIsPrefix ==
  {t \in Used(ch) : ch.entry[t].isCommandInEdma}
    \subseteq LeadingInEdma([ch EXCEPT !.commandsQueue = Without(@, ReadLog)])

\* A PIO command and the EDMA never use the drive at the same time, and the
\* command that runs is the one completePIOCommand will take, the head.
PioExcludesEdma ==
  ch.pio # NoTag => /\ ~ch.edmaEnabled /\ ~ch.EdmaActive
                    /\ ch.pio = Head(ch.commandsQueue)

\* While a PIO command runs its interrupt is not masked: without it the command
\* would wait for the timeout of the upper layer.
PioIsHeard == ch.pio # NoTag => ch.saDevMask

\* The EDMA of an open queue does not own the drive while a PIO command heads the
\* list: nothing would send the command, and what is behind it waits with it.
PioNotStranded == ch.queueCommandsEnabled /\ ch.EdmaActive => ~HeadIsPIO(ch)

InRing(i, out, in) ==
  (i - out + QueueLength) % QueueLength < (in - out + QueueLength) % QueueLength

\* What the engine is working on: commands being executed or still in the
\* request ring.
UnderWay == ch.executing \cup
  {ch.requestQueue[i] : i \in {j \in Slots : InRing(j, ch.reqOutPtr, ch.reqInPtr)}}

\* While commands may be queued, every response the driver has not handled yet
\* belongs to a command that is in the EDMA and no longer under way: it is never
\* taken for the command that got the tag next, nor does it complete a command
\* that a recovery has inserted again.
ResponsesAreLive ==
  ch.queueCommandsEnabled =>
    \A i \in Slots : InRing(i, ch.rspOutPtr, ch.rspInPtr) =>
      LET t == ch.responseQueue[i].id
      IN /\ t \in Used(ch) /\ ch.entry[t].isCommandInEdma
         /\ t \notin UnderWay

\* The hardware works only for commands the driver still holds: no data moves
\* into the buffers of a command that was called back.
NoDmaAfterReturn ==
  ch.edmaEnabled =>
    UnderWay \subseteq {t \in Used(ch) : ch.entry[t].isCommandInEdma}

\* A response is never left in the ring without an interrupt: the routine
\* clears the cause before it reads the pointer.
NoLostCompletion ==
  /\ ch.rspOutPtr # ch.rspInPtr /\ isr.pc = "idle"
  /\ ch.queueCommandsEnabled /\ ch.errorCause = {}
  => ch.responseDone

\* mvSataEnableChannelDma does not refuse the channel the IAL initialised, even
\* when an error interrupt of its former life was served in between.
EnableAccepted == ch.phase = "configured" => ~ch.queueCommandsEnabled

Promise == INSTANCE SataCommandQueue WITH holds <- Owed,
                                          open <- (ch.phase = "ready")

\* The channel keeps the promise of SataCommandQueue: commands come back one at
\* a time, all together only when it is given up, and none stays behind.
ImplementsQueue == Promise!Spec

ReadLogQueued == ReadLog \in Elems(ch.commandsQueue)

\* "EDMA is not active, so we use the request queue buffer for Read Log Ext
\* command data": the ring is not written while the command that lives in its
\* memory is in the list.
ReadLogKeepsRing ==
  [][ReadLogQueued /\ ReadLogQueued' =>
       /\ ~ch.edmaEnabled /\ ~ch.edmaEnabled'
       /\ ch.requestQueue' = ch.requestQueue]_vars

\* handleDevErr never saw an error of a drive, because a notification of the
\* port multiplier was read with it: it still waits for a completion, or expects
\* one of a command the drive gave up.
DevErrLost ==
  /\ ch.EdmaActive /\ ch.queuedDMA = "NATIVE_QUEUING"
  /\ \/ ch.state = "WAIT_FOR_COMPLETIONS" /\ ~isGoodCompletionsExpected(ch)
     \/ \E t \in LeadingInEdma(ch) \ UnderWay :
          /\ ch.erring[ch.entry[t].PMPort] # NoTag
          /\ ~ch.entry[t].commandAborted

\* No interrupt is pending and only a timeout of the upper layer can move the
\* channel: the queue is left disabled, READ LOG EXT failed, the engine stopped
\* for an event that was not acted on (a connect whose drive was gone again, an
\* error read with a notification), a spurious interrupt masked the one a PIO
\* command needs, or the error of a drive was lost.
LeftToTimeout ==
  /\ ch.phase = "ready" /\ isr.pc = "idle"
  /\ ch.errorCause = {} /\ ~ch.responseDone
  /\ \/ ~ch.queueCommandsEnabled
     \/ ch.state = "REQUEST_SENSE" /\ ch.pio = NoTag
     \/ ch.EdmaActive /\ ~ch.edmaEnabled
     \/ ch.pio # NoTag /\ ~ch.saDevMask
     \/ DevErrLost

\* Every command the driver accepted is called back, through any number of
\* device errors, request sense rounds, switches between PIO and EDMA and
\* restarts, unless the channel ends up in one of the five states above.  The
\* notices must cease: one of them can bring the routine to the cause register
\* between a completion and the next device error, and the recovery from that
\* drops the response and sends the command again.
CommandsReturn ==
  <>[](ch.errorCause \cap Notices = {}) =>
    \A c \in Cmds : lives[c] = 1 ~> lives[c] = 0 \/ LeftToTimeout

=============================================================================
