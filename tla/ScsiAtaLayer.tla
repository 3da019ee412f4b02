---------------------------- MODULE ScsiAtaLayer ----------------------------
(***************************************************************************)
(* The SCSI-to-ATA layer (mvScsiAtaLayer.c): how a SCSI command becomes    *)
(* one or several ATA commands.  A VERIFY on a drive without 48-bit        *)
(* addresses is split into fragments of at most 256 sectors, and a MODE    *)
(* SELECT of the caching page into up to two SET FEATURES.  The completion *)
(* call back runs in the interrupt service routine and cannot send the     *)
(* next ATA command itself: it puts the block on the list pHead, which     *)
(* mvSataScsiPostIntService empties when the routine has returned, still   *)
(* under adapter_lock.                                                     *)
(*                                                                         *)
(* The core driver below is the command queue of SataCommandQueue, per     *)
(* channel; the IAL above opens and closes it (IALChannel).                *)
(***************************************************************************)
EXTENDS Integers, Sequences, FiniteSets

CONSTANTS
  Scbs,         \* SCSI command blocks
  Channels,     \* SATA channels, one drive on each
  QueueDepth,   \* tags of a channel's queue (MV_SATA_SW_QUEUE_SIZE)
  DiskSize,     \* ATADiskSize of a drive without and with 48-bit addresses
  Verifies,     \* the VERIFY commands issued: operation, first sector, count
  Residues      \* what kmalloc may leave in sequenceNumber of a new block

Verify6(lba, n)  == [op |-> "VERIFY6",  lba |-> lba, sectors |-> n]
Verify10(lba, n) == [op |-> "VERIFY10", lba |-> lba, sectors |-> n]

\* The sector counts are those of the CDBs, 8 and 16 bits wide; a drive without
\* 48-bit addresses has at most 2^28 sectors (ATA, words 60 and 61).
ASSUME SalAssumption ==
  /\ QueueDepth \in Nat \ {0}
  /\ DiskSize \in [BOOLEAN -> Nat] /\ DiskSize[FALSE] <= 2^28
  /\ Verifies \subseteq [op : {"VERIFY6", "VERIFY10"}, lba : Nat, sectors : Nat]
  /\ \A v \in Verifies : v.sectors < IF v.op = "VERIFY6" THEN 2^8 ELSE 2^16
  /\ Residues \subseteq Nat /\ \A r \in Residues : r < 2^16

VARIABLES
  block,               \* MV_SATA_SCSI_CMD_BLOCK of each Scb
  allocated,           \* the blocks between kmalloc and kfree
  pHead,               \* the post-interrupt list, first element first
  commandsQueue,       \* per channel: the blocks with an ATA command queued
  ata,                 \* the ATA command last queued for a block
  queueEnabled,        \* per channel: mvSataQueueCommand accepts commands
  identifyInfo,        \* per channel: the ready drive's features, or NotReady
  UAEvents,            \* per channel: unit attentions to report
  UAConditionPending,
  context,             \* "none", "isr" or "post": the interrupt handler
  asked,               \* history: what the SCSI command asks of the drive
  served,              \* history: what the drive has done of it
  old                  \* history: commands from before the drive's last reset

queueVars == <<commandsQueue, ata>>
driveVars == <<queueEnabled, identifyInfo, UAEvents, UAConditionPending>>
histVars  == <<asked, served, old>>
vars == <<block, allocated, pHead, queueVars, driveVars, context, histVars>>

Features == [LBA48Supported : BOOLEAN,
             readAheadSupported : BOOLEAN, writeCacheSupported : BOOLEAN]
NotReady == [notReady |-> TRUE]
Settings == {"WCACHE", "RLA"}

NoCommand == [kind |-> "OTHER", first |-> 0, count |-> 0]
Nothing == [sectors |-> 0, settings |-> {}]

\* The sectors a VERIFY stands for: a count of 0 means 256 in VERIFY6.
SectorsOf(v) == IF v.op = "VERIFY6" /\ v.sectors = 0 THEN 256 ELSE v.sectors

-----------------------------------------------------------------------------
(* Blocks and the queue.                                                   *)

\* A block as mvSataExecuteScsiCommand finds it.
NewBlock(op, ch, lba, sectors) ==
  [op |-> op, bus |-> ch, lba |-> lba, sectors |-> sectors,
   LowLbaAddress |-> lba, splitCount |-> 0, sequenceNumber |-> 0,
   ScsiCommandCompletion |-> "INVALID_STATUS"]

Freed(ch, status) ==
  [NewBlock("OTHER", ch, 0, 0) EXCEPT !.ScsiCommandCompletion = status]

\* What mvSataQueueCommand may answer, as checkQueueCommandResult translates it:
\* a disabled or full queue refuses the command, and a PIO command alone in the
\* queue is refused when the drive does not take it.
QueueResults(ch) ==
  IF ~queueEnabled[ch] THEN {"NOT_READY"}
  ELSE IF Cardinality(commandsQueue[ch]) >= QueueDepth THEN {"QUEUE_FULL"}
  ELSE IF commandsQueue[ch] = {} THEN {"OK", "NOT_READY"}
  ELSE {"OK"}

\* completionCallBack (IALCompletion) for the blocks of a set: they are freed
\* with their status, and the scsi_cmnds go to the done list.  Of a freed block
\* only the status is kept.
Complete(set, ch, status) ==
  /\ block' = [b \in Scbs |-> IF b \in set THEN Freed(ch, status) ELSE block[b]]
  /\ allocated' = allocated \ set
  /\ ata' = [b \in Scbs |-> IF b \in set THEN NoCommand ELSE ata[b]]
  /\ asked' = [b \in Scbs |-> IF b \in set THEN Nothing ELSE asked[b]]
  /\ served' = [b \in Scbs |-> IF b \in set THEN Nothing ELSE served[b]]
  /\ old' = old \ set

\* The driver has taken ATA command "cmd" for block b, which asks for "what".
Accepted(b, blk, cmd, what) ==
  /\ block' = [block EXCEPT ![b] = blk]
  /\ allocated' = allocated \cup {b}
  /\ commandsQueue' = [commandsQueue EXCEPT ![blk.bus] = @ \cup {b}]
  /\ ata' = [ata EXCEPT ![b] = cmd]
  /\ asked' = [asked EXCEPT ![b] = what]
  /\ UNCHANGED <<served, old>>

\* The way all senders but one treat mvSataQueueCommand: a refused command is
\* completed with the status of checkQueueCommandResult.
QueueOrComplete(b, blk, cmd, what) ==
  \E result \in QueueResults(blk.bus) :
    IF result = "OK"
    THEN Accepted(b, blk, cmd, what)
    ELSE Complete({b}, blk.bus, result) /\ UNCHANGED commandsQueue

\* The first fragment takes the remainder, the others 256 sectors, for which the
\* sector count is 0.
FragmentSectors(blk) ==
  IF blk.sequenceNumber = 0 /\ blk.sectors % 256 # 0 THEN blk.sectors % 256 ELSE 256

Fragment(blk) == [kind |-> "VERIFY", count |-> FragmentSectors(blk),
                  first |-> blk.LowLbaAddress % 2^28]

Advanced(blk) == [blk EXCEPT !.sequenceNumber = @ + 1,
                             !.LowLbaAddress = @ + FragmentSectors(blk)]

\* mvScsiAtaSendSplittedVerifyCommand: a refused fragment only leaves its status
\* in the block.
SendSplittedVerifyCommand(b, blk, what) ==
  \E result \in QueueResults(blk.bus) :
    IF result = "OK"
    THEN Accepted(b, Advanced(blk), Fragment(blk), what)
    ELSE /\ block' = [block EXCEPT ![b] =
                        [Advanced(blk) EXCEPT !.ScsiCommandCompletion = result]]
         /\ allocated' = allocated \cup {b}
         /\ asked' = [asked EXCEPT ![b] = what]
         /\ UNCHANGED <<queueVars, served, old>>

SetFeatures(s) == [NoCommand EXCEPT !.kind = s]

\* Mutation: a refused command is not completed.
ReadLookAheadDropped(b, blk, what) ==
  \/ /\ "OK" \in QueueResults(blk.bus)
     /\ Accepted(b, [blk EXCEPT !.sequenceNumber = @ + 1], SetFeatures("RLA"), what)
  \/ \E result \in QueueResults(blk.bus) \ {"OK"} :
       /\ block' = [block EXCEPT ![b].ScsiCommandCompletion = result]
       /\ UNCHANGED <<allocated, queueVars, histVars>>

\* mvScsiAtaSendReadLookAhead.
SendReadLookAhead(b, blk, what) ==
  QueueOrComplete(b, [blk EXCEPT !.sequenceNumber = @ + 1], SetFeatures("RLA"), what)

-----------------------------------------------------------------------------
(* mvSataExecuteScsiCommand.                                               *)

\* Commands that reach a ready drive's translation: no unit attention is
\* pending (INQUIRY and REQUEST SENSE are answered in spite of one).
Reaches(b, ch) ==
  /\ context = "none"
  /\ b \notin allocated
  /\ identifyInfo[ch] # NotReady
  /\ ~UAConditionPending[ch]

\* Answered without an ATA command.
Answer(b, ch, status) ==
  /\ Complete({b}, ch, status)
  /\ UNCHANGED commandsQueue

\* The drive is not ready: MV_SCSI_COMPLETION_NO_DEVICE.
NoDevice(b, ch) ==
  /\ context = "none" /\ b \notin allocated
  /\ identifyInfo[ch] = NotReady
  /\ Answer(b, ch, "NO_DEVICE")
  /\ UNCHANGED <<pHead, driveVars, context>>

\* A unit attention is pending: one event is reported per command, the reset
\* before the changed parameters.
ReportUnitAttention(b, ch) ==
  /\ context = "none" /\ b \notin allocated
  /\ identifyInfo[ch] # NotReady /\ UAConditionPending[ch]
  /\ LET event == IF "RESET" \in UAEvents[ch] THEN "RESET" ELSE "PARAMS_CHANGED"
         left  == UAEvents[ch] \ {event}
     IN /\ Answer(b, ch, event)
        /\ UAEvents' = [UAEvents EXCEPT ![ch] = left]
        /\ UAConditionPending' = [UAConditionPending EXCEPT ![ch] = left # {}]
  /\ UNCHANGED <<pHead, queueEnabled, identifyInfo, context>>

\* Commands of one ATA command: READ, WRITE, SYNCHRONIZE CACHE, MODE SENSE.
\* Those answered from the driver's own tables, and CDBs it rejects, are called
\* back at once and leave no trace here.
SendOther(b, ch) ==
  /\ Reaches(b, ch)
  /\ QueueOrComplete(b, NewBlock("OTHER", ch, 0, 0), NoCommand, Nothing)
  /\ UNCHANGED <<pHead, driveVars, context>>

\* checkLBAOutOfRange.
LBAOutOfRange(ch, v) ==
  LET size == DiskSize[identifyInfo[ch].LBA48Supported]
  IN size <= v.lba \/ size - v.lba < SectorsOf(v)

\* mvScsiAtaSendVerifyCommand, the cases without an ATA command.
VerifyAnswered(b, ch, v) ==
  /\ Reaches(b, ch)
  /\ \/ LBAOutOfRange(ch, v) /\ Answer(b, ch, "BAD_SCSI_COMMAND")
     \/ ~LBAOutOfRange(ch, v) /\ SectorsOf(v) = 0 /\ Answer(b, ch, "SUCCESS")
  /\ UNCHANGED <<pHead, driveVars, context>>

Verifiable(ch, v) == ~LBAOutOfRange(ch, v) /\ SectorsOf(v) # 0
Sectors(v)        == [sectors |-> SectorsOf(v), settings |-> {}]

\* A drive with 48-bit addresses: one READ VERIFY SECTORS EXT.  The sequence
\* number is not set: it is whatever the memory held.
SendVerifyExt(b, ch, v, residue) ==
  /\ Reaches(b, ch) /\ Verifiable(ch, v)
  /\ identifyInfo[ch].LBA48Supported
  /\ QueueOrComplete(b, [NewBlock(v.op, ch, v.lba, v.sectors) EXCEPT
                           !.splitCount = 1, !.sequenceNumber = residue],
                     [kind |-> "VERIFY_EXT", first |-> v.lba, count |-> SectorsOf(v)],
                     Sectors(v))
  /\ UNCHANGED <<pHead, driveVars, context>>

\* The number of fragments, 1 for the 256 sectors of VERIFY6.
SplitCount(v) ==
  IF v.sectors = 0 THEN 1 ELSE ((v.sectors + 255) \div 256) % 2^16

\* Any other drive: fragments.
SendVerifySplit(b, ch, v) ==
  /\ Reaches(b, ch) /\ Verifiable(ch, v)
  /\ ~identifyInfo[ch].LBA48Supported
  /\ SendSplittedVerifyCommand(b, [NewBlock(v.op, ch, v.lba, v.sectors) EXCEPT
                                     !.splitCount = SplitCount(v)], Sectors(v))
  /\ UNCHANGED <<pHead, driveVars, context>>

Supported(ch) ==
  {s \in Settings : \/ s = "WCACHE" /\ identifyInfo[ch].writeCacheSupported
                    \/ s = "RLA" /\ identifyInfo[ch].readAheadSupported}

\* mvParseModeCachingPage: a setting the drive does not support may only be
\* asked to be off, and is then left out.
ModeSelect(b, ch, disableReadAhead, enableWriteCache) ==
  LET wcache == "WCACHE" \in Supported(ch)
      rla    == "RLA" \in Supported(ch)
      what   == [sectors |-> 0, settings |-> Supported(ch)]
      blk    == [NewBlock("MODE_SELECT6", ch, 0, 0) EXCEPT
                   !.splitCount = Cardinality(Supported(ch)),
                   !.sequenceNumber = 1]
  IN /\ Reaches(b, ch)
     /\ \/ /\ (~disableReadAhead /\ ~rla) \/ (enableWriteCache /\ ~wcache)
           /\ Answer(b, ch, "BAD_SCSI_COMMAND")
        \/ /\ disableReadAhead \/ rla
           /\ wcache
           /\ QueueOrComplete(b, blk, SetFeatures("WCACHE"), what)
        \/ /\ rla
           /\ ~wcache /\ ~enableWriteCache
           /\ SendReadLookAhead(b, blk, what)
        \/ /\ disableReadAhead /\ ~rla
           /\ ~wcache /\ ~enableWriteCache
           /\ Answer(b, ch, "SUCCESS")
     /\ UNCHANGED <<pHead, driveVars, context>>

mvSataExecuteScsiCommand(b, ch) ==
  \/ NoDevice(b, ch)
  \/ ReportUnitAttention(b, ch)
  \/ SendOther(b, ch)
  \/ \E v \in Verifies : \/ VerifyAnswered(b, ch, v)
                         \/ SendVerifySplit(b, ch, v)
                         \/ \E r \in Residues : SendVerifyExt(b, ch, v, r)
  \/ \E dra, wce \in BOOLEAN : ModeSelect(b, ch, dra, wce)

-----------------------------------------------------------------------------
(* The interrupt handler.                                                  *)

\* What the drive has done once the ATA command of block b has succeeded.
Served(b) ==
  [sectors  |-> served[b].sectors + ata[b].count,
   settings |-> served[b].settings \cup ({ata[b].kind} \cap Settings)]

Splits(b) == block[b].op \in {"VERIFY6", "VERIFY10", "MODE_SELECT6"}

\* Mutation: one ATA command too many.
HasMoreByOne(b) == Splits(b) /\ block[b].splitCount >= block[b].sequenceNumber

\* Mutation: one too few.
HasMoreBeforeLast(b) == Splits(b) /\ block[b].splitCount > block[b].sequenceNumber + 1

HasMore(b) == Splits(b) /\ block[b].splitCount > block[b].sequenceNumber

\* SALCommandCompletionCB, MV_COMPLETION_TYPE_NORMAL.
NormalCompletion(b) ==
  IF HasMore(b)
  THEN /\ pHead' = <<b>> \o pHead
       /\ served' = [served EXCEPT ![b] = Served(b)]
       /\ UNCHANGED <<block, allocated, ata, asked, old>>
  ELSE /\ Complete({b}, block[b].bus, "SUCCESS")
       /\ UNCHANGED pHead

\* mvSataInterruptServiceRoutine calls back for a command that is done.
CommandDone(b) ==
  LET ch == block[b].bus
  IN /\ context \in {"none", "isr"} /\ context' = "isr"
     /\ b \in commandsQueue[ch]
     /\ commandsQueue' = [commandsQueue EXCEPT ![ch] = @ \ {b}]
     /\ NormalCompletion(b)
     /\ UNCHANGED driveVars

\* ... or one that failed (MV_COMPLETION_TYPE_ERROR).
CommandFails(b) ==
  LET ch == block[b].bus
  IN /\ context \in {"none", "isr"} /\ context' = "isr"
     /\ b \in commandsQueue[ch]
     /\ commandsQueue' = [commandsQueue EXCEPT ![ch] = @ \ {b}]
     /\ Complete({b}, ch, "ATA_FAILED")
     /\ UNCHANGED <<pHead, driveVars>>

\* The queue of a channel is flushed: MV_COMPLETION_TYPE_ABORT for every command
\* in it.
FlushQueue(ch) ==
  /\ Complete(commandsQueue[ch], ch, "ABORTED")
  /\ commandsQueue' = [commandsQueue EXCEPT ![ch] = {}]

\* It takes no commands any more.
DisableQueue(ch) == queueEnabled' = [queueEnabled EXCEPT ![ch] = FALSE]

\* A cable event of the interrupt routine, or a reset by the mid-layer or the
\* timer, stops or restarts the channel (mvStopChannel, mvRestartChannel).
ChannelGoes(ch) ==
  /\ \/ context = "none" /\ UNCHANGED context
     \/ context \in {"none", "isr"} /\ context' = "isr"
  /\ DisableQueue(ch) /\ FlushQueue(ch)
  /\ identifyInfo' = [identifyInfo EXCEPT ![ch] = NotReady]
  /\ UNCHANGED <<pHead, UAEvents, UAConditionPending>>

\* The core driver gives up the recovery from an error: the queue is disabled,
\* with its commands in it, although the drive stays ready (SataEdma's
\* doDevErrorRecovery, IALChannel!EdmaDisabled).
QueueDisabled(ch) ==
  /\ context \in {"none", "isr"} /\ context' = "isr"
  /\ identifyInfo[ch] # NotReady
  /\ DisableQueue(ch)
  /\ UNCHANGED <<block, allocated, pHead, queueVars, histVars,
                 identifyInfo, UAEvents, UAConditionPending>>

\* The routine returns and mvSataScsiPostIntService begins.
IsrReturns ==
  /\ context = "isr"
  /\ context' = IF pHead = <<>> THEN "none" ELSE "post"
  /\ UNCHANGED <<block, allocated, pHead, queueVars, driveVars, histVars>>

\* Mutation: the service sends one command per interrupt.
PostIntSendsOne ==
  /\ context = "post"
  /\ LET b == Head(pHead)
     IN IF block[b].op = "MODE_SELECT6"
        THEN SendReadLookAhead(b, block[b], asked[b])
        ELSE SendSplittedVerifyCommand(b, block[b], asked[b])
  /\ pHead' = Tail(pHead)
  /\ context' = "none"
  /\ UNCHANGED driveVars

\* mvSataScsiPostIntService: the list is walked to its end.  Reading pNext of a
\* block that mvScsiAtaSendReadLookAhead has just freed finds it unchanged:
\* nothing is allocated before the list is done.
PostIntService ==
  /\ context = "post"
  /\ LET b == Head(pHead)
     IN IF block[b].op = "MODE_SELECT6"
        THEN SendReadLookAhead(b, block[b], asked[b])
        ELSE SendSplittedVerifyCommand(b, block[b], asked[b])
  /\ pHead' = Tail(pHead)
  /\ context' = IF Tail(pHead) = <<>> THEN "none" ELSE "post"
  /\ UNCHANGED driveVars

\* The timer finds the drive ready (IALChannel!InSrstDiskReady): the drive is
\* made known to this layer with both unit attentions (mvSataScsiSetDriveReady,
\* mvSataScsiNotifyUA), and the queue is enabled.
DriveReady(ch, features) ==
  /\ context = "none"
  /\ identifyInfo[ch] = NotReady
  /\ identifyInfo' = [identifyInfo EXCEPT ![ch] = features]
  /\ UAEvents' = [UAEvents EXCEPT ![ch] = {"RESET", "PARAMS_CHANGED"}]
  /\ UAConditionPending' = [UAConditionPending EXCEPT ![ch] = TRUE]
  /\ queueEnabled' = [queueEnabled EXCEPT ![ch] = TRUE]
  /\ old' = old \cup {b \in allocated : block[b].bus = ch}
  /\ UNCHANGED <<block, allocated, pHead, queueVars, context, asked, served>>

-----------------------------------------------------------------------------

\* mvSataScsiInitAdapterExt.
Init ==
  /\ block \in [Scbs -> {NewBlock("OTHER", ch, 0, 0) : ch \in Channels}]
  /\ allocated = {} /\ pHead = <<>> /\ context = "none"
  /\ commandsQueue = [ch \in Channels |-> {}]
  /\ ata = [b \in Scbs |-> NoCommand]
  /\ queueEnabled = [ch \in Channels |-> FALSE]
  /\ identifyInfo = [ch \in Channels |-> NotReady]
  /\ UAEvents = [ch \in Channels |-> {}]
  /\ UAConditionPending = [ch \in Channels |-> FALSE]
  /\ asked = [b \in Scbs |-> Nothing] /\ served = [b \in Scbs |-> Nothing]
  /\ old = {}

Next ==
  \/ \E b \in Scbs, ch \in Channels : mvSataExecuteScsiCommand(b, ch)
  \/ \E b \in Scbs : CommandDone(b) \/ CommandFails(b)
  \/ \E ch \in Channels : \/ ChannelGoes(ch)
                          \/ QueueDisabled(ch)
                          \/ \E f \in Features : DriveReady(ch, f)
  \/ IsrReturns
  \/ PostIntService

Spec == Init /\ [][Next]_vars

-----------------------------------------------------------------------------

Queued == UNION {commandsQueue[ch] : ch \in Channels}
Listed == {pHead[i] : i \in 1..Len(pHead)}

\* The sector count of READ VERIFY SECTORS has 8 bits and that of the EXT command
\* 16, with 0 for the largest.
CountLimit(kind) == IF kind = "VERIFY" THEN 2^8 ELSE 2^16

\* A VERIFY reads its sectors once, in order and none beside them, whatever
\* the split: the fragment under way starts where the last one ended, ends
\* within the range, is not empty and fits the sector count of its command.
FragmentsInOrder ==
  \A b \in Queued : ata[b].kind \in {"VERIFY", "VERIFY_EXT"} =>
    /\ ata[b].first = block[b].lba + served[b].sectors
    /\ served[b].sectors + ata[b].count <= asked[b].sectors
    /\ 1 <= ata[b].count /\ ata[b].count <= CountLimit(ata[b].kind)

\* Success is reported only for what the drive has done: every sector of a
\* VERIFY read, every supported setting of the caching page changed.
SuccessIsComplete ==
  [][\A b \in allocated \ allocated' :
       block'[b].ScsiCommandCompletion = "SUCCESS" => Served(b) = asked[b]]_vars

\* A block that is not yet completed has an ATA command in the queue of its
\* channel or is on the post-interrupt list, once; a completed block is in
\* neither.  The exception is a fragment that mvSataQueueCommand refuses:
\* mvScsiAtaSendSplittedVerifyCommand drops the command, which is given back to
\* nobody and recovered by the mid-layer's timeout.
Dropped(b) == /\ block[b].op \in {"VERIFY6", "VERIFY10"}
              /\ block[b].ScsiCommandCompletion \in {"NOT_READY", "QUEUE_FULL"}
OneOwner ==
  /\ Queued \cap Listed = {} /\ Cardinality(Listed) = Len(pHead)
  /\ Queued \cup Listed = {b \in allocated : ~Dropped(b)}

\* No ATA command of a SCSI command from before a reset is sent to the drive
\* after it: what the reset finds on the post-interrupt list dies with the
\* disabled queue, although the list is not flushed.
NothingCrossesReset == Queued \cap old = {}

\* "If splited VERIFY command, then SRB completion will be on the last
\* fragment": a block waits for the post-interrupt service only if something
\* is left to do.
CompletionOnLastFragment == \A b \in Listed : served[b] # asked[b]

=============================================================================
