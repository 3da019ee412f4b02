------------------------- MODULE ScsiAtaLayerProofs -------------------------
(***************************************************************************)
(* Proofs about ScsiAtaLayer: every SCSI command block has one owner, no   *)
(* ATA command crosses a reset of the drive, and a split command does what *)
(* the SCSI command asks, fragment after fragment.                         *)
(***************************************************************************)
EXTENDS ScsiAtaLayer, SequenceTheorems, FiniteSetTheorems, TLAPS

-----------------------------------------------------------------------------
(* The inductive invariant.                                                *)

Ops == {"OTHER", "VERIFY6", "VERIFY10", "MODE_SELECT6"}

Statuses == {"INVALID_STATUS", "SUCCESS", "BAD_SCSI_COMMAND", "NO_DEVICE",
             "RESET", "PARAMS_CHANGED", "NOT_READY", "QUEUE_FULL",
             "ATA_FAILED", "ABORTED"}

Blocks == [op : Ops, bus : Channels, lba : Nat, sectors : Nat,
           LowLbaAddress : Nat, splitCount : Nat, sequenceNumber : Nat,
           ScsiCommandCompletion : Statuses]

Commands == [kind : {"OTHER", "VERIFY", "VERIFY_EXT"} \cup Settings,
             first : Nat, count : Nat]

Work == [sectors : Nat, settings : SUBSET Settings]

BlocksTypeOK ==
  /\ block \in [Scbs -> Blocks]
  /\ allocated \in SUBSET Scbs /\ old \in SUBSET Scbs
  /\ ata \in [Scbs -> Commands]
  /\ asked \in [Scbs -> Work] /\ served \in [Scbs -> Work]

DrivesTypeOK ==
  /\ queueEnabled \in [Channels -> BOOLEAN]
  /\ identifyInfo \in [Channels -> Features \cup {NotReady}]
  /\ UAEvents \in [Channels -> SUBSET {"RESET", "PARAMS_CHANGED"}]
  /\ UAConditionPending \in [Channels -> BOOLEAN]

SalTypeOK ==
  /\ BlocksTypeOK /\ DrivesTypeOK
  /\ pHead \in Seq(Scbs)
  /\ commandsQueue \in [Channels -> SUBSET Scbs]
  /\ context \in {"none", "isr", "post"}

Once(s)  == \A i, j \in 1..Len(s) : s[i] = s[j] => i = j
Elems(s) == {s[i] : i \in 1..Len(s)}

Unanswered(b) == block[b].ScsiCommandCompletion = "INVALID_STATUS"

\* Who holds a block.
Holders ==
  /\ Once(pHead)
  /\ \A ch \in Channels : \A b \in commandsQueue[ch] :
       /\ b \in allocated /\ b \notin Elems(pHead) /\ b \notin old
       /\ block[b].bus = ch /\ Unanswered(b)
  /\ \A b \in Elems(pHead) :
       b \in allocated /\ b \notin old /\ Splits(b) /\ Unanswered(b)
  /\ \A b \in allocated : \/ b \in commandsQueue[block[b].bus]
                          \/ b \in Elems(pHead)
                          \/ Dropped(b)
  /\ old \subseteq allocated

\* When a holder may hold anything: the list outside the interrupt handler is
\* empty, and so is the queue of a drive that is not ready.
Phases ==
  /\ context = "none" => pHead = <<>>
  /\ context = "post" => pHead # <<>>
  /\ \A ch \in Channels :
       /\ queueEnabled[ch] => identifyInfo[ch] # NotReady
       /\ commandsQueue[ch] # {} => identifyInfo[ch] # NotReady

\* The sectors of the fragments that follow the one under way.
Following(b) == 256 * (block[b].splitCount - block[b].sequenceNumber)

\* A VERIFY with a fragment, or its only command, in the queue.
VerifyUnderWay(b) ==
  /\ ata[b].kind \in {"VERIFY", "VERIFY_EXT"}
  /\ 1 <= ata[b].count /\ ata[b].count <= CountLimit(ata[b].kind)
  /\ ata[b].first = block[b].lba + served[b].sectors
  /\ asked[b].settings = {} /\ served[b].settings = {}
  /\ \/ /\ block[b].splitCount <= block[b].sequenceNumber
        /\ asked[b].sectors = served[b].sectors + ata[b].count
     \/ /\ 1 <= block[b].sequenceNumber
        /\ block[b].sequenceNumber < block[b].splitCount
        /\ block[b].LowLbaAddress = block[b].lba + served[b].sectors + ata[b].count
        /\ asked[b].sectors = served[b].sectors + ata[b].count + Following(b)
        /\ block[b].lba + asked[b].sectors <= 2^28

\* A VERIFY that waits for the post-interrupt service.
VerifyBetween(b) ==
  /\ asked[b].settings = {} /\ served[b].settings = {}
  /\ 1 <= block[b].sequenceNumber
  /\ block[b].sequenceNumber < block[b].splitCount
  /\ block[b].LowLbaAddress = block[b].lba + served[b].sectors
  /\ asked[b].sectors = served[b].sectors + Following(b)
  /\ block[b].lba + asked[b].sectors <= 2^28

\* A MODE SELECT with a SET FEATURES in the queue: the last, or the first of two.
ModeUnderWay(b) ==
  /\ ata[b].kind \in Settings /\ ata[b].count = 0
  /\ asked[b].sectors = 0 /\ served[b].sectors = 0
  /\ \/ /\ block[b].splitCount <= block[b].sequenceNumber
        /\ asked[b].settings = served[b].settings \cup {ata[b].kind}
     \/ /\ block[b].splitCount = 2 /\ block[b].sequenceNumber = 1
        /\ ata[b].kind = "WCACHE"
        /\ asked[b].settings = Settings /\ served[b].settings = {}

ModeBetween(b) ==
  /\ asked[b].sectors = 0 /\ served[b].sectors = 0
  /\ block[b].splitCount = 2 /\ block[b].sequenceNumber = 1
  /\ asked[b].settings = Settings /\ served[b].settings = {"WCACHE"}

UnderWay(b) ==
  \/ block[b].op = "OTHER" /\ ata[b] = NoCommand
                           /\ asked[b] = Nothing /\ served[b] = Nothing
  \/ block[b].op \in {"VERIFY6", "VERIFY10"} /\ VerifyUnderWay(b)
  \/ block[b].op = "MODE_SELECT6" /\ ModeUnderWay(b)

Between(b) ==
  \/ block[b].op \in {"VERIFY6", "VERIFY10"} /\ VerifyBetween(b)
  \/ block[b].op = "MODE_SELECT6" /\ ModeBetween(b)

\* What is done and what is left add up to what the SCSI command asks.
Progress ==
  /\ \A ch \in Channels : \A b \in commandsQueue[ch] : UnderWay(b)
  /\ \A b \in Elems(pHead) : Between(b)
  /\ \A b \in Scbs \ allocated : served[b] = Nothing

IInv == SalTypeOK /\ Holders /\ Phases

-----------------------------------------------------------------------------
(* The list pHead: blocks enter at the front and leave from there.         *)

\* Putting a new block in front.
LEMMA ListPush ==
  ASSUME NEW S, NEW s \in Seq(S), NEW b \in S, Once(s), b \notin Elems(s)
  PROVE  /\ <<b>> \o s \in Seq(S) /\ <<b>> \o s # <<>>
         /\ Once(<<b>> \o s)
         /\ Elems(<<b>> \o s) = {b} \cup Elems(s)
<1> DEFINE t == <<b>> \o s
<1>1. Len(s) \in Nat /\ \A i \in 1..Len(s) : s[i] # b
  BY LenProperties DEF Elems
<1>2. /\ t \in Seq(S) /\ Len(t) = Len(s) + 1
      /\ t[1] = b /\ \A i \in 2..Len(s) + 1 : t[i] = s[i - 1]
  BY <1>1
<1> HIDE DEF t
<1>3. t # <<>>
  BY <1>1, <1>2
<1>4. Once(t)
  <2>1. ASSUME NEW i \in 1..Len(t), NEW j \in 1..Len(t), t[i] = t[j]
        PROVE  i = j
    <3>1. CASE i = 1 \/ j = 1
      <4>1. \A k \in 2..Len(s) + 1 : k - 1 \in 1..Len(s) /\ t[k] # b
        BY <1>1, <1>2
      <4>2. QED
        BY <1>1, <1>2, <2>1, <3>1, <4>1
    <3>2. CASE i # 1 /\ j # 1
      <4>1. /\ i - 1 \in 1..Len(s) /\ j - 1 \in 1..Len(s)
            /\ s[i - 1] = s[j - 1]
        BY <1>1, <1>2, <2>1, <3>2
      <4>2. i - 1 = j - 1
        BY <4>1, Zenon DEF Once
      <4>3. QED
        BY <1>1, <1>2, <4>2
    <3>3. QED
      BY <3>1, <3>2
  <2>2. QED
    BY <2>1, Zenon DEF Once
<1>5. \A i \in 1..Len(s) : i + 1 \in 1..Len(t) /\ t[i + 1] = s[i]
  BY <1>1, <1>2
<1>6. \A i \in 1..Len(t) : i = 1 \/ (i - 1 \in 1..Len(s) /\ t[i] = s[i - 1])
  BY <1>1, <1>2
<1>7. 1 \in 1..Len(t)
  BY <1>1, <1>2
<1>8. Elems(t) = {b} \cup Elems(s)
  <2>1. \A i \in 1..Len(t) : t[i] \in {b} \cup Elems(s)
    BY <1>2, <1>6 DEF Elems
  <2>2. \A i \in 1..Len(s) : s[i] \in Elems(t)
    BY <1>5, Zenon DEF Elems
  <2>3. b \in Elems(t)
    BY <1>2, <1>7 DEF Elems
  <2>4. QED
    BY <2>1, <2>2, <2>3, Zenon DEF Elems
<1>9. QED
  BY <1>2, <1>3, <1>4, <1>8 DEF t

\* Taking the first block.
LEMMA ListPop ==
  ASSUME NEW S, NEW s \in Seq(S), s # <<>>, Once(s)
  PROVE  /\ Tail(s) \in Seq(S) /\ Once(Tail(s))
         /\ Head(s) \in Elems(s)
         /\ Elems(Tail(s)) = Elems(s) \ {Head(s)}
<1>1. Len(s) \in Nat \ {0} /\ Head(s) = s[1] /\ 1 \in 1..Len(s)
  BY EmptySeq, LenProperties
<1>2. /\ Tail(s) \in Seq(S) /\ Len(Tail(s)) = Len(s) - 1
      /\ \A i \in 1..(Len(s) - 1) : Tail(s)[i] = s[i + 1]
  BY <1>1, HeadTailProperties
<1>3. \A i \in 1..Len(Tail(s)) : i + 1 \in 1..Len(s) /\ Tail(s)[i] = s[i + 1] /\ i + 1 # 1
  BY <1>1, <1>2
<1>4. \A i \in 1..Len(s) : i = 1 \/ (i - 1 \in 1..Len(Tail(s)) /\ Tail(s)[i - 1] = s[i])
  BY <1>1, <1>2
<1>5. Once(Tail(s))
  <2>1. ASSUME NEW i \in 1..Len(Tail(s)), NEW j \in 1..Len(Tail(s)), Tail(s)[i] = Tail(s)[j]
        PROVE  i = j
    <3>1. i + 1 = j + 1
      BY <1>3, <2>1 DEF Once
    <3>2. QED
      BY <1>2, <3>1
  <2>2. QED
    BY <2>1, Zenon DEF Once
<1>6. \A i \in 1..Len(Tail(s)) : Tail(s)[i] # s[1]
  BY <1>1, <1>3, Zenon DEF Once
<1>7. Elems(Tail(s)) = Elems(s) \ {s[1]}
  <2>1. \A i \in 1..Len(Tail(s)) : Tail(s)[i] \in Elems(s) \ {s[1]}
    BY <1>3, <1>6 DEF Elems
  <2>2. \A i \in 1..Len(s) : i = 1 \/ s[i] \in Elems(Tail(s))
    BY <1>4 DEF Elems
  <2>3. QED
    BY <2>1, <2>2, Zenon DEF Elems
<1>8. Head(s) \in Elems(s)
  BY <1>1, Zenon DEF Elems
<1>9. QED
  BY <1>1, <1>2, <1>5, <1>7, <1>8

\* A list without repetition has as many blocks as places.
LEMMA ListCounts ==
  ASSUME NEW S, NEW s \in Seq(S), Once(s)
  PROVE  Cardinality(Elems(s)) = Len(s)
<1>1. Len(s) \in Nat /\ s \in [1..Len(s) -> S]
  BY LenProperties
<1>2. IsFiniteSet(1..Len(s)) /\ Cardinality(1..Len(s)) = Len(s)
  <2>1. IsFiniteSet(1..Len(s))
    BY <1>1, FS_Interval
  <2>2. Cardinality(1..Len(s)) = IF 1 > Len(s) THEN 0 ELSE Len(s) - 1 + 1
    BY <1>1, FS_Interval
  <2>3. QED
    BY <1>1, <2>1, <2>2
<1>3. s \in [1..Len(s) -> Elems(s)]
  BY <1>1 DEF Elems
<1>4. s \in Surjection(1..Len(s), Elems(s))
  BY <1>3, Zenon DEF Surjection, Elems
<1>5. s \in Injection(1..Len(s), Elems(s))
  BY <1>3 DEF Injection, IsInjective, Once
<1>6. Cardinality(Elems(s)) = Cardinality(1..Len(s))
  BY <1>2, <1>4, <1>5, FS_Surjection, Zenon
<1>7. QED
  BY <1>2, <1>6

-----------------------------------------------------------------------------
(* Types of what the steps write.                                          *)

\* A new and a freed block are blocks.
LEMMA BlockTypes ==
  ASSUME NEW op \in Ops, NEW ch \in Channels, NEW lba \in Nat, NEW n \in Nat,
         NEW status \in Statuses
  PROVE  NewBlock(op, ch, lba, n) \in Blocks /\ Freed(ch, status) \in Blocks
BY DEF NewBlock, Freed, Blocks, Ops, Statuses

\* The commands that carry no sectors.
LEMMA CommandTypes ==
  /\ NoCommand \in Commands /\ Nothing \in Work
  /\ \A s \in Settings : SetFeatures(s) \in Commands
BY DEF NoCommand, Nothing, SetFeatures, Commands, Work, Settings

\* Completing blocks.
LEMMA CompleteTypes ==
  ASSUME BlocksTypeOK, NEW set \in SUBSET Scbs, NEW ch \in Channels,
         NEW status \in Statuses, Complete(set, ch, status)
  PROVE  BlocksTypeOK'
<1>1. Freed(ch, status) \in Blocks
  BY BlockTypes DEF Ops
<1>2. QED
  BY <1>1, CommandTypes DEF Complete, BlocksTypeOK

\* Queueing a command.
LEMMA AcceptedTypes ==
  ASSUME BlocksTypeOK, commandsQueue \in [Channels -> SUBSET Scbs],
         NEW b \in Scbs, NEW blk \in Blocks, NEW cmd \in Commands,
         NEW what \in Work, Accepted(b, blk, cmd, what)
  PROVE  BlocksTypeOK' /\ commandsQueue' \in [Channels -> SUBSET Scbs]
<1>1. blk.bus \in Channels
  BY DEF Blocks
<1>2. QED
  BY <1>1 DEF Accepted, BlocksTypeOK

\* A refusal is a status and no success; only an enabled queue accepts.
LEMMA ResultTypes ==
  ASSUME NEW ch \in Channels, NEW result \in QueueResults(ch)
  PROVE  IF result = "OK"
         THEN queueEnabled[ch]
         ELSE result \in {"NOT_READY", "QUEUE_FULL"} /\ result \in Statuses
BY DEF QueueResults, Statuses

\* A fragment, and the block as it leaves it.
LEMMA FragmentTypes ==
  ASSUME NEW blk \in Blocks
  PROVE  /\ FragmentSectors(blk) \in Nat
         /\ 1 <= FragmentSectors(blk) /\ FragmentSectors(blk) <= 256
         /\ Fragment(blk) \in Commands /\ Fragment(blk).kind = "VERIFY"
         /\ Fragment(blk).count = FragmentSectors(blk)
         /\ Fragment(blk).first = blk.LowLbaAddress % 2^28
         /\ Advanced(blk) \in Blocks
         /\ Advanced(blk).op = blk.op /\ Advanced(blk).bus = blk.bus
         /\ Advanced(blk).lba = blk.lba /\ Advanced(blk).splitCount = blk.splitCount
         /\ Advanced(blk).sequenceNumber = blk.sequenceNumber + 1
         /\ Advanced(blk).LowLbaAddress = blk.LowLbaAddress + FragmentSectors(blk)
         /\ Advanced(blk).ScsiCommandCompletion = blk.ScsiCommandCompletion
<1>1. /\ blk.sequenceNumber \in Nat /\ blk.LowLbaAddress \in Nat
      /\ blk.sectors \in Nat /\ blk.bus \in Channels
  BY DEF Blocks
<1>2. /\ FragmentSectors(blk) \in Nat
      /\ 1 <= FragmentSectors(blk) /\ FragmentSectors(blk) <= 256
  BY <1>1 DEF FragmentSectors
<1>3. blk.LowLbaAddress % 2^28 \in Nat
  BY <1>1
<1>4. /\ Fragment(blk) \in Commands /\ Fragment(blk).kind = "VERIFY"
      /\ Fragment(blk).count = FragmentSectors(blk)
      /\ Fragment(blk).first = blk.LowLbaAddress % 2^28
  BY <1>2, <1>3 DEF Fragment, Commands
<1>5. /\ blk.sequenceNumber + 1 \in Nat
      /\ blk.LowLbaAddress + FragmentSectors(blk) \in Nat
  BY <1>1, <1>2
<1>6. [blk EXCEPT !.sequenceNumber = blk.sequenceNumber + 1] \in Blocks
  BY <1>5 DEF Blocks
<1>7. Advanced(blk) = [[blk EXCEPT !.sequenceNumber = blk.sequenceNumber + 1]
                         EXCEPT !.LowLbaAddress = blk.LowLbaAddress + FragmentSectors(blk)]
  BY DEF Blocks, Advanced
<1>8. Advanced(blk) \in Blocks
  BY <1>5, <1>6, <1>7 DEF Blocks
<1>9. /\ Advanced(blk).op = blk.op /\ Advanced(blk).bus = blk.bus
      /\ Advanced(blk).lba = blk.lba /\ Advanced(blk).splitCount = blk.splitCount
      /\ Advanced(blk).sequenceNumber = blk.sequenceNumber + 1
      /\ Advanced(blk).LowLbaAddress = blk.LowLbaAddress + FragmentSectors(blk)
      /\ Advanced(blk).ScsiCommandCompletion = blk.ScsiCommandCompletion
  BY DEF Blocks, Advanced
<1>10. QED
  BY <1>2, <1>4, <1>8, <1>9

-----------------------------------------------------------------------------
(* Five ways to move blocks between the holders.                           *)

\* The blocks of a set leave the post-interrupt list.
LeavesList(set) == Once(pHead') /\ Elems(pHead') = Elems(pHead) \ set

\* A block that keeps its contents keeps what is said of it.
Kept(b) == /\ block'[b] = block[b] /\ ata'[b] = ata[b]
           /\ asked'[b] = asked[b] /\ served'[b] = served[b]

\* Every predicate on the progress of a block depends on its contents only.
LEMMA KeptProgress ==
  ASSUME NEW b, Kept(b)
  PROVE  /\ UnderWay(b)' <=> UnderWay(b)
         /\ Between(b)' <=> Between(b)
         /\ Unanswered(b)' <=> Unanswered(b)
         /\ Splits(b)' <=> Splits(b)
         /\ Dropped(b)' <=> Dropped(b)
BY DEF Kept, UnderWay, Between, VerifyUnderWay, VerifyBetween, ModeUnderWay,
       ModeBetween, Following, Unanswered, Splits, Dropped

\* Completing the blocks of a set, which leave every holder.
LEMMA CompletionKeeps ==
  ASSUME SalTypeOK, Holders, NEW set \in SUBSET Scbs, NEW ch, NEW status,
         Complete(set, ch, status), LeavesList(set),
         \A c \in Channels : commandsQueue'[c] = commandsQueue[c] \ set
  PROVE  Holders' /\ (Progress => Progress')
<1>1. ASSUME NEW b \in Scbs, b \notin set PROVE Kept(b)
  BY <1>1 DEF Complete, Kept
<1>2. allocated' = allocated \ set /\ old' = old \ set
  BY DEF Complete
<1>3. /\ allocated \subseteq Scbs
      /\ \A c \in Channels : commandsQueue[c] \subseteq Scbs
  BY DEF SalTypeOK, BlocksTypeOK
<1>4. Elems(pHead) \subseteq allocated /\ \A b \in Scbs : block[b].bus \in Channels
  BY DEF Holders, SalTypeOK, BlocksTypeOK, Blocks
<1>5. \A b \in Scbs \ set : block'[b].bus = block[b].bus
  BY <1>1 DEF Kept
<1>6. \A b \in Scbs \ set : /\ Unanswered(b)' <=> Unanswered(b)
                            /\ Splits(b)' <=> Splits(b)
                            /\ Dropped(b)' <=> Dropped(b)
                            /\ UnderWay(b)' <=> UnderWay(b)
                            /\ Between(b)' <=> Between(b)
  BY <1>1, KeptProgress, Zenon
<1>7. Holders'
  <2>1. ASSUME NEW c \in Channels, NEW b \in commandsQueue'[c]
        PROVE  /\ b \in allocated' /\ b \notin Elems(pHead') /\ b \notin old'
               /\ block'[b].bus = c /\ Unanswered(b)'
    <3>1. b \in commandsQueue[c] /\ b \notin set /\ b \in Scbs
      BY <1>3
    <3>2. /\ b \in allocated /\ b \notin Elems(pHead) /\ b \notin old
          /\ block[b].bus = c /\ Unanswered(b)
      BY <3>1, Zenon DEF Holders
    <3>3. QED
      BY <1>2, <1>5, <1>6, <3>1, <3>2 DEF LeavesList
  <2>2. ASSUME NEW b \in Elems(pHead')
        PROVE  b \in allocated' /\ b \notin old' /\ Splits(b)' /\ Unanswered(b)'
    <3>1. b \in Elems(pHead) /\ b \notin set /\ b \in Scbs
      BY <1>3, <1>4 DEF LeavesList
    <3>2. b \in allocated /\ b \notin old /\ Splits(b) /\ Unanswered(b)
      BY <3>1, Zenon DEF Holders
    <3>3. QED
      BY <1>2, <1>6, <3>1, <3>2
  <2>3. ASSUME NEW b \in allocated'
        PROVE  b \in commandsQueue'[block'[b].bus] \/ b \in Elems(pHead') \/ Dropped(b)'
    <3>1. b \in allocated /\ b \notin set /\ b \in Scbs
      BY <1>2, <1>3
    <3>2. b \in commandsQueue[block[b].bus] \/ b \in Elems(pHead) \/ Dropped(b)
      BY <3>1, Zenon DEF Holders
    <3>3. QED
      BY <1>4, <1>5, <1>6, <3>1, <3>2 DEF LeavesList
  <2>4. Once(pHead') /\ old' \subseteq allocated'
    BY <1>2 DEF LeavesList, Holders
  <2>5. QED
    BY <2>1, <2>2, <2>3, <2>4, Zenon DEF Holders
<1>8. ASSUME Progress PROVE Progress'
  <2>1. ASSUME NEW c \in Channels, NEW b \in commandsQueue'[c]
        PROVE  UnderWay(b)'
    BY <1>3, <1>6, <1>8 DEF Progress
  <2>2. ASSUME NEW b \in Elems(pHead') PROVE Between(b)'
    BY <1>3, <1>4, <1>6, <1>8 DEF Progress, LeavesList
  <2>3. ASSUME NEW b \in Scbs \ allocated' PROVE served'[b] = Nothing
    <3>1. CASE b \in set
      BY <3>1 DEF Complete
    <3>2. CASE b \notin set
      BY <1>1, <1>2, <1>8, <3>2 DEF Progress, Kept
    <3>3. QED
      BY <3>1, <3>2
  <2>4. QED
    BY <2>1, <2>2, <2>3, Zenon DEF Progress
<1>9. QED
  BY <1>7, <1>8

\* A block that is in no queue enters that of its channel.
LEMMA EntryKeeps ==
  ASSUME SalTypeOK, Holders, NEW b \in Scbs, NEW blk \in Blocks, NEW cmd, NEW what,
         Accepted(b, blk, cmd, what), LeavesList({b}),
         blk.ScsiCommandCompletion = "INVALID_STATUS",
         b \notin old, \A c \in Channels : b \notin commandsQueue[c]
  PROVE  Holders' /\ (Progress /\ UnderWay(b)' => Progress')
<1> USE DEF LeavesList
<1>1. ASSUME NEW x \in Scbs, x # b PROVE Kept(x)
  BY <1>1 DEF Accepted, Kept
<1>2. allocated' = allocated \cup {b} /\ old' = old /\ served' = served
  BY DEF Accepted
<1>3. /\ allocated \subseteq Scbs
      /\ \A c \in Channels : commandsQueue[c] \subseteq Scbs
  BY DEF SalTypeOK, BlocksTypeOK
<1>4. Elems(pHead) \subseteq allocated /\ \A x \in Scbs : block[x].bus \in Channels
  BY DEF Holders, SalTypeOK, BlocksTypeOK, Blocks
<1>5. \A x \in Scbs \ {b} : block'[x].bus = block[x].bus
  BY <1>1 DEF Kept
<1>6. \A x \in Scbs \ {b} : /\ Unanswered(x)' <=> Unanswered(x)
                            /\ Splits(x)' <=> Splits(x)
                            /\ Dropped(x)' <=> Dropped(x)
                            /\ UnderWay(x)' <=> UnderWay(x)
                            /\ Between(x)' <=> Between(x)
  BY <1>1, KeptProgress, Zenon
<1>7. blk.bus \in Channels /\ block'[b] = blk
  BY DEF Accepted, SalTypeOK, BlocksTypeOK, Blocks
<1>8. \A c \in Channels : commandsQueue'[c] = IF c = blk.bus THEN commandsQueue[c] \cup {b}
                                              ELSE commandsQueue[c]
  BY <1>7 DEF Accepted, SalTypeOK
<1>9. Holders'
  <2>1. ASSUME NEW c \in Channels, NEW x \in commandsQueue'[c]
        PROVE  /\ x \in allocated' /\ x \notin Elems(pHead') /\ x \notin old'
               /\ block'[x].bus = c /\ Unanswered(x)'
    <3>1. CASE x = b
      <4>1. c = blk.bus
        BY <1>8, <3>1
      <4>2. QED
        BY <1>2, <1>7, <3>1, <4>1 DEF Unanswered
    <3>2. CASE x # b
      <4>1. x \in commandsQueue[c] /\ x \in Scbs
        BY <1>3, <1>8, <3>2
      <4>2. /\ x \in allocated /\ x \notin Elems(pHead) /\ x \notin old
            /\ block[x].bus = c /\ Unanswered(x)
        BY <4>1, Zenon DEF Holders
      <4>3. QED
        BY <1>2, <1>5, <1>6, <3>2, <4>1, <4>2
    <3>3. QED
      BY <3>1, <3>2
  <2>2. ASSUME NEW x \in Elems(pHead')
        PROVE  x \in allocated' /\ x \notin old' /\ Splits(x)' /\ Unanswered(x)'
    <3>1. x \in Elems(pHead) /\ x # b /\ x \in Scbs
      BY <1>3, <1>4
    <3>2. x \in allocated /\ x \notin old /\ Splits(x) /\ Unanswered(x)
      BY <3>1, Zenon DEF Holders
    <3>3. QED
      BY <1>2, <1>6, <3>1, <3>2
  <2>3. ASSUME NEW x \in allocated'
        PROVE  x \in commandsQueue'[block'[x].bus] \/ x \in Elems(pHead') \/ Dropped(x)'
    <3>1. CASE x = b
      BY <1>7, <1>8, <3>1
    <3>2. CASE x # b
      <4>1. x \in allocated /\ x \in Scbs
        BY <1>2, <1>3, <3>2
      <4>2. x \in commandsQueue[block[x].bus] \/ x \in Elems(pHead) \/ Dropped(x)
        BY <4>1, Zenon DEF Holders
      <4>3. QED
        BY <1>4, <1>5, <1>6, <1>8, <3>2, <4>1, <4>2
    <3>3. QED
      BY <3>1, <3>2
  <2>4. Once(pHead') /\ old' \subseteq allocated'
    BY <1>2 DEF Holders
  <2>5. QED
    BY <2>1, <2>2, <2>3, <2>4, Zenon DEF Holders
<1>10. ASSUME Progress, UnderWay(b)' PROVE Progress'
  <2>1. ASSUME NEW c \in Channels, NEW x \in commandsQueue'[c]
        PROVE  UnderWay(x)'
    <3>1. CASE x = b
      BY <1>10, <3>1, Zenon
    <3>2. CASE x # b
      BY <1>3, <1>6, <1>8, <1>10, <3>2 DEF Progress
    <3>3. QED
      BY <3>1, <3>2
  <2>2. ASSUME NEW x \in Elems(pHead') PROVE Between(x)'
    BY <1>3, <1>4, <1>6, <1>10 DEF Progress
  <2>3. ASSUME NEW x \in Scbs \ allocated' PROVE served'[x] = Nothing
    BY <1>2, <1>10 DEF Progress
  <2>4. QED
    BY <2>1, <2>2, <2>3, Zenon DEF Progress
<1>11. QED
  BY <1>9, <1>10

\* mvScsiAtaSendSplittedVerifyCommand drops a fragment that was refused.
Drops(b, blk) ==
  /\ block' = [block EXCEPT ![b] = blk]
  /\ allocated' = allocated \cup {b}
  /\ \A x \in Scbs \ {b} : asked'[x] = asked[x]
  /\ UNCHANGED <<commandsQueue, ata, served, old>>

\* A block that is dropped leaves the list for no holder at all.
LEMMA DropKeeps ==
  ASSUME SalTypeOK, Holders, NEW b \in Scbs, NEW blk \in Blocks,
         Drops(b, blk), LeavesList({b}),
         blk.op \in {"VERIFY6", "VERIFY10"},
         blk.ScsiCommandCompletion \in {"NOT_READY", "QUEUE_FULL"},
         \A c \in Channels : b \notin commandsQueue[c]
  PROVE  Holders' /\ (Progress => Progress')
<1> USE DEF LeavesList
<1>1. ASSUME NEW x \in Scbs, x # b PROVE Kept(x)
  BY <1>1 DEF Drops, Kept, SalTypeOK, BlocksTypeOK
<1>2. /\ allocated' = allocated \cup {b} /\ old' = old
      /\ served' = served /\ commandsQueue' = commandsQueue
  BY DEF Drops
<1>3. /\ allocated \subseteq Scbs
      /\ \A c \in Channels : commandsQueue[c] \subseteq Scbs
  BY DEF SalTypeOK, BlocksTypeOK
<1>4. Elems(pHead) \subseteq allocated
  BY DEF Holders
<1>5. \A x \in Scbs \ {b} : block'[x].bus = block[x].bus
  BY <1>1 DEF Kept
<1>6. \A x \in Scbs \ {b} : /\ Unanswered(x)' <=> Unanswered(x)
                            /\ Splits(x)' <=> Splits(x)
                            /\ Dropped(x)' <=> Dropped(x)
                            /\ UnderWay(x)' <=> UnderWay(x)
                            /\ Between(x)' <=> Between(x)
  BY <1>1, KeptProgress, Zenon
<1>7. Dropped(b)'
  BY DEF Drops, Dropped, SalTypeOK, BlocksTypeOK
<1>8. Holders'
  <2>1. ASSUME NEW c \in Channels, NEW x \in commandsQueue'[c]
        PROVE  /\ x \in allocated' /\ x \notin Elems(pHead') /\ x \notin old'
               /\ block'[x].bus = c /\ Unanswered(x)'
    <3>1. x \in commandsQueue[c] /\ x \in Scbs /\ x # b
      BY <1>2, <1>3
    <3>2. /\ x \in allocated /\ x \notin Elems(pHead) /\ x \notin old
          /\ block[x].bus = c /\ Unanswered(x)
      BY <3>1, Zenon DEF Holders
    <3>3. QED
      BY <1>2, <1>5, <1>6, <3>1, <3>2
  <2>2. ASSUME NEW x \in Elems(pHead')
        PROVE  x \in allocated' /\ x \notin old' /\ Splits(x)' /\ Unanswered(x)'
    <3>1. x \in Elems(pHead) /\ x # b /\ x \in Scbs
      BY <1>3, <1>4
    <3>2. x \in allocated /\ x \notin old /\ Splits(x) /\ Unanswered(x)
      BY <3>1, Zenon DEF Holders
    <3>3. QED
      BY <1>2, <1>6, <3>1, <3>2
  <2>3. ASSUME NEW x \in allocated'
        PROVE  x \in commandsQueue'[block'[x].bus] \/ x \in Elems(pHead') \/ Dropped(x)'
    <3>1. CASE x = b
      BY <1>7, <3>1, Zenon
    <3>2. CASE x # b
      <4>1. x \in allocated /\ x \in Scbs
        BY <1>2, <1>3, <3>2
      <4>2. x \in commandsQueue[block[x].bus] \/ x \in Elems(pHead) \/ Dropped(x)
        BY <4>1, Zenon DEF Holders
      <4>3. QED
        BY <1>2, <1>5, <1>6, <3>2, <4>1, <4>2
    <3>3. QED
      BY <3>1, <3>2
  <2>4. Once(pHead') /\ old' \subseteq allocated'
    BY <1>2 DEF Holders
  <2>5. QED
    BY <2>1, <2>2, <2>3, <2>4, Zenon DEF Holders
<1>9. ASSUME Progress PROVE Progress'
  <2>1. ASSUME NEW c \in Channels, NEW x \in commandsQueue'[c]
        PROVE  UnderWay(x)'
    <3>1. x \in commandsQueue[c] /\ x \in Scbs /\ x # b
      BY <1>2, <1>3
    <3>2. QED
      BY <1>6, <1>9, <3>1 DEF Progress
  <2>2. ASSUME NEW x \in Elems(pHead') PROVE Between(x)'
    BY <1>3, <1>4, <1>6, <1>9 DEF Progress
  <2>3. ASSUME NEW x \in Scbs \ allocated' PROVE served'[x] = Nothing
    BY <1>2, <1>9 DEF Progress
  <2>4. QED
    BY <2>1, <2>2, <2>3, Zenon DEF Progress
<1>10. QED
  BY <1>8, <1>9

\* SALCommandCompletionCB puts a block on the list.
LEMMA ListingKeeps ==
  ASSUME SalTypeOK, Holders, NEW b \in Scbs, HasMore(b),
         b \in commandsQueue[block[b].bus],
         commandsQueue' = [commandsQueue EXCEPT ![block[b].bus] = @ \ {b}],
         pHead' = <<b>> \o pHead,
         served' = [served EXCEPT ![b] = Served(b)],
         UNCHANGED <<block, allocated, ata, asked, old>>
  PROVE  /\ Holders' /\ pHead' \in Seq(Scbs) /\ pHead' # <<>>
         /\ Progress /\ Between(b)' => Progress'
<1>1. /\ block[b].bus \in Channels /\ pHead \in Seq(Scbs)
      /\ allocated \subseteq Scbs
      /\ \A c \in Channels : commandsQueue[c] \subseteq Scbs
  BY DEF SalTypeOK, BlocksTypeOK, Blocks
<1>2. b \in allocated /\ b \notin Elems(pHead) /\ b \notin old /\ Unanswered(b)
  BY <1>1 DEF Holders
<1>3. /\ pHead' \in Seq(Scbs) /\ pHead' # <<>> /\ Once(pHead')
      /\ Elems(pHead') = {b} \cup Elems(pHead)
  BY <1>1, <1>2, ListPush DEF Holders
<1>4. \A c \in Channels : commandsQueue'[c] = commandsQueue[c] \ {b}
  BY <1>1 DEF SalTypeOK, Holders
<1>5. Splits(b)
  BY DEF HasMore
<1>6. \A x : /\ Unanswered(x)' <=> Unanswered(x)
             /\ Splits(x)' <=> Splits(x)
             /\ Dropped(x)' <=> Dropped(x)
  BY DEF Unanswered, Splits, Dropped
<1>7. Holders'
  <2>1. ASSUME NEW c \in Channels, NEW x \in commandsQueue'[c]
        PROVE  /\ x \in allocated' /\ x \notin Elems(pHead') /\ x \notin old'
               /\ block'[x].bus = c /\ Unanswered(x)'
    <3>1. x \in commandsQueue[c] /\ x # b
      BY <1>4
    <3>2. /\ x \in allocated /\ x \notin Elems(pHead) /\ x \notin old
          /\ block[x].bus = c /\ Unanswered(x)
      BY <3>1, Zenon DEF Holders
    <3>3. QED
      BY <1>3, <1>6, <3>1, <3>2
  <2>2. ASSUME NEW x \in Elems(pHead')
        PROVE  x \in allocated' /\ x \notin old' /\ Splits(x)' /\ Unanswered(x)'
    <3>1. x = b \/ x \in Elems(pHead)
      BY <1>3
    <3>2. x \in allocated /\ x \notin old /\ Splits(x) /\ Unanswered(x)
      BY <1>2, <1>5, <3>1, Zenon DEF Holders
    <3>3. QED
      BY <1>6, <3>2
  <2>3. ASSUME NEW x \in allocated'
        PROVE  x \in commandsQueue'[block'[x].bus] \/ x \in Elems(pHead') \/ Dropped(x)'
    <3>1. x \in allocated
      OBVIOUS
    <3>2. x \in commandsQueue[block[x].bus] \/ x \in Elems(pHead) \/ Dropped(x)
      BY <3>1, Zenon DEF Holders
    <3>3. block[x].bus \in Channels
      BY <1>1, <3>1 DEF SalTypeOK, BlocksTypeOK, Blocks
    <3>4. QED
      BY <1>3, <1>4, <1>6, <3>2, <3>3
  <2>4. old' \subseteq allocated'
    BY DEF Holders
  <2>5. QED
    BY <1>3, <2>1, <2>2, <2>3, <2>4, Zenon DEF Holders
<1>8. ASSUME Progress, Between(b)' PROVE Progress'
  <2>1. ASSUME NEW x \in Scbs, x # b
        PROVE  (UnderWay(x)' <=> UnderWay(x)) /\ (Between(x)' <=> Between(x))
    <3>1. Kept(x)
      BY <2>1 DEF Kept, SalTypeOK, BlocksTypeOK
    <3>2. QED
      BY <3>1, KeptProgress, Zenon
  <2>2. ASSUME NEW c \in Channels, NEW x \in commandsQueue'[c]
        PROVE  UnderWay(x)'
    BY <1>1, <1>4, <1>8, <2>1 DEF Progress
  <2>3. ASSUME NEW x \in Elems(pHead') PROVE Between(x)'
    <3>1. CASE x = b
      BY <1>8, <3>1, Zenon
    <3>2. CASE x # b
      <4>1. x \in Elems(pHead) /\ x \in Scbs
        BY <1>1, <1>3, <3>2 DEF Holders
      <4>2. QED
        BY <1>8, <2>1, <3>2, <4>1 DEF Progress
    <3>3. QED
      BY <3>1, <3>2
  <2>4. ASSUME NEW x \in Scbs \ allocated' PROVE served'[x] = Nothing
    BY <1>2, <1>8 DEF Progress, SalTypeOK, BlocksTypeOK
  <2>5. QED
    BY <2>2, <2>3, <2>4, Zenon DEF Progress
<1>9. QED
  BY <1>3, <1>7, <1>8

-----------------------------------------------------------------------------
(* What is done and what is left.                                          *)

\* Rounding up to whole fragments.
LEMMA RoundUp ==
  ASSUME NEW s \in Nat \ {0}, s < 2^16
  PROVE  /\ ((s + 255) \div 256) % 2^16 \in Nat \ {0}
         /\ s = (IF s % 256 # 0 THEN s % 256 ELSE 256)
                + 256 * ((((s + 255) \div 256) % 2^16) - 1)
<1>1. PICK q \in Int : q = s \div 256
  BY SMT
<1>2. PICK r \in Int : r = s % 256
  BY SMT
<1>3. r \in 0..255 /\ s = 256 * q + r
  BY <1>1, <1>2
<1>4. q \in 0..255
  BY <1>3
<1>5. \A x, y, z \in Nat : x = 256 * y + z /\ z < 256 => x \div 256 = y
  OBVIOUS
<1>6. CASE r = 0
  <2>1. s + 255 = 256 * q + 255
    BY <1>3, <1>6
  <2>2. (s + 255) \div 256 = q
    BY <1>4, <1>5, <2>1
  <2>3. q % 2^16 = q /\ q # 0
    BY <1>3, <1>4, <1>6
  <2>4. QED
    BY <1>2, <1>3, <1>4, <1>6, <2>2, <2>3
<1>7. CASE r # 0
  <2>1. s + 255 = 256 * (q + 1) + (r - 1)
    BY <1>3, <1>4
  <2>2. r - 1 \in Nat /\ r - 1 < 256 /\ q + 1 \in Nat /\ s + 255 \in Nat
    BY <1>3, <1>4, <1>7
  <2>3. (s + 255) \div 256 = q + 1
    BY <1>5, <2>1, <2>2
  <2>4. (q + 1) % 2^16 = q + 1
    BY <1>4
  <2>5. QED
    BY <1>2, <1>3, <1>4, <1>7, <2>3, <2>4
<1>8. QED
  BY <1>6, <1>7

\* The remainder, or a whole fragment, and whole fragments make up the count.
LEMMA SplitCovers ==
  ASSUME NEW v \in Verifies, SectorsOf(v) # 0
  PROVE  /\ SplitCount(v) \in Nat \ {0} /\ SectorsOf(v) \in Nat
         /\ SectorsOf(v) = (IF v.sectors % 256 # 0 THEN v.sectors % 256 ELSE 256)
                           + 256 * (SplitCount(v) - 1)
<1>1. /\ v \in [op : {"VERIFY6", "VERIFY10"}, lba : Nat, sectors : Nat]
      /\ v.sectors < IF v.op = "VERIFY6" THEN 2^8 ELSE 2^16
  BY SalAssumption
<1>2. v.sectors \in Nat /\ v.sectors < 2^16
  BY <1>1
<1>3. CASE v.sectors = 0
  BY <1>3 DEF SectorsOf, SplitCount
<1>4. CASE v.sectors # 0
  <2>1. SectorsOf(v) = v.sectors
    BY <1>4, Zenon DEF SectorsOf
  <2>2. SplitCount(v) = ((v.sectors + 255) \div 256) % 2^16
    BY <1>4, Zenon DEF SplitCount
  <2>3. PICK s \in Nat \ {0} : s < 2^16 /\ s = v.sectors
    BY <1>2, <1>4
  <2>4. QED
    BY <2>1, <2>2, <2>3, RoundUp
<1>5. QED
  BY <1>3, <1>4

\* The only or last ATA command of a block does the rest of what is asked.
LEMMA LastCompletes ==
  ASSUME SalTypeOK, NEW b \in Scbs, UnderWay(b), ~HasMore(b)
  PROVE  Served(b) = asked[b]
<1>1. /\ block[b] \in Blocks /\ ata[b] \in Commands
      /\ asked[b] \in Work /\ served[b] \in Work
  BY DEF SalTypeOK, BlocksTypeOK
<1>2. /\ block[b].splitCount \in Nat /\ block[b].sequenceNumber \in Nat
      /\ ata[b].count \in Nat /\ asked[b].sectors \in Nat /\ served[b].sectors \in Nat
  BY <1>1 DEF Blocks, Commands, Work
<1>3. asked[b] = [sectors |-> asked[b].sectors, settings |-> asked[b].settings]
  BY <1>1 DEF Work
<1>4. SUFFICES /\ asked[b].sectors = served[b].sectors + ata[b].count
               /\ asked[b].settings = served[b].settings \cup ({ata[b].kind} \cap Settings)
  BY <1>3 DEF Served
<1>5. CASE block[b].op = "OTHER"
  BY <1>5 DEF UnderWay, NoCommand, Nothing, Settings
<1>6. CASE block[b].op \in {"VERIFY6", "VERIFY10"}
  <2>1. VerifyUnderWay(b) /\ ~(block[b].splitCount > block[b].sequenceNumber)
    BY <1>6 DEF UnderWay, HasMore, Splits
  <2>2. /\ ata[b].kind \in {"VERIFY", "VERIFY_EXT"}
        /\ asked[b].settings = {} /\ served[b].settings = {}
    BY <2>1 DEF VerifyUnderWay
  <2>3. asked[b].sectors = served[b].sectors + ata[b].count
    BY <1>2, <2>1 DEF VerifyUnderWay
  <2>4. QED
    BY <2>2, <2>3 DEF Settings
<1>7. CASE block[b].op = "MODE_SELECT6"
  <2>1. ModeUnderWay(b) /\ ~(block[b].splitCount > block[b].sequenceNumber)
    BY <1>7 DEF UnderWay, HasMore, Splits
  <2>2. QED
    <3>1. asked[b].settings = served[b].settings \cup {ata[b].kind}
      BY <1>2, <2>1 DEF ModeUnderWay
    <3>2. asked[b].sectors = 0 /\ served[b].sectors = 0 /\ ata[b].count = 0
      BY <2>1 DEF ModeUnderWay
    <3>3. {ata[b].kind} \cap Settings = {ata[b].kind}
      BY <2>1 DEF ModeUnderWay
    <3>4. QED
      BY <3>1, <3>2, <3>3
<1>8. QED
  BY <1>1, <1>5, <1>6, <1>7 DEF Blocks, Ops

\* Any other leaves what the list expects.
LEMMA FragmentDone ==
  ASSUME SalTypeOK, NEW b \in Scbs, UnderWay(b), HasMore(b),
         served' = [served EXCEPT ![b] = Served(b)],
         UNCHANGED <<block, asked>>
  PROVE  Between(b)'
<1>1. /\ block[b] \in Blocks /\ ata[b] \in Commands
      /\ asked[b] \in Work /\ served[b] \in Work
  BY DEF SalTypeOK, BlocksTypeOK
<1>2. /\ block[b].splitCount \in Nat /\ block[b].sequenceNumber \in Nat
      /\ block[b].lba \in Nat
      /\ ata[b].count \in Nat /\ asked[b].sectors \in Nat /\ served[b].sectors \in Nat
  BY <1>1 DEF Blocks, Commands, Work
<1>3. /\ served'[b].sectors = served[b].sectors + ata[b].count
      /\ served'[b].settings = served[b].settings \cup ({ata[b].kind} \cap Settings)
  BY DEF Served, SalTypeOK, BlocksTypeOK
<1>4. block[b].splitCount > block[b].sequenceNumber /\ Splits(b)
  BY DEF HasMore
<1>5. CASE block[b].op \in {"VERIFY6", "VERIFY10"}
  <2>1. VerifyUnderWay(b)
    BY <1>5 DEF UnderWay
  <2>2. VerifyBetween(b)'
    BY <1>2, <1>3, <1>4, <2>1 DEF VerifyUnderWay, VerifyBetween, Following, Settings
  <2>3. QED
    BY <1>5, <2>2 DEF Between
<1>6. CASE block[b].op = "MODE_SELECT6"
  <2>1. ModeUnderWay(b)
    BY <1>6 DEF UnderWay
  <2>2. ModeBetween(b)'
    <3>1. /\ block[b].splitCount = 2 /\ block[b].sequenceNumber = 1
          /\ ata[b].kind = "WCACHE"
          /\ asked[b].settings = Settings /\ served[b].settings = {}
      BY <1>2, <1>4, <2>1 DEF ModeUnderWay
    <3>2. asked[b].sectors = 0 /\ served[b].sectors = 0 /\ ata[b].count = 0
      BY <2>1 DEF ModeUnderWay
    <3>3. served'[b].settings = {"WCACHE"} /\ served'[b].sectors = 0
      BY <1>3, <3>1, <3>2 DEF Settings
    <3>4. QED
      BY <3>1, <3>2, <3>3 DEF ModeBetween
  <2>3. QED
    BY <1>6, <2>2 DEF Between
<1>7. QED
  BY <1>4, <1>5, <1>6 DEF Splits

\* What an accepted command leaves in a block.
LEMMA AcceptedSets ==
  ASSUME SalTypeOK, NEW b \in Scbs, NEW blk, NEW cmd, NEW what,
         Accepted(b, blk, cmd, what)
  PROVE  block'[b] = blk /\ ata'[b] = cmd /\ asked'[b] = what /\ served'[b] = served[b]
BY DEF Accepted, SalTypeOK, BlocksTypeOK

\* The next fragment starts where the last one ended.
LEMMA FragmentNext ==
  ASSUME SalTypeOK, NEW b \in Scbs, Between(b),
         block[b].op \in {"VERIFY6", "VERIFY10"},
         Accepted(b, Advanced(block[b]), Fragment(block[b]), asked[b])
  PROVE  UnderWay(b)'
<1>1. block[b] \in Blocks /\ asked[b] \in Work /\ served[b] \in Work
  BY DEF SalTypeOK, BlocksTypeOK
<1>2. /\ block[b].splitCount \in Nat /\ block[b].sequenceNumber \in Nat
      /\ block[b].lba \in Nat /\ block[b].LowLbaAddress \in Nat
      /\ asked[b].sectors \in Nat /\ served[b].sectors \in Nat
  BY <1>1 DEF Blocks, Work
<1>3. VerifyBetween(b)
  BY DEF Between
<1>4. FragmentSectors(block[b]) = 256
  BY <1>2, <1>3 DEF VerifyBetween, FragmentSectors
<1>5. /\ block'[b] = Advanced(block[b]) /\ ata'[b] = Fragment(block[b])
      /\ asked'[b] = asked[b] /\ served'[b] = served[b]
  BY AcceptedSets
<1>6. /\ block'[b].op = block[b].op /\ block'[b].lba = block[b].lba
      /\ block'[b].splitCount = block[b].splitCount
      /\ block'[b].sequenceNumber = block[b].sequenceNumber + 1
      /\ block'[b].LowLbaAddress = block[b].LowLbaAddress + 256
  BY <1>1, <1>4, <1>5, FragmentTypes
<1>7. /\ ata'[b].kind = "VERIFY" /\ ata'[b].count = 256
      /\ ata'[b].first = block[b].LowLbaAddress % 2^28
  BY <1>1, <1>4, <1>5, FragmentTypes
<1>8. block[b].LowLbaAddress % 2^28 = block[b].LowLbaAddress
  <2>1. block[b].LowLbaAddress < 2^28
    BY <1>2, <1>3 DEF VerifyBetween, Following
  <2>2. QED
    BY <1>2, <2>1
<1>9. 1 <= ata'[b].count /\ ata'[b].count <= CountLimit(ata'[b].kind)
  BY <1>7 DEF CountLimit
<1>10. VerifyUnderWay(b)'
  BY <1>2, <1>3, <1>5, <1>6, <1>7, <1>8, <1>9
     DEF VerifyBetween, VerifyUnderWay, Following
<1>11. QED
  BY <1>6, <1>10 DEF UnderWay

\* The range of a VERIFY that was not answered at once.
LEMMA VerifyInRange ==
  ASSUME SalTypeOK, NEW ch \in Channels, NEW v \in Verifies,
         identifyInfo[ch] # NotReady, Verifiable(ch, v)
  PROVE  /\ v.op \in {"VERIFY6", "VERIFY10"} /\ v.lba \in Nat /\ v.sectors \in Nat
         /\ SectorsOf(v) \in Nat \ {0} /\ Sectors(v) \in Work
         /\ ~identifyInfo[ch].LBA48Supported => v.lba + SectorsOf(v) <= 2^28
<1>1. v.op \in {"VERIFY6", "VERIFY10"} /\ v.lba \in Nat /\ v.sectors \in Nat
  BY SalAssumption
<1>2. SectorsOf(v) \in Nat \ {0}
  BY <1>1 DEF SectorsOf, Verifiable
<1>3. Sectors(v) \in Work
  BY <1>2 DEF Sectors, Work
<1>4. ASSUME ~identifyInfo[ch].LBA48Supported
      PROVE  v.lba + SectorsOf(v) <= 2^28
  <2>1. identifyInfo[ch] \in Features
    BY DEF SalTypeOK, DrivesTypeOK
  <2>2. identifyInfo[ch].LBA48Supported \in BOOLEAN
    BY <2>1 DEF Features
  <2>3. identifyInfo[ch].LBA48Supported = FALSE
    BY <1>4, <2>2, Zenon
  <2>4. /\ ~(DiskSize[FALSE] <= v.lba)
        /\ ~(DiskSize[FALSE] - v.lba < SectorsOf(v))
    BY <2>3, Zenon DEF Verifiable, LBAOutOfRange
  <2>5. DiskSize[FALSE] \in Nat /\ DiskSize[FALSE] <= 2^28
    BY SalAssumption
  <2>6. PICK size \in Nat : size = DiskSize[FALSE]
    BY <2>5, Zenon
  <2>7. ~(size <= v.lba) /\ ~(size - v.lba < SectorsOf(v)) /\ size <= 2^28
    BY <2>4, <2>5, <2>6, Zenon
  <2>8. QED
    BY <1>1, <1>2, <2>7
<1>5. QED
  BY <1>1, <1>2, <1>3, <1>4

\* The block of a split VERIFY, and its first fragment.
SplitBlock(ch, v) ==
  [NewBlock(v.op, ch, v.lba, v.sectors) EXCEPT !.splitCount = SplitCount(v)]

\* Its fields.
LEMMA SplitBlockTypes ==
  ASSUME NEW ch \in Channels, NEW v \in Verifies, SectorsOf(v) # 0
  PROVE  /\ SplitBlock(ch, v) \in Blocks
         /\ SplitBlock(ch, v).op = v.op /\ v.op \in {"VERIFY6", "VERIFY10"}
         /\ SplitBlock(ch, v).bus = ch
         /\ SplitBlock(ch, v).lba = v.lba /\ SplitBlock(ch, v).sectors = v.sectors
         /\ SplitBlock(ch, v).LowLbaAddress = v.lba
         /\ SplitBlock(ch, v).splitCount = SplitCount(v)
         /\ SplitBlock(ch, v).sequenceNumber = 0
         /\ SplitBlock(ch, v).ScsiCommandCompletion = "INVALID_STATUS"
<1>1. v.op \in {"VERIFY6", "VERIFY10"} /\ v.lba \in Nat /\ v.sectors \in Nat
  BY SalAssumption
<1>2. SplitCount(v) \in Nat
  BY SplitCovers
<1>3. "INVALID_STATUS" \in Statuses /\ v.op \in Ops
  BY <1>1 DEF Statuses, Ops
<1>4. QED
  BY <1>1, <1>2, <1>3 DEF SplitBlock, NewBlock, Blocks

\* The first fragment starts at the first sector.
LEMMA FragmentFirst ==
  ASSUME SalTypeOK, NEW b \in Scbs, NEW ch \in Channels, NEW v \in Verifies,
         identifyInfo[ch] # NotReady, Verifiable(ch, v),
         ~identifyInfo[ch].LBA48Supported, served[b] = Nothing,
         Accepted(b, Advanced(SplitBlock(ch, v)), Fragment(SplitBlock(ch, v)), Sectors(v))
  PROVE  UnderWay(b)'
<1> DEFINE blk == SplitBlock(ch, v)
           n   == FragmentSectors(blk)
<1>1. SectorsOf(v) # 0
  BY DEF Verifiable
<1>2. /\ blk \in Blocks /\ blk.op = v.op /\ v.op \in {"VERIFY6", "VERIFY10"}
      /\ blk.bus = ch /\ blk.lba = v.lba /\ blk.sectors = v.sectors
      /\ blk.LowLbaAddress = v.lba /\ blk.splitCount = SplitCount(v)
      /\ blk.sequenceNumber = 0
  BY <1>1, SplitBlockTypes
<1>3. /\ v.lba \in Nat /\ v.sectors \in Nat /\ SectorsOf(v) \in Nat \ {0}
      /\ v.lba + SectorsOf(v) <= 2^28
  BY VerifyInRange
<1> HIDE DEF blk
<1>4. SplitCount(v) \in Nat \ {0} /\ SectorsOf(v) = n + 256 * (SplitCount(v) - 1)
  <2>1. n = IF v.sectors % 256 # 0 THEN v.sectors % 256 ELSE 256
    BY <1>2 DEF FragmentSectors
  <2> HIDE DEF n
  <2>2. QED
    BY <1>1, <2>1, SplitCovers
<1>5. n \in Nat /\ 1 <= n /\ n <= 256
  BY <1>2, FragmentTypes
<1> HIDE DEF n
<1>6. /\ block'[b] = Advanced(blk) /\ ata'[b] = Fragment(blk)
      /\ asked'[b] = Sectors(v) /\ served'[b] = Nothing
  BY AcceptedSets DEF blk
<1>7. /\ ata'[b].kind = "VERIFY" /\ ata'[b].count = n /\ ata'[b].first = v.lba % 2^28
      /\ 1 <= ata'[b].count /\ ata'[b].count <= CountLimit(ata'[b].kind)
  BY <1>2, <1>5, <1>6, FragmentTypes DEF n, CountLimit
<1>8. /\ block'[b].op = v.op /\ block'[b].lba = v.lba
      /\ block'[b].splitCount = SplitCount(v)
      /\ block'[b].sequenceNumber = 1
      /\ block'[b].LowLbaAddress = v.lba + n
  BY <1>2, <1>6, FragmentTypes DEF n
<1>9. v.lba % 2^28 = v.lba
  <2>1. v.lba < 2^28
    BY <1>3
  <2>2. QED
    BY <1>3, <2>1
<1>10. /\ ata'[b].kind = "VERIFY" /\ ata'[b].count = n /\ ata'[b].first = v.lba
       /\ asked'[b].sectors = SectorsOf(v) /\ asked'[b].settings = {}
       /\ served'[b].sectors = 0 /\ served'[b].settings = {}
  BY <1>6, <1>7, <1>9 DEF Sectors, Nothing
<1>11. VerifyUnderWay(b)'
  <2>1. CASE SplitCount(v) = 1
    BY <1>3, <1>4, <1>5, <1>7, <1>8, <1>10, <2>1 DEF VerifyUnderWay
  <2>2. CASE SplitCount(v) # 1
    BY <1>3, <1>4, <1>5, <1>7, <1>8, <1>10, <2>2 DEF VerifyUnderWay, Following
  <2>3. QED
    BY <2>1, <2>2
<1>12. QED
  BY <1>2, <1>8, <1>11 DEF UnderWay

\* The block of a VERIFY EXT.
ExtBlock(ch, v, residue) ==
  [NewBlock(v.op, ch, v.lba, v.sectors) EXCEPT !.splitCount = 1,
                                               !.sequenceNumber = residue]
ExtCommand(v) == [kind |-> "VERIFY_EXT", first |-> v.lba, count |-> SectorsOf(v)]

\* A single READ VERIFY SECTORS EXT is the last: the sequence number left in the
\* memory is not 0.
LEMMA VerifyExtUnderWay ==
  ASSUME SalTypeOK, NEW b \in Scbs, NEW ch \in Channels, NEW v \in Verifies,
         NEW r \in Residues, identifyInfo[ch] # NotReady, Verifiable(ch, v)
  PROVE  /\ ExtBlock(ch, v, r) \in Blocks /\ ExtBlock(ch, v, r).bus = ch
         /\ ExtBlock(ch, v, r).ScsiCommandCompletion = "INVALID_STATUS"
         /\ ExtCommand(v) \in Commands
         /\ (/\ r # 0 /\ served[b] = Nothing
             /\ Accepted(b, ExtBlock(ch, v, r), ExtCommand(v), Sectors(v)))
            => UnderWay(b)'
<1>1. /\ v.op \in {"VERIFY6", "VERIFY10"} /\ v.lba \in Nat /\ v.sectors \in Nat
      /\ SectorsOf(v) \in Nat \ {0} /\ SectorsOf(v) <= 2^16
  <2>1. v.sectors < IF v.op = "VERIFY6" THEN 2^8 ELSE 2^16
    BY SalAssumption
  <2>2. QED
    BY <2>1, VerifyInRange DEF SectorsOf
<1>2. r \in Nat
  BY SalAssumption
<1>3. "INVALID_STATUS" \in Statuses /\ v.op \in Ops
  BY <1>1 DEF Statuses, Ops
<1>4. /\ ExtBlock(ch, v, r) \in Blocks
      /\ ExtBlock(ch, v, r).bus = ch /\ ExtBlock(ch, v, r).op = v.op
      /\ ExtBlock(ch, v, r).lba = v.lba /\ ExtBlock(ch, v, r).splitCount = 1
      /\ ExtBlock(ch, v, r).sequenceNumber = r
      /\ ExtBlock(ch, v, r).ScsiCommandCompletion = "INVALID_STATUS"
  BY <1>1, <1>2, <1>3 DEF ExtBlock, NewBlock, Blocks
<1>5. ExtCommand(v) \in Commands
  BY <1>1 DEF ExtCommand, Commands
<1>6. ASSUME r # 0, served[b] = Nothing,
             Accepted(b, ExtBlock(ch, v, r), ExtCommand(v), Sectors(v))
      PROVE  UnderWay(b)'
  <2>1. /\ block'[b] = ExtBlock(ch, v, r) /\ ata'[b] = ExtCommand(v)
        /\ asked'[b] = Sectors(v) /\ served'[b] = Nothing
    BY <1>6, AcceptedSets
  <2>2. /\ ata'[b].kind = "VERIFY_EXT" /\ ata'[b].first = v.lba
        /\ ata'[b].count = SectorsOf(v) /\ CountLimit(ata'[b].kind) = 2^16
        /\ asked'[b].sectors = SectorsOf(v) /\ asked'[b].settings = {}
        /\ served'[b].sectors = 0 /\ served'[b].settings = {}
    BY <2>1 DEF ExtCommand, CountLimit, Sectors, Nothing
  <2>3. VerifyUnderWay(b)'
    BY <1>1, <1>2, <1>4, <1>6, <2>1, <2>2 DEF VerifyUnderWay
  <2>4. QED
    BY <1>1, <1>4, <2>1, <2>3 DEF UnderWay
<1>7. QED
  BY <1>4, <1>5, <1>6

-----------------------------------------------------------------------------
(* The senders.                                                            *)

\* A block that a sender may take: nobody's, or the first of the list.
Claimable(b) == b \notin old /\ \A c \in Channels : b \notin commandsQueue[c]

\* What every sender keeps.
Moves ==
  /\ BlocksTypeOK' /\ Holders'
  /\ commandsQueue' \in [Channels -> SUBSET Scbs]
  /\ \A c \in Channels : commandsQueue'[c] # {} => identifyInfo[c] # NotReady

\* A new block is nobody's.
LEMMA NewIsClaimable ==
  ASSUME IInv, NEW b \in Scbs \ allocated, pHead' = pHead
  PROVE  Claimable(b) /\ LeavesList({b})
<1>1. \A c \in Channels : b \notin commandsQueue[c]
  BY DEF IInv, Holders
<1>2. b \notin old /\ b \notin Elems(pHead) /\ Once(pHead)
  BY DEF IInv, Holders
<1>3. QED
  BY <1>1, <1>2 DEF Claimable, LeavesList

\* The first block of the list belongs to no queue.
LEMMA FirstIsClaimable ==
  ASSUME IInv, pHead # <<>>, pHead' = Tail(pHead)
  PROVE  /\ Head(pHead) \in Elems(pHead) /\ Head(pHead) \in Scbs
         /\ Claimable(Head(pHead)) /\ LeavesList({Head(pHead)})
         /\ pHead' \in Seq(Scbs)
<1>1. pHead \in Seq(Scbs) /\ Once(pHead)
  BY DEF IInv, SalTypeOK, Holders
<1>2. /\ Tail(pHead) \in Seq(Scbs) /\ Once(Tail(pHead))
      /\ Head(pHead) \in Elems(pHead)
      /\ Elems(Tail(pHead)) = Elems(pHead) \ {Head(pHead)}
  BY <1>1, ListPop
<1>3. Head(pHead) \in allocated /\ Head(pHead) \notin old
  BY <1>2, Zenon DEF IInv, Holders
<1>4. \A c \in Channels : Head(pHead) \notin commandsQueue[c]
  BY <1>2, Zenon DEF IInv, Holders
<1>5. QED
  BY <1>2, <1>3, <1>4 DEF Claimable, LeavesList, IInv, SalTypeOK, BlocksTypeOK

\* A block is answered.
LEMMA AnswerKeeps ==
  ASSUME IInv, NEW b \in Scbs, NEW ch \in Channels, NEW status \in Statuses,
         Claimable(b), LeavesList({b}), Complete({b}, ch, status),
         UNCHANGED commandsQueue
  PROVE  Moves /\ (Progress => Progress')
<1>1. {b} \in SUBSET Scbs
  OBVIOUS
<1>2. SalTypeOK /\ BlocksTypeOK /\ Holders
  BY DEF IInv, SalTypeOK
<1>3. BlocksTypeOK'
  BY <1>1, <1>2, CompleteTypes, Zenon
<1>4. \A c \in Channels : commandsQueue'[c] = commandsQueue[c] \ {b}
  BY DEF Claimable
<1>5. Holders' /\ (Progress => Progress')
  BY <1>1, <1>2, <1>4, CompletionKeeps, Zenon
<1>6. /\ commandsQueue' \in [Channels -> SUBSET Scbs]
      /\ \A c \in Channels : commandsQueue'[c] # {} => identifyInfo[c] # NotReady
  BY DEF IInv, SalTypeOK, Phases
<1>7. QED
  BY <1>3, <1>5, <1>6 DEF Moves

\* A command is queued.
LEMMA AcceptedMoves ==
  ASSUME IInv, NEW b \in Scbs, NEW blk \in Blocks, NEW cmd \in Commands,
         NEW what \in Work, Claimable(b), LeavesList({b}),
         blk.ScsiCommandCompletion = "INVALID_STATUS",
         queueEnabled[blk.bus], Accepted(b, blk, cmd, what)
  PROVE  Moves /\ (Progress /\ UnderWay(b)' => Progress')
<1>1. /\ SalTypeOK /\ BlocksTypeOK /\ Holders
      /\ commandsQueue \in [Channels -> SUBSET Scbs]
  BY DEF IInv, SalTypeOK
<1>2. BlocksTypeOK' /\ commandsQueue' \in [Channels -> SUBSET Scbs]
  BY <1>1, AcceptedTypes, Zenon
<1>3. b \notin old /\ \A c \in Channels : b \notin commandsQueue[c]
  BY DEF Claimable
<1>4. Holders' /\ (Progress /\ UnderWay(b)' => Progress')
  BY <1>1, <1>3, EntryKeeps, Zenon
<1>5. blk.bus \in Channels /\ identifyInfo[blk.bus] # NotReady
  BY DEF IInv, Phases, Blocks
<1>6. \A c \in Channels : commandsQueue'[c] # {} => identifyInfo[c] # NotReady
  BY <1>1, <1>5 DEF Accepted, IInv, Phases
<1>7. QED
  BY <1>2, <1>4, <1>6 DEF Moves

\* QueueOrComplete.
LEMMA SendKeeps ==
  ASSUME IInv, NEW b \in Scbs, NEW blk \in Blocks, NEW cmd \in Commands,
         NEW what \in Work, Claimable(b), LeavesList({b}),
         blk.ScsiCommandCompletion = "INVALID_STATUS",
         QueueOrComplete(b, blk, cmd, what)
  PROVE  Moves /\ (Progress /\ (Accepted(b, blk, cmd, what) => UnderWay(b)') => Progress')
<1>1. blk.bus \in Channels
  BY DEF Blocks
<1>2. PICK result \in QueueResults(blk.bus) :
        IF result = "OK" THEN Accepted(b, blk, cmd, what)
        ELSE Complete({b}, blk.bus, result) /\ UNCHANGED commandsQueue
  BY Zenon DEF QueueOrComplete
<1>3. IF result = "OK" THEN queueEnabled[blk.bus] ELSE result \in Statuses
  BY <1>1, ResultTypes
<1>4. CASE result = "OK"
  BY <1>2, <1>3, <1>4, AcceptedMoves, Zenon
<1>5. CASE result # "OK"
  BY <1>1, <1>2, <1>3, <1>5, AnswerKeeps, Zenon
<1>6. QED
  BY <1>4, <1>5

\* mvScsiAtaSendSplittedVerifyCommand.
LEMMA FragmentKeeps ==
  ASSUME IInv, NEW b \in Scbs, NEW blk \in Blocks, NEW what \in Work,
         Claimable(b), LeavesList({b}),
         blk.op \in {"VERIFY6", "VERIFY10"},
         blk.ScsiCommandCompletion = "INVALID_STATUS",
         SendSplittedVerifyCommand(b, blk, what)
  PROVE  /\ Moves
         /\ /\ Progress
            /\ Accepted(b, Advanced(blk), Fragment(blk), what) => UnderWay(b)'
            => Progress'
<1>1. blk.bus \in Channels
  BY DEF Blocks
<1>2. /\ SalTypeOK /\ BlocksTypeOK /\ Holders
      /\ commandsQueue \in [Channels -> SUBSET Scbs]
  BY DEF IInv, SalTypeOK
<1>3. /\ Advanced(blk) \in Blocks /\ Fragment(blk) \in Commands
      /\ Advanced(blk).op = blk.op /\ Advanced(blk).bus = blk.bus
      /\ Advanced(blk).ScsiCommandCompletion = "INVALID_STATUS"
  BY FragmentTypes
<1>4. PICK result \in QueueResults(blk.bus) :
        IF result = "OK"
        THEN Accepted(b, Advanced(blk), Fragment(blk), what)
        ELSE /\ block' = [block EXCEPT ![b] =
                            [Advanced(blk) EXCEPT !.ScsiCommandCompletion = result]]
             /\ allocated' = allocated \cup {b}
             /\ asked' = [asked EXCEPT ![b] = what]
             /\ UNCHANGED <<queueVars, served, old>>
  BY Zenon DEF SendSplittedVerifyCommand
<1>5. IF result = "OK"
      THEN queueEnabled[blk.bus]
      ELSE result \in {"NOT_READY", "QUEUE_FULL"} /\ result \in Statuses
  BY <1>1, ResultTypes, Zenon
<1>6. CASE result = "OK"
  <2>1. Accepted(b, Advanced(blk), Fragment(blk), what) /\ queueEnabled[Advanced(blk).bus]
    BY <1>3, <1>4, <1>5, <1>6
  <2>2. QED
    BY <1>3, <2>1, AcceptedMoves, Zenon
<1>7. CASE result # "OK"
  <2> DEFINE left == [Advanced(blk) EXCEPT !.ScsiCommandCompletion = result]
  <2>1. /\ block' = [block EXCEPT ![b] = left]
        /\ allocated' = allocated \cup {b}
        /\ asked' = [asked EXCEPT ![b] = what]
        /\ UNCHANGED <<queueVars, served, old>>
    BY <1>4, <1>7, Zenon
  <2>2. left \in Blocks /\ left.op = blk.op /\ left.ScsiCommandCompletion = result
    BY <1>3, <1>5, <1>7 DEF Blocks
  <2> HIDE DEF left
  <2>3. BlocksTypeOK' /\ commandsQueue' = commandsQueue
    BY <1>2, <2>1, <2>2 DEF BlocksTypeOK, queueVars
  <2>4. Drops(b, left)
    BY <1>2, <2>1 DEF Drops, queueVars, BlocksTypeOK
  <2>5. \A c \in Channels : b \notin commandsQueue[c]
    BY DEF Claimable
  <2>6. Holders' /\ (Progress => Progress')
    BY <1>2, <1>5, <1>7, <2>2, <2>4, <2>5, DropKeeps
  <2>7. \A c \in Channels : commandsQueue'[c] # {} => identifyInfo[c] # NotReady
    BY <2>3 DEF IInv, Phases
  <2>8. QED
    BY <1>2, <2>3, <2>6, <2>7 DEF Moves
<1>8. QED
  BY <1>6, <1>7

\* A command of one ATA command.
LEMMA OtherUnderWay ==
  ASSUME SalTypeOK, NEW b \in Scbs, NEW ch \in Channels, served[b] = Nothing,
         Accepted(b, NewBlock("OTHER", ch, 0, 0), NoCommand, Nothing)
  PROVE  UnderWay(b)'
<1>1. /\ block'[b] = NewBlock("OTHER", ch, 0, 0) /\ ata'[b] = NoCommand
      /\ asked'[b] = Nothing /\ served'[b] = Nothing
  BY AcceptedSets
<1>2. QED
  BY <1>1 DEF UnderWay, NewBlock

\* The block of a MODE SELECT.
ModeBlock(ch) ==
  [NewBlock("MODE_SELECT6", ch, 0, 0) EXCEPT
     !.splitCount = Cardinality(Supported(ch)), !.sequenceNumber = 1]
ModeWork(ch) == [sectors |-> 0, settings |-> Supported(ch)]

\* The number of the settings a drive supports.
LEMMA SupportedCounts ==
  ASSUME NEW ch
  PROVE  /\ Supported(ch) \subseteq Settings
         /\ Cardinality(Supported(ch)) \in Nat
         /\ "WCACHE" \in Supported(ch) =>
              \/ Supported(ch) = {"WCACHE"} /\ Cardinality(Supported(ch)) = 1
              \/ Supported(ch) = Settings /\ Cardinality(Supported(ch)) = 2
         /\ "WCACHE" \notin Supported(ch) /\ "RLA" \in Supported(ch) =>
              Supported(ch) = {"RLA"} /\ Cardinality(Supported(ch)) = 1
<1>1. Supported(ch) \subseteq Settings
  BY DEF Supported
<1>2. Settings = {"WCACHE", "RLA"} /\ Settings = {"WCACHE"} \cup {"RLA"}
  BY DEF Settings
<1>3. /\ \A x : Cardinality({x}) = 1
      /\ IsFiniteSet({"WCACHE"}) /\ IsFiniteSet({"RLA"})
  BY FS_Singleton
<1>4. IsFiniteSet(Settings) /\ Cardinality(Settings) = 2
  <2>1. /\ IsFiniteSet({"WCACHE"} \cup {"RLA"})
        /\ Cardinality({"WCACHE"} \cup {"RLA"}) = Cardinality({"WCACHE"}) + 1
    BY <1>3, FS_AddElement
  <2>2. QED
    BY <1>2, <1>3, <2>1
<1>5. IsFiniteSet(Supported(ch))
  BY <1>1, <1>4, FS_Subset
<1>6. Cardinality(Supported(ch)) \in Nat
  BY <1>5, FS_CardinalityType
<1>7. ASSUME "WCACHE" \in Supported(ch)
      PROVE  Supported(ch) = {"WCACHE"} \/ Supported(ch) = Settings
  BY <1>1, <1>2, <1>7
<1>8. ASSUME "WCACHE" \notin Supported(ch), "RLA" \in Supported(ch)
      PROVE  Supported(ch) = {"RLA"}
  BY <1>1, <1>2, <1>8
<1>9. ASSUME "WCACHE" \in Supported(ch)
      PROVE  \/ Supported(ch) = {"WCACHE"} /\ Cardinality(Supported(ch)) = 1
             \/ Supported(ch) = Settings /\ Cardinality(Supported(ch)) = 2
  BY <1>3, <1>4, <1>7, <1>9
<1>10. ASSUME "WCACHE" \notin Supported(ch), "RLA" \in Supported(ch)
       PROVE  Supported(ch) = {"RLA"} /\ Cardinality(Supported(ch)) = 1
  BY <1>3, <1>8, <1>10
<1>11. QED
  BY <1>1, <1>6, <1>9, <1>10

\* The fields of the block of a MODE SELECT.
LEMMA ModeBlockTypes ==
  ASSUME NEW ch \in Channels
  PROVE  /\ ModeBlock(ch) \in Blocks /\ ModeWork(ch) \in Work
         /\ ModeBlock(ch).op = "MODE_SELECT6" /\ ModeBlock(ch).bus = ch
         /\ ModeBlock(ch).splitCount = Cardinality(Supported(ch))
         /\ ModeBlock(ch).sequenceNumber = 1
         /\ ModeBlock(ch).ScsiCommandCompletion = "INVALID_STATUS"
<1>1. Cardinality(Supported(ch)) \in Nat /\ Supported(ch) \subseteq Settings
  BY SupportedCounts
<1>2. "INVALID_STATUS" \in Statuses /\ "MODE_SELECT6" \in Ops
  BY DEF Statuses, Ops
<1>3. ModeWork(ch) \in Work
  BY <1>1 DEF ModeWork, Work
<1>4. QED
  BY <1>1, <1>2, <1>3 DEF ModeBlock, NewBlock, Blocks

\* The write cache is set first.
LEMMA WriteCacheUnderWay ==
  ASSUME SalTypeOK, NEW b \in Scbs, NEW ch \in Channels, served[b] = Nothing,
         "WCACHE" \in Supported(ch),
         Accepted(b, ModeBlock(ch), SetFeatures("WCACHE"), ModeWork(ch))
  PROVE  UnderWay(b)'
<1>1. /\ block'[b] = ModeBlock(ch) /\ ata'[b] = SetFeatures("WCACHE")
      /\ asked'[b] = ModeWork(ch) /\ served'[b] = Nothing
  BY AcceptedSets
<1>2. /\ block'[b].op = "MODE_SELECT6" /\ block'[b].sequenceNumber = 1
      /\ block'[b].splitCount = Cardinality(Supported(ch))
  BY <1>1, ModeBlockTypes
<1>3. /\ ata'[b].kind = "WCACHE" /\ ata'[b].count = 0
      /\ asked'[b].sectors = 0 /\ asked'[b].settings = Supported(ch)
      /\ served'[b].sectors = 0 /\ served'[b].settings = {}
  BY <1>1 DEF SetFeatures, NoCommand, ModeWork, Nothing
<1>4. "WCACHE" \in Settings
  BY DEF Settings
<1>5. ModeUnderWay(b)'
  <2>1. CASE Supported(ch) = {"WCACHE"} /\ Cardinality(Supported(ch)) = 1
    <3>1. {"WCACHE"} = {} \cup {"WCACHE"}
      OBVIOUS
    <3>2. asked'[b].settings = served'[b].settings \cup {ata'[b].kind}
      BY <1>3, <2>1, <3>1
    <3>3. block'[b].splitCount <= block'[b].sequenceNumber
      BY <1>2, <2>1
    <3>4. QED
      BY <1>3, <1>4, <3>2, <3>3 DEF ModeUnderWay
  <2>2. CASE Supported(ch) = Settings /\ Cardinality(Supported(ch)) = 2
    BY <1>2, <1>3, <1>4, <2>2 DEF ModeUnderWay
  <2>3. QED
    BY <2>1, <2>2, SupportedCounts
<1>6. QED
  BY <1>2, <1>5 DEF UnderWay

\* The block as mvScsiAtaSendReadLookAhead leaves it.
RlaBlock(blk) == [blk EXCEPT !.sequenceNumber = @ + 1]

\* Its fields.
LEMMA RlaBlockTypes ==
  ASSUME NEW blk \in Blocks
  PROVE  /\ RlaBlock(blk) \in Blocks /\ RlaBlock(blk).op = blk.op
         /\ RlaBlock(blk).bus = blk.bus /\ RlaBlock(blk).splitCount = blk.splitCount
         /\ RlaBlock(blk).sequenceNumber = blk.sequenceNumber + 1
         /\ RlaBlock(blk).ScsiCommandCompletion = blk.ScsiCommandCompletion
BY DEF RlaBlock, Blocks

\* The read look-ahead is the last setting.
LEMMA LookAheadUnderWay ==
  ASSUME SalTypeOK, NEW b \in Scbs, NEW blk \in Blocks, NEW what \in Work,
         blk.op = "MODE_SELECT6", blk.splitCount <= blk.sequenceNumber + 1,
         what.sectors = 0, served[b].sectors = 0,
         what.settings = served[b].settings \cup {"RLA"},
         Accepted(b, RlaBlock(blk), SetFeatures("RLA"), what)
  PROVE  UnderWay(b)'
<1>1. /\ block'[b] = RlaBlock(blk) /\ ata'[b] = SetFeatures("RLA")
      /\ asked'[b] = what /\ served'[b] = served[b]
  BY AcceptedSets
<1>2. ata'[b].kind = "RLA" /\ ata'[b].count = 0 /\ "RLA" \in Settings
  BY <1>1 DEF SetFeatures, NoCommand, Settings
<1>3. ModeUnderWay(b)'
  BY <1>1, <1>2, RlaBlockTypes DEF ModeUnderWay
<1>4. QED
  BY <1>1, <1>3, RlaBlockTypes DEF UnderWay

-----------------------------------------------------------------------------
(* The steps.                                                              *)

\* What a step of mvSataExecuteScsiCommand leaves alone.
Outside == UNCHANGED <<pHead, context, queueEnabled, identifyInfo>> /\ DrivesTypeOK'

\* A new block, outside the interrupt handler.
LEMMA OutsideKeeps ==
  ASSUME IInv, Outside, Moves
  PROVE  IInv'
<1>1. SalTypeOK'
  BY DEF IInv, SalTypeOK, Outside, Moves
<1>2. Phases'
  BY DEF IInv, Phases, Outside, Moves
<1>3. QED
  BY <1>1, <1>2 DEF IInv, Moves

\* Commands that are answered at once.
LEMMA AnswerSteps ==
  ASSUME IInv, NEW b \in Scbs, NEW ch \in Channels,
         \/ NoDevice(b, ch) \/ ReportUnitAttention(b, ch)
         \/ \E v \in Verifies : VerifyAnswered(b, ch, v)
  PROVE  IInv' /\ (Progress => Progress') /\ allocated \subseteq allocated'
<1>1. b \in Scbs \ allocated /\ pHead' = pHead
  BY DEF NoDevice, ReportUnitAttention, VerifyAnswered, Reaches
<1>2. Outside
  <2>1. CASE ReportUnitAttention(b, ch)
    BY <2>1 DEF ReportUnitAttention, Outside, IInv, SalTypeOK, DrivesTypeOK
  <2>2. CASE NoDevice(b, ch) \/ \E v \in Verifies : VerifyAnswered(b, ch, v)
    BY <2>2 DEF NoDevice, VerifyAnswered, Outside, IInv, SalTypeOK, DrivesTypeOK, driveVars
  <2>3. QED
    BY <2>1, <2>2
<1>3. \E status \in Statuses : Answer(b, ch, status)
  BY DEF NoDevice, ReportUnitAttention, VerifyAnswered, Statuses
<1>4. PICK status \in Statuses : Answer(b, ch, status)
  BY <1>3, Zenon
<1>5. Complete({b}, ch, status) /\ UNCHANGED commandsQueue
  BY <1>4, Zenon DEF Answer
<1>6. Claimable(b) /\ LeavesList({b})
  BY <1>1, NewIsClaimable, Zenon
<1>7. Moves /\ (Progress => Progress')
  BY <1>5, <1>6, AnswerKeeps, Zenon
<1>8. IInv'
  BY <1>2, <1>7, OutsideKeeps, Zenon
<1>9. allocated \subseteq allocated'
  BY <1>1, <1>5 DEF Complete
<1>10. QED
  BY <1>7, <1>8, <1>9, Zenon

\* A sender of a new block that completes a refused command.
LEMMA SendSteps ==
  ASSUME IInv, NEW b \in Scbs, NEW ch \in Channels, NEW blk \in Blocks,
         NEW cmd \in Commands, NEW what \in Work, Reaches(b, ch),
         blk.ScsiCommandCompletion = "INVALID_STATUS",
         QueueOrComplete(b, blk, cmd, what), UNCHANGED <<pHead, driveVars, context>>
  PROVE  /\ IInv' /\ allocated \subseteq allocated'
         /\ Progress => served[b] = Nothing
         /\ Progress /\ (Accepted(b, blk, cmd, what) => UnderWay(b)') => Progress'
<1>1. b \in Scbs \ allocated /\ pHead' = pHead
  BY DEF Reaches
<1>2. Outside
  BY DEF Outside, IInv, SalTypeOK, DrivesTypeOK, driveVars
<1>3. Claimable(b) /\ LeavesList({b})
  BY <1>1, NewIsClaimable, Zenon
<1>4. Moves /\ (Progress /\ (Accepted(b, blk, cmd, what) => UnderWay(b)') => Progress')
  BY <1>3, SendKeeps, Zenon
<1>5. IInv'
  BY <1>2, <1>4, OutsideKeeps, Zenon
<1>6. allocated \subseteq allocated'
  BY <1>1 DEF QueueOrComplete, Accepted, Complete
<1>7. Progress => served[b] = Nothing
  BY <1>1 DEF Progress
<1>8. QED
  BY <1>4, <1>5, <1>6, <1>7, Zenon

\* The first fragment of a VERIFY.
LEMMA SplitStep ==
  ASSUME IInv, NEW b \in Scbs, NEW ch \in Channels, NEW v \in Verifies,
         SendVerifySplit(b, ch, v)
  PROVE  IInv' /\ (Progress => Progress') /\ allocated \subseteq allocated'
<1>1. /\ b \in Scbs \ allocated /\ pHead' = pHead
      /\ identifyInfo[ch] # NotReady /\ Verifiable(ch, v)
      /\ ~identifyInfo[ch].LBA48Supported
  BY DEF SendVerifySplit, Reaches
<1>2. SendSplittedVerifyCommand(b, SplitBlock(ch, v), Sectors(v))
  BY DEF SendVerifySplit, SplitBlock
<1>3. Outside
  BY DEF SendVerifySplit, Outside, IInv, SalTypeOK, DrivesTypeOK, driveVars
<1>4. Claimable(b) /\ LeavesList({b})
  BY <1>1, NewIsClaimable, Zenon
<1>5. SectorsOf(v) # 0
  BY <1>1 DEF Verifiable
<1>6. /\ SplitBlock(ch, v) \in Blocks
      /\ SplitBlock(ch, v).op \in {"VERIFY6", "VERIFY10"} /\ SplitBlock(ch, v).bus = ch
      /\ SplitBlock(ch, v).ScsiCommandCompletion = "INVALID_STATUS"
  BY <1>5, SplitBlockTypes
<1>7. SalTypeOK /\ Sectors(v) \in Work
  BY <1>1, VerifyInRange DEF IInv
<1> DEFINE Sent == Accepted(b, Advanced(SplitBlock(ch, v)), Fragment(SplitBlock(ch, v)),
                            Sectors(v))
<1>8. Moves /\ (Progress /\ (Sent => UnderWay(b)') => Progress')
  BY <1>2, <1>4, <1>6, <1>7, FragmentKeeps, Zenon
<1>9. ASSUME Progress, Sent PROVE UnderWay(b)'
  <2>1. served[b] = Nothing
    BY <1>1, <1>9 DEF Progress
  <2>2. QED
    BY <1>1, <1>7, <1>9, <2>1, FragmentFirst, Zenon
<1>10. IInv'
  BY <1>3, <1>8, OutsideKeeps, Zenon
<1>11. allocated \subseteq allocated'
  BY <1>2 DEF SendSplittedVerifyCommand, Accepted
<1>12. QED
  BY <1>8, <1>9, <1>10, <1>11, Zenon

\* MODE SELECT.
LEMMA ModeStep ==
  ASSUME IInv, NEW b \in Scbs, NEW ch \in Channels, NEW dra, NEW wce,
         ModeSelect(b, ch, dra, wce)
  PROVE  IInv' /\ (Progress => Progress') /\ allocated \subseteq allocated'
<1>1. /\ Reaches(b, ch) /\ UNCHANGED <<pHead, driveVars, context>>
      /\ \/ Answer(b, ch, "BAD_SCSI_COMMAND") \/ Answer(b, ch, "SUCCESS")
         \/ /\ "WCACHE" \in Supported(ch)
            /\ QueueOrComplete(b, ModeBlock(ch), SetFeatures("WCACHE"), ModeWork(ch))
         \/ /\ "WCACHE" \notin Supported(ch) /\ "RLA" \in Supported(ch)
            /\ SendReadLookAhead(b, ModeBlock(ch), ModeWork(ch))
  BY Zenon DEF ModeSelect, ModeBlock, ModeWork
<1>2. /\ ModeBlock(ch) \in Blocks /\ ModeWork(ch) \in Work
      /\ ModeBlock(ch).ScsiCommandCompletion = "INVALID_STATUS"
      /\ SetFeatures("WCACHE") \in Commands /\ SetFeatures("RLA") \in Commands
      /\ SalTypeOK
  BY ModeBlockTypes, CommandTypes DEF Settings, IInv
<1>3. CASE Answer(b, ch, "BAD_SCSI_COMMAND") \/ Answer(b, ch, "SUCCESS")
  <2>1. b \in Scbs \ allocated /\ pHead' = pHead
    BY <1>1 DEF Reaches
  <2>2. Outside
    BY <1>1 DEF Outside, IInv, SalTypeOK, DrivesTypeOK, driveVars
  <2>3. PICK status \in Statuses : Answer(b, ch, status)
    BY <1>3 DEF Statuses
  <2>4. Complete({b}, ch, status) /\ UNCHANGED commandsQueue
    BY <2>3, Zenon DEF Answer
  <2>5. Moves /\ (Progress => Progress')
    BY <2>1, <2>4, NewIsClaimable, AnswerKeeps, Zenon
  <2>6. allocated \subseteq allocated'
    BY <2>1, <2>4 DEF Complete
  <2>7. QED
    BY <2>2, <2>5, <2>6, OutsideKeeps, Zenon
<1>4. CASE /\ "WCACHE" \in Supported(ch)
           /\ QueueOrComplete(b, ModeBlock(ch), SetFeatures("WCACHE"), ModeWork(ch))
  <2>1. /\ IInv' /\ allocated \subseteq allocated'
        /\ Progress => served[b] = Nothing
        /\ /\ Progress
           /\ Accepted(b, ModeBlock(ch), SetFeatures("WCACHE"), ModeWork(ch)) => UnderWay(b)'
           => Progress'
    BY <1>1, <1>2, <1>4, SendSteps, Zenon
  <2>2. ASSUME Progress, Accepted(b, ModeBlock(ch), SetFeatures("WCACHE"), ModeWork(ch))
        PROVE  UnderWay(b)'
    BY <1>2, <1>4, <2>1, <2>2, WriteCacheUnderWay, Zenon
  <2>3. QED
    BY <2>1, <2>2, Zenon
<1>5. CASE /\ "WCACHE" \notin Supported(ch) /\ "RLA" \in Supported(ch)
           /\ SendReadLookAhead(b, ModeBlock(ch), ModeWork(ch))
  <2> DEFINE blk == RlaBlock(ModeBlock(ch))
  <2>1. QueueOrComplete(b, blk, SetFeatures("RLA"), ModeWork(ch))
    BY <1>5, Zenon DEF SendReadLookAhead, RlaBlock
  <2>2. blk \in Blocks /\ blk.ScsiCommandCompletion = "INVALID_STATUS"
    BY <1>2, RlaBlockTypes
  <2> HIDE DEF blk
  <2>3. /\ IInv' /\ allocated \subseteq allocated'
        /\ Progress => served[b] = Nothing
        /\ Progress /\ (Accepted(b, blk, SetFeatures("RLA"), ModeWork(ch)) => UnderWay(b)')
           => Progress'
    BY <1>1, <1>2, <2>1, <2>2, SendSteps, Zenon
  <2>4. ASSUME Progress, Accepted(b, blk, SetFeatures("RLA"), ModeWork(ch))
        PROVE  UnderWay(b)'
    <3>1. served[b].sectors = 0 /\ served[b].settings = {}
      BY <2>3, <2>4 DEF Nothing
    <3>2. ModeWork(ch).sectors = 0 /\ ModeWork(ch).settings = {"RLA"}
      BY <1>5, SupportedCounts DEF ModeWork
    <3>3. /\ ModeBlock(ch).op = "MODE_SELECT6"
          /\ ModeBlock(ch).splitCount <= ModeBlock(ch).sequenceNumber + 1
      BY <1>5, ModeBlockTypes, SupportedCounts
    <3>4. ModeWork(ch).settings = served[b].settings \cup {"RLA"}
      BY <3>1, <3>2
    <3>5. Accepted(b, RlaBlock(ModeBlock(ch)), SetFeatures("RLA"), ModeWork(ch))
      BY <2>4 DEF blk
    <3>6. QED
      BY <1>2, <3>1, <3>2, <3>3, <3>4, <3>5, LookAheadUnderWay, Zenon
  <2>5. QED
    BY <2>3, <2>4, Zenon
<1>6. QED
  BY <1>1, <1>3, <1>4, <1>5, Zenon

\* mvSataExecuteScsiCommand.  Only VERIFY EXT looks at what kmalloc left.
LEMMA ExecuteStep ==
  ASSUME IInv, NEW b \in Scbs, NEW ch \in Channels, mvSataExecuteScsiCommand(b, ch)
  PROVE  /\ IInv' /\ allocated \subseteq allocated'
         /\ 0 \notin Residues /\ Progress => Progress'
<1>1. CASE \/ NoDevice(b, ch) \/ ReportUnitAttention(b, ch)
           \/ \E v \in Verifies : VerifyAnswered(b, ch, v)
  BY <1>1, AnswerSteps, Zenon
<1>2. CASE SendOther(b, ch)
  <2> DEFINE blk == NewBlock("OTHER", ch, 0, 0)
  <2>1. /\ Reaches(b, ch) /\ QueueOrComplete(b, blk, NoCommand, Nothing)
        /\ UNCHANGED <<pHead, driveVars, context>>
    BY <1>2, Zenon DEF SendOther
  <2>2. blk.ScsiCommandCompletion = "INVALID_STATUS"
    BY DEF NewBlock
  <2>3. blk \in Blocks
    BY BlockTypes DEF Ops, Statuses
  <2>4. SalTypeOK
    BY DEF IInv
  <2> HIDE DEF blk
  <2>5. /\ IInv' /\ allocated \subseteq allocated'
        /\ Progress => served[b] = Nothing
        /\ Progress /\ (Accepted(b, blk, NoCommand, Nothing) => UnderWay(b)') => Progress'
    BY <2>1, <2>2, <2>3, CommandTypes, SendSteps, Zenon
  <2>6. ASSUME Progress, Accepted(b, blk, NoCommand, Nothing) PROVE UnderWay(b)'
    BY <2>4, <2>5, <2>6, OtherUnderWay, Zenon DEF blk
  <2>7. QED
    BY <2>5, <2>6, Zenon
<1>3. CASE \E v \in Verifies : SendVerifySplit(b, ch, v)
  BY <1>3, SplitStep, Zenon
<1>4. ASSUME NEW v \in Verifies, NEW r \in Residues, SendVerifyExt(b, ch, v, r)
      PROVE  /\ IInv' /\ allocated \subseteq allocated'
             /\ 0 \notin Residues /\ Progress => Progress'
  <2> DEFINE blk == ExtBlock(ch, v, r)
             cmd == ExtCommand(v)
  <2>1. /\ Reaches(b, ch) /\ QueueOrComplete(b, blk, cmd, Sectors(v))
        /\ UNCHANGED <<pHead, driveVars, context>> /\ Verifiable(ch, v)
    BY <1>4, Zenon DEF SendVerifyExt, ExtBlock, ExtCommand
  <2>2. SalTypeOK /\ identifyInfo[ch] # NotReady
    BY <2>1 DEF IInv, Reaches
  <2> HIDE DEF blk, cmd
  <2>3. /\ blk \in Blocks /\ blk.ScsiCommandCompletion = "INVALID_STATUS"
        /\ cmd \in Commands
        /\ r # 0 /\ served[b] = Nothing /\ Accepted(b, blk, cmd, Sectors(v))
           => UnderWay(b)'
    BY <2>1, <2>2, VerifyExtUnderWay, Zenon DEF blk, cmd
  <2>4. Sectors(v) \in Work
    BY <2>1, <2>2, VerifyInRange, Zenon
  <2>5. /\ IInv' /\ allocated \subseteq allocated'
        /\ Progress => served[b] = Nothing
        /\ Progress /\ (Accepted(b, blk, cmd, Sectors(v)) => UnderWay(b)') => Progress'
    BY <2>1, <2>3, <2>4, SendSteps, Zenon
  <2>6. 0 \notin Residues => r # 0
    OBVIOUS
  <2>7. QED
    BY <2>3, <2>5, <2>6, Zenon
<1>5. CASE \E dra, wce \in BOOLEAN : ModeSelect(b, ch, dra, wce)
  BY <1>5, ModeStep, Zenon
<1>6. QED
  BY <1>1, <1>2, <1>3, <1>4, <1>5, Zenon DEF mvSataExecuteScsiCommand

\* What a step that completes allocated blocks owes their SCSI commands.
Honest == \A b \in allocated \ allocated' :
            block'[b].ScsiCommandCompletion = "SUCCESS" => Served(b) = asked[b]

\* No success is reported with another status.
LEMMA CompletesOtherwise ==
  ASSUME SalTypeOK, NEW set, NEW ch, NEW status, status # "SUCCESS",
         Complete(set, ch, status)
  PROVE  Honest
<1>1. \A b \in set \cap Scbs : block'[b].ScsiCommandCompletion = status
  BY DEF Complete, Freed, NewBlock
<1>2. allocated \ allocated' \subseteq set \cap Scbs
  BY DEF Complete, SalTypeOK, BlocksTypeOK
<1>3. QED
  BY <1>1, <1>2 DEF Honest

\* A command leaves the queue: what the interrupt routine may do to the phases.
LEMMA IsrPhases ==
  ASSUME IInv, NEW b \in Scbs, b \in commandsQueue[block[b].bus],
         commandsQueue' = [commandsQueue EXCEPT ![block[b].bus] = @ \ {b}],
         context \in {"none", "isr"}, context' = "isr", UNCHANGED driveVars
  PROVE  /\ block[b].bus \in Channels
         /\ commandsQueue' \in [Channels -> SUBSET Scbs]
         /\ \A c \in Channels : commandsQueue'[c] = commandsQueue[c] \ {b}
         /\ DrivesTypeOK' /\ Phases'
<1>1. block[b].bus \in Channels /\ commandsQueue \in [Channels -> SUBSET Scbs]
  BY DEF IInv, SalTypeOK, BlocksTypeOK, Blocks
<1>2. \A c \in Channels : b \in commandsQueue[c] => block[b].bus = c
  BY DEF IInv, Holders
<1>3. \A c \in Channels : commandsQueue'[c] = commandsQueue[c] \ {b}
  BY <1>1, <1>2
<1>4. commandsQueue' \in [Channels -> SUBSET Scbs]
  BY <1>1
<1>5. DrivesTypeOK'
  BY DEF IInv, SalTypeOK, DrivesTypeOK, driveVars
<1>6. Phases'
  BY <1>1, <1>3 DEF IInv, Phases, driveVars
<1>7. QED
  BY <1>1, <1>3, <1>4, <1>5, <1>6

\* The interrupt routine completes a command of the queue.
LEMMA CompletionStep ==
  ASSUME IInv, NEW b \in Scbs, NEW status \in Statuses,
         b \in commandsQueue[block[b].bus],
         commandsQueue' = [commandsQueue EXCEPT ![block[b].bus] = @ \ {b}],
         context \in {"none", "isr"}, context' = "isr",
         Complete({b}, block[b].bus, status), UNCHANGED <<pHead, driveVars>>
  PROVE  IInv' /\ (Progress => Progress')
<1>1. UNCHANGED driveVars /\ UNCHANGED pHead
  OBVIOUS
<1>2. /\ block[b].bus \in Channels
      /\ commandsQueue' \in [Channels -> SUBSET Scbs]
      /\ \A c \in Channels : commandsQueue'[c] = commandsQueue[c] \ {b}
      /\ DrivesTypeOK' /\ Phases'
  BY <1>1, IsrPhases, Zenon
<1>3. SalTypeOK /\ BlocksTypeOK /\ Holders /\ {b} \in SUBSET Scbs
  BY DEF IInv, SalTypeOK
<1>4. LeavesList({b})
  <2>1. b \notin Elems(pHead) /\ Once(pHead)
    BY <1>2 DEF IInv, Holders
  <2>2. QED
    BY <1>1, <2>1 DEF LeavesList
<1>5. BlocksTypeOK'
  BY <1>2, <1>3, CompleteTypes, Zenon
<1>6. Holders' /\ (Progress => Progress')
  BY <1>2, <1>3, <1>4, CompletionKeeps, Zenon
<1>7. SalTypeOK'
  BY <1>1, <1>2, <1>3, <1>5 DEF SalTypeOK
<1>8. QED
  BY <1>2, <1>6, <1>7, Zenon DEF IInv

\* CommandDone: the block is completed or listed.
LEMMA DoneStep ==
  ASSUME IInv, NEW b \in Scbs, CommandDone(b)
  PROVE  IInv' /\ (Progress => Progress' /\ Honest)
<1>1. /\ context \in {"none", "isr"} /\ context' = "isr"
      /\ b \in commandsQueue[block[b].bus]
      /\ commandsQueue' = [commandsQueue EXCEPT ![block[b].bus] = @ \ {b}]
      /\ NormalCompletion(b) /\ UNCHANGED driveVars
  BY Zenon DEF CommandDone
<1>2. SalTypeOK /\ Holders
  BY DEF IInv
<1>3. /\ block[b].bus \in Channels
      /\ commandsQueue' \in [Channels -> SUBSET Scbs]
      /\ DrivesTypeOK' /\ Phases'
  BY <1>1, IsrPhases, Zenon
<1>4. Progress => UnderWay(b)
  BY <1>1, <1>3 DEF Progress
<1>5. CASE HasMore(b)
  <2>1. /\ pHead' = <<b>> \o pHead
        /\ served' = [served EXCEPT ![b] = Served(b)]
        /\ UNCHANGED <<block, allocated, ata, asked, old>>
    BY <1>1, <1>5, Zenon DEF NormalCompletion
  <2>2. /\ Holders' /\ pHead' \in Seq(Scbs)
        /\ Progress /\ Between(b)' => Progress'
    BY <1>1, <1>2, <1>5, <2>1, ListingKeeps, Zenon
  <2>3. Progress => Between(b)'
    BY <1>2, <1>4, <1>5, <2>1, FragmentDone
  <2>4. Served(b) \in Work
    <3>1. served[b] \in Work /\ ata[b] \in Commands
      BY <1>2 DEF SalTypeOK, BlocksTypeOK
    <3>2. /\ served[b].sectors \in Nat /\ served[b].settings \in SUBSET Settings
          /\ ata[b].count \in Nat
      BY <3>1 DEF Work, Commands
    <3>3. QED
      BY <3>2 DEF Served, Work
  <2>5. BlocksTypeOK'
    BY <1>2, <2>1, <2>4 DEF SalTypeOK, BlocksTypeOK
  <2>6. SalTypeOK'
    BY <1>1, <1>3, <2>2, <2>5 DEF SalTypeOK
  <2>7. Honest
    BY <2>1 DEF Honest
  <2>8. QED
    BY <1>3, <2>2, <2>3, <2>6, <2>7, Zenon DEF IInv
<1>6. CASE ~HasMore(b)
  <2>1. Complete({b}, block[b].bus, "SUCCESS") /\ UNCHANGED pHead
    BY <1>1, <1>6, Zenon DEF NormalCompletion
  <2>2. UNCHANGED <<pHead, driveVars>> /\ "SUCCESS" \in Statuses
    BY <1>1, <2>1 DEF Statuses
  <2>3. IInv' /\ (Progress => Progress')
    BY <1>1, <2>1, <2>2, CompletionStep, Zenon
  <2>4. Progress => Served(b) = asked[b]
    BY <1>2, <1>4, <1>6, LastCompletes, Zenon
  <2>5. allocated \ allocated' \subseteq {b}
    BY <2>1 DEF Complete
  <2>6. QED
    BY <2>3, <2>4, <2>5 DEF Honest
<1>7. QED
  BY <1>5, <1>6

\* CommandFails.
LEMMA FailsStep ==
  ASSUME IInv, NEW b \in Scbs, CommandFails(b)
  PROVE  IInv' /\ (Progress => Progress') /\ Honest
<1>1. /\ context \in {"none", "isr"} /\ context' = "isr"
      /\ b \in commandsQueue[block[b].bus]
      /\ commandsQueue' = [commandsQueue EXCEPT ![block[b].bus] = @ \ {b}]
      /\ Complete({b}, block[b].bus, "ATA_FAILED") /\ UNCHANGED <<pHead, driveVars>>
  BY Zenon DEF CommandFails
<1>2. "ATA_FAILED" \in Statuses /\ "ATA_FAILED" # "SUCCESS" /\ SalTypeOK
  BY DEF Statuses, IInv
<1>3. IInv' /\ (Progress => Progress')
  BY <1>1, <1>2, CompletionStep, Zenon
<1>4. Honest
  BY <1>1, <1>2, CompletesOtherwise, Zenon
<1>5. QED
  BY <1>3, <1>4

\* A channel goes: its queue is disabled and flushed.
LEMMA FlushStep ==
  ASSUME IInv, NEW ch \in Channels, ChannelGoes(ch)
  PROVE  IInv' /\ (Progress => Progress') /\ Honest
<1> DEFINE set == commandsQueue[ch]
<1>1. /\ Complete(set, ch, "ABORTED")
      /\ commandsQueue' = [commandsQueue EXCEPT ![ch] = {}]
      /\ queueEnabled' = [queueEnabled EXCEPT ![ch] = FALSE]
      /\ UNCHANGED <<pHead, UAEvents, UAConditionPending>>
      /\ identifyInfo' = [identifyInfo EXCEPT ![ch] = NotReady]
      /\ \/ context = "none" /\ context' = "none"
         \/ context' = "isr"
  BY DEF ChannelGoes, DisableQueue, FlushQueue
<1>2. /\ SalTypeOK /\ BlocksTypeOK /\ Holders
      /\ commandsQueue \in [Channels -> SUBSET Scbs] /\ set \in SUBSET Scbs
  BY DEF IInv, SalTypeOK
<1>3. \A c \in Channels : commandsQueue'[c] = commandsQueue[c] \ set
  <2>1. ASSUME NEW c \in Channels, c # ch PROVE commandsQueue[c] \cap set = {}
    BY <2>1 DEF IInv, Holders
  <2>2. QED
    BY <1>1, <1>2, <2>1
<1>4. LeavesList(set)
  <2>1. \A b \in set : b \notin Elems(pHead)
    BY DEF IInv, Holders
  <2>2. QED
    BY <1>1, <1>2, <2>1 DEF LeavesList, Holders
<1>5. "ABORTED" \in Statuses /\ "ABORTED" # "SUCCESS"
  BY DEF Statuses
<1> HIDE DEF set
<1>6. BlocksTypeOK'
  BY <1>1, <1>2, <1>5, CompleteTypes, Zenon
<1>7. Holders' /\ (Progress => Progress')
  BY <1>1, <1>2, <1>3, <1>4, CompletionKeeps, Zenon
<1>8. Honest
  BY <1>1, <1>2, <1>5, CompletesOtherwise, Zenon
<1>9. SalTypeOK'
  <2>1. DrivesTypeOK'
    BY <1>1, <1>2 DEF SalTypeOK, DrivesTypeOK
  <2>2. /\ pHead' \in Seq(Scbs) /\ context' \in {"none", "isr", "post"}
        /\ commandsQueue' \in [Channels -> SUBSET Scbs]
    BY <1>1, <1>2 DEF SalTypeOK
  <2>3. QED
    BY <1>6, <2>1, <2>2 DEF SalTypeOK
<1>10. Phases'
  <2>1. /\ context' = "none" => pHead' = <<>>
        /\ context' = "post" => pHead' # <<>>
    BY <1>1 DEF IInv, Phases
  <2>2. ASSUME NEW c \in Channels
        PROVE  /\ queueEnabled'[c] => identifyInfo'[c] # NotReady
               /\ commandsQueue'[c] # {} => identifyInfo'[c] # NotReady
    <3>1. CASE c = ch
      BY <1>1, <1>2, <3>1 DEF SalTypeOK, DrivesTypeOK
    <3>2. CASE c # ch
      BY <1>1, <1>2, <3>2 DEF SalTypeOK, DrivesTypeOK, IInv, Phases
    <3>3. QED
      BY <3>1, <3>2
  <2>3. QED
    BY <2>1, <2>2, Zenon DEF Phases
<1>11. QED
  BY <1>7, <1>8, <1>9, <1>10, Zenon DEF IInv

\* DriveReady: the commands that become old are dropped ones.
LEMMA ReadyStep ==
  ASSUME IInv, NEW ch \in Channels, NEW f \in Features, DriveReady(ch, f)
  PROVE  IInv' /\ (Progress => Progress') /\ Honest
<1>1. /\ context = "none" /\ identifyInfo[ch] = NotReady
      /\ identifyInfo' = [identifyInfo EXCEPT ![ch] = f]
      /\ UAEvents' = [UAEvents EXCEPT ![ch] = {"RESET", "PARAMS_CHANGED"}]
      /\ UAConditionPending' = [UAConditionPending EXCEPT ![ch] = TRUE]
      /\ queueEnabled' = [queueEnabled EXCEPT ![ch] = TRUE]
      /\ old' = old \cup {b \in allocated : block[b].bus = ch}
      /\ UNCHANGED <<block, allocated, pHead, commandsQueue, ata, context, asked, served>>
  BY DEF DriveReady, queueVars
<1>2. Elems(pHead) = {}
  BY <1>1, EmptySeq DEF IInv, Phases, Elems
<1>3. commandsQueue[ch] = {}
  BY <1>1 DEF IInv, Phases
<1>4. f # NotReady
  <2>1. "LBA48Supported" \in DOMAIN f
    BY DEF Features
  <2>2. "LBA48Supported" \notin DOMAIN NotReady
    BY DEF NotReady
  <2>3. QED
    BY <2>1, <2>2, Zenon
<1>5. SalTypeOK'
  <2>1. BlocksTypeOK'
    BY <1>1 DEF IInv, SalTypeOK, BlocksTypeOK
  <2>2. DrivesTypeOK'
    BY <1>1 DEF IInv, SalTypeOK, DrivesTypeOK
  <2>3. QED
    BY <1>1, <2>1, <2>2 DEF IInv, SalTypeOK
<1>6. Holders'
  <2>1. \A b : /\ Unanswered(b)' <=> Unanswered(b)
               /\ Splits(b)' <=> Splits(b)
               /\ Dropped(b)' <=> Dropped(b)
    BY <1>1 DEF Unanswered, Splits, Dropped
  <2>2. ASSUME NEW c \in Channels, NEW b \in commandsQueue'[c]
        PROVE  /\ b \in allocated' /\ b \notin Elems(pHead') /\ b \notin old'
               /\ block'[b].bus = c /\ Unanswered(b)'
    <3>1. /\ b \in allocated /\ b \notin Elems(pHead) /\ b \notin old
          /\ block[b].bus = c /\ Unanswered(b) /\ c # ch
      BY <1>1, <1>3 DEF IInv, Holders
    <3>2. QED
      BY <1>1, <2>1, <3>1
  <2>3. QED
    BY <1>1, <1>2, <2>1, <2>2 DEF IInv, Holders
<1>7. Phases'
  <2>1. ASSUME NEW c \in Channels
        PROVE  /\ queueEnabled'[c] => identifyInfo'[c] # NotReady
               /\ commandsQueue'[c] # {} => identifyInfo'[c] # NotReady
    <3>1. CASE c = ch
      BY <1>1, <1>3, <1>4, <3>1 DEF IInv, SalTypeOK, DrivesTypeOK
    <3>2. CASE c # ch
      BY <1>1, <3>2 DEF IInv, SalTypeOK, DrivesTypeOK, Phases
    <3>3. QED
      BY <3>1, <3>2
  <2>2. /\ context' = "none" => pHead' = <<>>
        /\ context' = "post" => pHead' # <<>>
    BY <1>1 DEF IInv, Phases
  <2>3. QED
    BY <2>1, <2>2, Zenon DEF Phases
<1>8. Progress => Progress'
  <2>1. \A b : Kept(b)
    BY <1>1 DEF Kept
  <2>2. \A b : (UnderWay(b)' <=> UnderWay(b)) /\ (Between(b)' <=> Between(b))
    BY <2>1, KeptProgress, Zenon
  <2>3. QED
    BY <1>1, <2>2 DEF Progress
<1>9. Honest
  BY <1>1 DEF Honest
<1>10. QED
  BY <1>5, <1>6, <1>7, <1>8, <1>9, Zenon DEF IInv

\* Steps that move no block: a queue is disabled with what it holds, the routine
\* returns, or nothing happens.
LEMMA QuietStep ==
  ASSUME IInv,
         (\E ch \in Channels : QueueDisabled(ch)) \/ IsrReturns \/ UNCHANGED vars
  PROVE  IInv' /\ (Progress => Progress') /\ Honest
<1>1. /\ UNCHANGED <<block, allocated, pHead, commandsQueue, ata, old, asked, served>>
      /\ UNCHANGED <<identifyInfo, UAEvents, UAConditionPending>>
      /\ queueEnabled' \in [Channels -> BOOLEAN]
      /\ \A c \in Channels : queueEnabled'[c] => queueEnabled[c]
      /\ \/ context' = context \/ context' = "isr"
         \/ context' = "none" /\ pHead = <<>>
         \/ context' = "post" /\ pHead # <<>>
  <2>1. queueEnabled \in [Channels -> BOOLEAN]
    BY DEF IInv, SalTypeOK, DrivesTypeOK
  <2>2. CASE IsrReturns \/ UNCHANGED vars
    BY <2>1, <2>2 DEF IsrReturns, vars, queueVars, driveVars, histVars
  <2>3. CASE \E ch \in Channels : QueueDisabled(ch)
    BY <2>1, <2>3 DEF QueueDisabled, DisableQueue, queueVars, histVars
  <2>4. QED
    BY <2>2, <2>3
<1>2. SalTypeOK'
  <2>1. BlocksTypeOK'
    BY <1>1 DEF IInv, SalTypeOK, BlocksTypeOK
  <2>2. DrivesTypeOK'
    BY <1>1 DEF IInv, SalTypeOK, DrivesTypeOK
  <2>3. QED
    BY <1>1, <2>1, <2>2 DEF IInv, SalTypeOK
<1>3. Holders'
  <2>1. \A b : /\ Unanswered(b)' <=> Unanswered(b)
               /\ Splits(b)' <=> Splits(b)
               /\ Dropped(b)' <=> Dropped(b)
    BY <1>1 DEF Unanswered, Splits, Dropped
  <2>2. QED
    BY <1>1, <2>1 DEF IInv, Holders
<1>4. Phases'
  BY <1>1 DEF IInv, Phases
<1>5. Progress => Progress'
  <2>1. \A b : Kept(b)
    BY <1>1 DEF Kept
  <2>2. \A b : (UnderWay(b)' <=> UnderWay(b)) /\ (Between(b)' <=> Between(b))
    BY <2>1, KeptProgress, Zenon
  <2>3. QED
    BY <1>1, <2>2 DEF Progress
<1>6. Honest
  BY <1>1 DEF Honest
<1>7. QED
  BY <1>2, <1>3, <1>4, <1>5, <1>6, Zenon DEF IInv

\* mvSataScsiPostIntService sends the next ATA command of the first block.
LEMMA PostIntStep ==
  ASSUME IInv, PostIntService
  PROVE  IInv' /\ (Progress => Progress') /\ Honest
<1>0. PICK b : b = Head(pHead)
  OBVIOUS
<1>1. /\ context = "post" /\ pHead' = Tail(pHead) /\ UNCHANGED driveVars
      /\ context' = IF Tail(pHead) = <<>> THEN "none" ELSE "post"
      /\ IF block[b].op = "MODE_SELECT6"
         THEN SendReadLookAhead(b, block[b], asked[b])
         ELSE SendSplittedVerifyCommand(b, block[b], asked[b])
  BY <1>0, Zenon DEF PostIntService
<1>2. pHead # <<>>
  BY <1>1 DEF IInv, Phases
<1>3. /\ b \in Elems(pHead) /\ b \in Scbs /\ Claimable(b) /\ LeavesList({b})
      /\ pHead' \in Seq(Scbs)
  BY <1>0, <1>1, <1>2, FirstIsClaimable, Zenon
<1>4. SalTypeOK /\ block[b] \in Blocks /\ asked[b] \in Work /\ served[b] \in Work
  BY <1>3 DEF IInv, SalTypeOK, BlocksTypeOK
<1>5. Splits(b) /\ block[b].ScsiCommandCompletion = "INVALID_STATUS"
  BY <1>3 DEF IInv, Holders, Unanswered
<1>6. Progress => Between(b)
  BY <1>3, Zenon DEF Progress
<1>7. Moves /\ (Progress => Progress') /\ Honest
  <2>1. CASE block[b].op = "MODE_SELECT6"
    <3> DEFINE blk == RlaBlock(block[b])
    <3>1. QueueOrComplete(b, blk, SetFeatures("RLA"), asked[b])
      BY <1>1, <2>1, Zenon DEF SendReadLookAhead, RlaBlock
    <3>2. /\ blk \in Blocks /\ blk.bus \in Channels
          /\ blk.ScsiCommandCompletion = "INVALID_STATUS"
      BY <1>4, <1>5, RlaBlockTypes DEF Blocks
    <3>3. SetFeatures("RLA") \in Commands
      BY CommandTypes DEF Settings
    <3> HIDE DEF blk
    <3>4. /\ Moves
          /\ Progress /\ (Accepted(b, blk, SetFeatures("RLA"), asked[b]) => UnderWay(b)')
             => Progress'
      BY <1>3, <1>4, <3>1, <3>2, <3>3, SendKeeps, Zenon
    <3>5. ASSUME Progress, Accepted(b, blk, SetFeatures("RLA"), asked[b])
          PROVE  UnderWay(b)'
      <4>1. ModeBetween(b)
        BY <1>6, <2>1, <3>5 DEF Between
      <4>2. /\ block[b].splitCount <= block[b].sequenceNumber + 1
            /\ asked[b].sectors = 0 /\ served[b].sectors = 0
        BY <4>1 DEF ModeBetween
      <4>3. asked[b].settings = served[b].settings \cup {"RLA"}
        BY <4>1 DEF ModeBetween, Settings
      <4>4. Accepted(b, RlaBlock(block[b]), SetFeatures("RLA"), asked[b])
        BY <3>5 DEF blk
      <4>5. QED
        BY <1>3, <1>4, <2>1, <4>2, <4>3, <4>4, LookAheadUnderWay, Zenon
    <3>6. Honest
      <4>1. PICK result \in QueueResults(blk.bus) :
              IF result = "OK" THEN Accepted(b, blk, SetFeatures("RLA"), asked[b])
              ELSE Complete({b}, blk.bus, result) /\ UNCHANGED commandsQueue
        BY <3>1, Zenon DEF QueueOrComplete
      <4>2. CASE result = "OK"
        BY <4>1, <4>2 DEF Accepted, Honest
      <4>3. CASE result # "OK"
        <5>1. result # "SUCCESS"
          BY <3>2, <4>3, ResultTypes
        <5>2. QED
          BY <1>4, <4>1, <4>3, <5>1, CompletesOtherwise, Zenon
      <4>4. QED
        BY <4>2, <4>3
    <3>7. QED
      BY <3>4, <3>5, <3>6, Zenon
  <2>2. CASE block[b].op # "MODE_SELECT6"
    <3>1. SendSplittedVerifyCommand(b, block[b], asked[b])
      BY <1>1, <2>2, Zenon
    <3>2. block[b].op \in {"VERIFY6", "VERIFY10"}
      BY <1>5, <2>2 DEF Splits
    <3> DEFINE Sent == Accepted(b, Advanced(block[b]), Fragment(block[b]), asked[b])
    <3>3. Moves /\ (Progress /\ (Sent => UnderWay(b)') => Progress')
      BY <1>3, <1>4, <1>5, <3>1, <3>2, FragmentKeeps, Zenon
    <3>4. ASSUME Progress, Sent PROVE UnderWay(b)'
      BY <1>3, <1>4, <1>6, <3>2, <3>4, FragmentNext, Zenon
    <3>5. Honest
      BY <3>1 DEF SendSplittedVerifyCommand, Accepted, Honest
    <3>6. QED
      BY <3>3, <3>4, <3>5, Zenon
  <2>3. QED
    BY <2>1, <2>2
<1>8. SalTypeOK'
  <2>1. DrivesTypeOK'
    BY <1>1 DEF IInv, SalTypeOK, DrivesTypeOK, driveVars
  <2>2. QED
    BY <1>1, <1>3, <1>7, <2>1 DEF SalTypeOK, Moves
<1>9. Phases'
  BY <1>1, <1>7 DEF IInv, Phases, Moves, driveVars
<1>10. QED
  BY <1>7, <1>8, <1>9 DEF IInv, Moves

\* Every step.
LEMMA StepKeeps ==
  ASSUME IInv, [Next]_vars
  PROVE  /\ IInv'
         /\ 0 \notin Residues /\ Progress => Progress' /\ Honest
<1>1. ASSUME NEW b \in Scbs, NEW ch \in Channels, mvSataExecuteScsiCommand(b, ch)
      PROVE  IInv' /\ (0 \notin Residues /\ Progress => Progress' /\ Honest)
  <2>1. /\ IInv' /\ allocated \subseteq allocated'
        /\ 0 \notin Residues /\ Progress => Progress'
    BY <1>1, ExecuteStep, Zenon
  <2>2. Honest
    BY <2>1 DEF Honest
  <2>3. QED
    BY <2>1, <2>2, Zenon
<1>2. ASSUME NEW b \in Scbs, CommandDone(b) \/ CommandFails(b)
      PROVE  IInv' /\ (Progress => Progress' /\ Honest)
  BY <1>2, DoneStep, FailsStep, Zenon
<1>3. ASSUME NEW ch \in Channels,
             ChannelGoes(ch) \/ \E f \in Features : DriveReady(ch, f)
      PROVE  IInv' /\ (Progress => Progress' /\ Honest)
  BY <1>3, FlushStep, ReadyStep, Zenon
<1>4. CASE (\E ch \in Channels : QueueDisabled(ch)) \/ IsrReturns \/ UNCHANGED vars
  BY <1>4, QuietStep, Zenon
<1>5. CASE PostIntService
  BY <1>5, PostIntStep, Zenon
<1>6. QED
  BY <1>1, <1>2, <1>3, <1>4, <1>5, Zenon DEF Next

\* mvSataScsiInitAdapterExt.
LEMMA InitHolds ==
  ASSUME Init
  PROVE  IInv /\ Progress
<1>1. pHead = <<>> /\ pHead \in Seq(Scbs) /\ Elems(pHead) = {} /\ Once(pHead)
  BY EmptySeq DEF Init, Elems, Once
<1>2. SalTypeOK
  <2>1. \A ch \in Channels : NewBlock("OTHER", ch, 0, 0) \in Blocks
    BY BlockTypes DEF Ops, Statuses
  <2>2. block \in [Scbs -> Blocks]
    BY <2>1 DEF Init
  <2>3. BlocksTypeOK
    BY <2>2, CommandTypes DEF Init, BlocksTypeOK
  <2>4. DrivesTypeOK
    BY DEF Init, DrivesTypeOK
  <2>5. QED
    BY <1>1, <2>3, <2>4 DEF Init, SalTypeOK
<1>3. Holders
  BY <1>1 DEF Init, Holders
<1>4. Phases
  BY DEF Init, Phases
<1>5. Progress
  BY <1>1 DEF Init, Progress
<1>6. QED
  BY <1>2, <1>3, <1>4, <1>5 DEF IInv

\* The inductive invariant of the layer: types, holders and phases.
THEOREM SalInvariant == Spec => []IInv
<1>1. Init => IInv
  BY InitHolds
<1>2. IInv /\ [Next]_vars => IInv'
  BY StepKeeps
<1>3. QED
  BY <1>1, <1>2, PTL DEF Spec

\* Every block between kmalloc and kfree is in the queue of its channel, on the
\* post-interrupt list or dropped by a refused fragment; in one place, once;
\* whatever the numbers of blocks, channels and tags and the residues of kmalloc.
THEOREM OneOwnerSafe == Spec => []OneOwner
<1>1. IInv => OneOwner
  <2> SUFFICES ASSUME IInv PROVE OneOwner
    OBVIOUS
  <2>1. Listed = Elems(pHead)
    BY DEF Listed, Elems
  <2>2. pHead \in Seq(Scbs) /\ Once(pHead)
    BY DEF IInv, SalTypeOK, Holders
  <2>3. Cardinality(Listed) = Len(pHead)
    BY <2>1, <2>2, ListCounts
  <2>4. ASSUME NEW b \in Queued
        PROVE  b \notin Listed /\ b \in allocated /\ ~Dropped(b)
    <3>1. PICK ch \in Channels : b \in commandsQueue[ch]
      BY DEF Queued
    <3>2. b \in allocated /\ b \notin Elems(pHead) /\ Unanswered(b)
      BY <3>1 DEF IInv, Holders
    <3>3. QED
      BY <2>1, <3>2 DEF Unanswered, Dropped
  <2>5. ASSUME NEW b \in Listed PROVE b \in allocated /\ ~Dropped(b)
    BY <2>1 DEF IInv, Holders, Unanswered, Dropped
  <2>6. ASSUME NEW b \in allocated, ~Dropped(b) PROVE b \in Queued \/ b \in Listed
    <3>1. b \in commandsQueue[block[b].bus] \/ b \in Elems(pHead)
      BY <2>6, Zenon DEF IInv, Holders
    <3>2. block[b].bus \in Channels
      BY DEF IInv, SalTypeOK, BlocksTypeOK, Blocks
    <3>3. QED
      BY <2>1, <3>1, <3>2 DEF Queued
  <2>7. QED
    BY <2>3, <2>4, <2>5, <2>6 DEF OneOwner
<1>2. QED
  BY <1>1, SalInvariant, PTL

\* No ATA command of a SCSI command from before a reset is in a queue after it.
THEOREM ResetSafe == Spec => []NothingCrossesReset
<1>1. IInv => NothingCrossesReset
  BY DEF IInv, Holders, NothingCrossesReset, Queued
<1>2. QED
  BY <1>1, SalInvariant, PTL

\* The fragments of a VERIFY follow each other without a gap, stay within the range
\* asked for and fit the sector count of their ATA command, when kmalloc leaves no
\* 0 in sequenceNumber.
THEOREM FragmentsSafe ==
  ASSUME 0 \notin Residues
  PROVE  Spec => []FragmentsInOrder
<1>1. Init => Progress
  BY InitHolds
<1>2. IInv /\ Progress /\ [Next]_vars => Progress'
  BY StepKeeps
<1>3. IInv /\ Progress => FragmentsInOrder
  <2> SUFFICES ASSUME IInv, Progress, NEW ch \in Channels, NEW b \in commandsQueue[ch],
                      ata[b].kind \in {"VERIFY", "VERIFY_EXT"}
               PROVE  /\ ata[b].first = block[b].lba + served[b].sectors
                      /\ served[b].sectors + ata[b].count <= asked[b].sectors
                      /\ 1 <= ata[b].count /\ ata[b].count <= CountLimit(ata[b].kind)
    BY DEF FragmentsInOrder, Queued
  <2>1. UnderWay(b) /\ b \in Scbs
    BY DEF Progress, IInv, SalTypeOK
  <2>2. /\ block[b] \in Blocks /\ ata[b] \in Commands
        /\ asked[b] \in Work /\ served[b] \in Work
    BY <2>1 DEF IInv, SalTypeOK, BlocksTypeOK
  <2>3. /\ block[b].splitCount \in Nat /\ block[b].sequenceNumber \in Nat
        /\ ata[b].count \in Nat /\ asked[b].sectors \in Nat /\ served[b].sectors \in Nat
    BY <2>2 DEF Blocks, Commands, Work
  <2>4. VerifyUnderWay(b)
    BY <2>1 DEF UnderWay, NoCommand, ModeUnderWay, Settings
  <2>5. QED
    BY <2>3, <2>4 DEF VerifyUnderWay, Following
<1>4. QED
  BY <1>1, <1>2, <1>3, SalInvariant, PTL DEF Spec

\* Success is reported only for what the drive has done, when kmalloc leaves no 0
\* in sequenceNumber.
THEOREM SuccessSafe ==
  ASSUME 0 \notin Residues
  PROVE  Spec => SuccessIsComplete
<1>1. Init => Progress
  BY InitHolds
<1>2. IInv /\ Progress /\ [Next]_vars => Progress'
  BY StepKeeps
<1>3. IInv /\ Progress /\ [Next]_vars =>
        [\A b \in allocated \ allocated' :
           block'[b].ScsiCommandCompletion = "SUCCESS" => Served(b) = asked[b]]_vars
  BY StepKeeps DEF Honest
<1>4. QED
  BY <1>1, <1>2, <1>3, SalInvariant, PTL DEF Spec, SuccessIsComplete

=============================================================================
