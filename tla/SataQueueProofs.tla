-------------------------- MODULE SataQueueProofs ---------------------------
(***************************************************************************)
(* The software queue of SataEdma: what the functions of mvSata.c that     *)
(* take tags, link, mark and unlink commands do to the tag stacks, the     *)
(* entries, the list and the counters.  SataEdmaProofs builds on it.       *)
(***************************************************************************)
EXTENDS SataEdma, FunctionTheorems, FiniteSetTheorems, SequenceTheorems, TLAPS

-----------------------------------------------------------------------------
(* Constants and sequences.                                                *)

\* Tags are numbers; neither the tag of READ LOG EXT nor NoTag is one of them.
LEMMA TagFacts ==
  /\ HostTags \subseteq Nat /\ DeviceTags \subseteq Nat /\ Ports \subseteq Nat
  /\ NoTag \notin HostTags /\ NoTag \notin DeviceTags /\ NoTag # ReadLog
  /\ ReadLog \notin HostTags
  /\ Cardinality(HostTags) \in Nat /\ Cardinality(HostTags) < QueueLength
  /\ Cardinality(DeviceTags) \in Nat
  /\ QueueLength \in Nat /\ QueueLength > 0
<1>1. /\ Cardinality(HostTags) \in Nat /\ Cardinality(DeviceTags) \in Nat
      /\ Cardinality(Ports) \in Nat
  BY EdmaAssumption, FS_CardinalityType
<1>2. QED
  BY <1>1, EdmaAssumption, SMTT(40) DEF NoTag, ReadLog

\* Elements of a sequence.
LEMMA ElemsAt ==
  ASSUME NEW S, NEW q \in Seq(S)
  PROVE  /\ DOMAIN q = 1..Len(q) /\ Len(q) \in Nat
         /\ \A i \in 1..Len(q) : q[i] \in Elems(q) /\ q[i] \in S
         /\ \A x \in Elems(q) : \E i \in 1..Len(q) : q[i] = x
         /\ Elems(q) \subseteq S
         /\ q = <<>> <=> Elems(q) = {}
         /\ q # <<>> => Head(q) = q[1] /\ Len(q) > 0
<1>1. DOMAIN q = 1..Len(q) /\ Len(q) \in Nat /\ \A i \in 1..Len(q) : q[i] \in S
  BY LenProperties
<1>2. /\ \A i \in 1..Len(q) : q[i] \in Elems(q)
      /\ \A x \in Elems(q) : \E i \in 1..Len(q) : q[i] = x
  BY <1>1, Zenon DEF Elems
<1>3. q # <<>> => Head(q) = q[1] /\ Len(q) > 0
  BY EmptySeq
<1>4. q = <<>> => Elems(q) = {}
  BY DEF Elems
<1>5. Elems(q) = {} => q = <<>>
  BY <1>1, <1>2, <1>3
<1>6. QED
  BY <1>1, <1>2, <1>3, <1>4, <1>5

\* Pushing a new tag on a stack, or READ LOG EXT in front of the list.
LEMMA Push ==
  ASSUME NEW S, NEW q \in Seq(S), NEW t \in S, NoDuplicates(q), t \notin Elems(q)
  PROVE  /\ <<t>> \o q \in Seq(S) /\ <<t>> \o q # <<>>
         /\ Len(<<t>> \o q) = Len(q) + 1
         /\ (<<t>> \o q)[1] = t /\ Head(<<t>> \o q) = t
         /\ \A i \in 1..Len(q) : (<<t>> \o q)[i + 1] = q[i]
         /\ NoDuplicates(<<t>> \o q)
         /\ Elems(<<t>> \o q) = Elems(q) \cup {t}
<1> DEFINE w == <<t>> \o q
<1>1. DOMAIN q = 1..Len(q) /\ Len(q) \in Nat /\ \A i \in 1..Len(q) : q[i] # t
  BY ElemsAt
<1>2. /\ w \in Seq(S) /\ Len(w) = Len(q) + 1
      /\ w[1] = t /\ \A i \in 2..Len(q) + 1 : w[i] = q[i - 1]
  BY <1>1
<1> HIDE DEF w
<1>3. DOMAIN w = 1..Len(w) /\ w # <<>> /\ Head(w) = t
  BY <1>1, <1>2
<1>4. \A i \in 1..Len(q) : i + 1 \in 1..Len(w) /\ w[i + 1] = q[i]
  BY <1>1, <1>2
<1>5. \A i \in 1..Len(w) : i = 1 \/ (i - 1 \in 1..Len(q) /\ w[i] = q[i - 1])
  BY <1>1, <1>2
<1>6. NoDuplicates(w)
  <2>1. ASSUME NEW i \in 1..Len(w), NEW j \in 1..Len(w), w[i] = w[j]
        PROVE  i = j
    <3>1. CASE i = 1 \/ j = 1
      BY <1>1, <1>2, <1>5, <2>1, <3>1
    <3>2. CASE i # 1 /\ j # 1
      <4>1. /\ i - 1 \in 1..Len(q) /\ j - 1 \in 1..Len(q)
            /\ q[i - 1] = q[j - 1]
        BY <1>5, <2>1, <3>2
      <4>2. i - 1 = j - 1
        BY <1>1, <4>1, Zenon DEF NoDuplicates
      <4>3. QED
        BY <1>2, <4>2
    <3>3. QED
      BY <3>1, <3>2
  <2>2. QED
    BY <1>3, <2>1, Zenon DEF NoDuplicates
<1>7. Elems(w) = Elems(q) \cup {t}
  <2>1. \A i \in 1..Len(w) : w[i] \in Elems(q) \cup {t}
    BY <1>1, <1>2, <1>5 DEF Elems
  <2>2. \A i \in 1..Len(q) : q[i] \in Elems(w)
    BY <1>3, <1>4, Zenon DEF Elems
  <2>3. t \in Elems(w)
    BY <1>1, <1>2, <1>3 DEF Elems
  <2>4. QED
    BY <1>1, <1>3, <2>1, <2>2, <2>3, Zenon DEF Elems
<1>8. QED
  BY <1>2, <1>3, <1>4, <1>6, <1>7 DEF w

\* Popping a stack.
LEMMA Pop ==
  ASSUME NEW S, NEW q \in Seq(S), q # <<>>, NoDuplicates(q)
  PROVE  /\ Tail(q) \in Seq(S) /\ NoDuplicates(Tail(q))
         /\ Head(q) \in Elems(q) /\ Head(q) \in S
         /\ Elems(Tail(q)) = Elems(q) \ {Head(q)}
<1>1. DOMAIN q = 1..Len(q) /\ Len(q) \in Nat \ {0} /\ Head(q) = q[1] /\ 1 \in 1..Len(q)
  BY ElemsAt
<1>2. /\ Tail(q) \in Seq(S) /\ Len(Tail(q)) = Len(q) - 1
      /\ \A i \in 1..(Len(q) - 1) : Tail(q)[i] = q[i + 1]
  BY <1>1, HeadTailProperties
<1>3. DOMAIN Tail(q) = 1..Len(Tail(q))
  BY <1>2, ElemsAt, Zenon
<1>4. \A i \in 1..Len(Tail(q)) : i + 1 \in 1..Len(q) /\ Tail(q)[i] = q[i + 1] /\ i + 1 # 1
  BY <1>1, <1>2
<1>5. \A i \in 1..Len(q) : i = 1 \/ (i - 1 \in 1..Len(Tail(q)) /\ Tail(q)[i - 1] = q[i])
  BY <1>1, <1>2
<1>6. NoDuplicates(Tail(q))
  <2>1. ASSUME NEW i \in 1..Len(Tail(q)), NEW j \in 1..Len(Tail(q)), Tail(q)[i] = Tail(q)[j]
        PROVE  i = j
    <3>1. i + 1 = j + 1
      BY <1>1, <1>4, <2>1 DEF NoDuplicates
    <3>2. QED
      BY <1>2, <3>1
  <2>2. QED
    BY <1>3, <2>1, Zenon DEF NoDuplicates
<1>7. \A i \in 1..Len(Tail(q)) : Tail(q)[i] # q[1]
  BY <1>1, <1>4, Zenon DEF NoDuplicates
<1>8. Elems(Tail(q)) = Elems(q) \ {q[1]}
  <2>1. \A i \in 1..Len(Tail(q)) : Tail(q)[i] \in Elems(q) \ {q[1]}
    BY <1>4, <1>7, ElemsAt
  <2>2. \A i \in 1..Len(q) : i = 1 \/ q[i] \in Elems(Tail(q))
    BY <1>3, <1>5 DEF Elems
  <2>3. QED
    BY <1>1, <1>3, <2>1, <2>2, Zenon DEF Elems
<1>9. QED
  BY <1>1, <1>2, <1>6, <1>8, ElemsAt

\* Appending a command to the list.
LEMMA Link ==
  ASSUME NEW S, NEW q \in Seq(S), NEW t \in S, NoDuplicates(q), t \notin Elems(q)
  PROVE  /\ Append(q, t) \in Seq(S) /\ Append(q, t) # <<>>
         /\ Len(Append(q, t)) = Len(q) + 1 /\ Append(q, t)[Len(q) + 1] = t
         /\ \A i \in 1..Len(q) : Append(q, t)[i] = q[i]
         /\ NoDuplicates(Append(q, t))
         /\ Elems(Append(q, t)) = Elems(q) \cup {t}
         /\ Head(Append(q, t)) = IF q = <<>> THEN t ELSE Head(q)
<1> DEFINE w == Append(q, t)
<1>1. DOMAIN q = 1..Len(q) /\ Len(q) \in Nat /\ \A i \in 1..Len(q) : q[i] # t
  BY ElemsAt
<1>2. /\ w \in Seq(S) /\ Len(w) = Len(q) + 1
      /\ w[Len(q) + 1] = t /\ \A i \in 1..Len(q) : w[i] = q[i]
  BY <1>1, AppendProperties
<1> HIDE DEF w
<1>3. DOMAIN w = 1..Len(w) /\ w # <<>>
  BY <1>1, <1>2
<1>4. \A i \in 1..Len(w) : i = Len(q) + 1 \/ (i \in 1..Len(q) /\ w[i] = q[i])
  BY <1>1, <1>2
<1>5. NoDuplicates(w)
  <2>1. ASSUME NEW i \in 1..Len(w), NEW j \in 1..Len(w), w[i] = w[j]
        PROVE  i = j
    <3>1. CASE i \in 1..Len(q) /\ j \in 1..Len(q)
      BY <1>1, <1>2, <2>1, <3>1 DEF NoDuplicates
    <3>2. CASE ~(i \in 1..Len(q) /\ j \in 1..Len(q))
      BY <1>1, <1>2, <1>4, <2>1, <3>2
    <3>3. QED
      BY <3>1, <3>2
  <2>2. QED
    BY <1>3, <2>1, Zenon DEF NoDuplicates
<1>6. Elems(w) = Elems(q) \cup {t}
  <2>1. \A i \in 1..Len(w) : w[i] \in Elems(q) \cup {t}
    BY <1>1, <1>2, <1>4 DEF Elems
  <2>2. \A i \in 1..Len(q) : i \in 1..Len(w)
    BY <1>1, <1>2
  <2>3. \A i \in 1..Len(q) : q[i] \in Elems(w)
    BY <1>2, <1>3, <2>2 DEF Elems
  <2>4. t \in Elems(w)
    BY <1>1, <1>2, <1>3 DEF Elems
  <2>5. QED
    BY <1>1, <1>3, <2>1, <2>3, <2>4, Zenon DEF Elems
<1>7. Head(w) = IF q = <<>> THEN t ELSE Head(q)
  <2>1. Head(w) = w[1]
    BY <1>2, <1>3, ElemsAt
  <2>2. QED
    BY <1>1, <1>2, <2>1, ElemsAt
<1>8. QED
  BY <1>2, <1>3, <1>5, <1>6, <1>7 DEF w

\* w is q without its k-th element.
ClosesGap(q, w, k) ==
  \A i \in 1..(Len(q) - 1) : w[i] = IF i < k THEN q[i] ELSE q[i + 1]

\* Unlinking a command that is not in the list.
LEMMA UnlinkNothing ==
  ASSUME NEW q, NEW t, t \notin Elems(q)
  PROVE  Without(q, t) = q
BY DEF Without

\* Unlinking a command leaves the others in their order.
LEMMA Unlink ==
  ASSUME NEW S, NEW q \in Seq(S), NoDuplicates(q), NEW t \in Elems(q)
  PROVE  /\ Without(q, t) \in Seq(S) /\ Len(Without(q, t)) = Len(q) - 1
         /\ NoDuplicates(Without(q, t))
         /\ Elems(Without(q, t)) = Elems(q) \ {t}
         /\ \E k \in 1..Len(q) : q[k] = t /\ ClosesGap(q, Without(q, t), k)
<1> DEFINE k == CHOOSE i \in DOMAIN q : q[i] = t
           w == [i \in 1..(Len(q) - 1) |-> IF i < k THEN q[i] ELSE q[i + 1]]
<1>1. /\ DOMAIN q = 1..Len(q) /\ Len(q) \in Nat /\ \A i \in 1..Len(q) : q[i] \in S
      /\ \E i \in 1..Len(q) : q[i] = t
  BY ElemsAt
<1>2. k \in 1..Len(q) /\ q[k] = t
  BY <1>1, Zenon
<1>3. Without(q, t) = w
  BY Zenon DEF Without
<1> HIDE DEF k
<1>4. w \in Seq(S) /\ Len(w) = Len(q) - 1 /\ DOMAIN w = 1..(Len(q) - 1)
  <2>1. w \in [1..(Len(q) - 1) -> S]
    BY <1>1, <1>2
  <2>2. Len(q) - 1 \in Nat
    BY <1>1, <1>2
  <2>3. QED
    BY <2>1, <2>2
<1>5. \A i \in 1..(Len(q) - 1) :
        /\ i < k => w[i] = q[i] /\ i \in 1..Len(q)
        /\ i >= k => w[i] = q[i + 1] /\ i + 1 \in 1..Len(q)
  BY <1>1, <1>2
<1>6. ClosesGap(q, w, k)
  BY DEF ClosesGap
<1> HIDE DEF w
<1>7. NoDuplicates(w)
  <2>1. ASSUME NEW i \in 1..(Len(q) - 1), NEW j \in 1..(Len(q) - 1), w[i] = w[j]
        PROVE  i = j
    BY <1>1, <1>2, <1>5, <2>1 DEF NoDuplicates
  <2>2. QED
    BY <1>4, <2>1, Zenon DEF NoDuplicates
<1>8. Elems(w) = Elems(q) \ {t}
  <2>1. ASSUME NEW i \in 1..(Len(q) - 1)
        PROVE  w[i] \in Elems(q) /\ w[i] # t
    <3>1. CASE i < k
      BY <1>1, <1>2, <1>5, <3>1, SMTT(40) DEF NoDuplicates, Elems
    <3>2. CASE i >= k
      BY <1>1, <1>2, <1>5, <3>2 DEF NoDuplicates, Elems
    <3>3. QED
      BY <1>2, <3>1, <3>2
  <2>2. ASSUME NEW i \in 1..Len(q), q[i] # t
        PROVE  \E j \in 1..(Len(q) - 1) : w[j] = q[i]
    <3>1. CASE i < k
      BY <1>1, <1>2, <1>5, <3>1
    <3>2. CASE i > k
      <4>1. i - 1 \in 1..(Len(q) - 1) /\ i - 1 >= k
        BY <1>1, <1>2, <3>2
      <4>2. w[i - 1] = q[(i - 1) + 1] /\ (i - 1) + 1 = i
        BY <1>5, <4>1
      <4>3. QED
        BY <4>1, <4>2
    <3>3. i # k
      BY <1>2, <2>2
    <3>4. QED
      BY <1>2, <3>1, <3>2, <3>3
  <2>3. \A x \in Elems(w) : x \in Elems(q) \ {t}
    BY <1>4, <2>1, Zenon DEF Elems
  <2>4. \A x \in Elems(q) \ {t} : x \in Elems(w)
    BY <1>1, <1>4, <2>2, Zenon DEF Elems
  <2>5. QED
    BY <2>3, <2>4, Zenon
<1>9. QED
  BY <1>2, <1>3, <1>4, <1>6, <1>7, <1>8

\* Taking READ LOG EXT from the head of the list again.
LEMMA UnlinkPushed ==
  ASSUME NEW S, NEW q \in Seq(S), NEW t \in S, NoDuplicates(q), t \notin Elems(q)
  PROVE  Without(<<t>> \o q, t) = q
<1>1. PICK w : w = <<t>> \o q
  OBVIOUS
<1>2. /\ w \in Seq(S) /\ Len(w) = Len(q) + 1 /\ w[1] = t
      /\ \A i \in 1..Len(q) : w[i + 1] = q[i]
      /\ NoDuplicates(w) /\ t \in Elems(w)
  BY <1>1, Push
<1>3. DOMAIN w = 1..Len(w) /\ Len(q) \in Nat
  BY <1>2, ElemsAt
<1>4. PICK k \in 1..Len(w) : w[k] = t /\ ClosesGap(w, Without(w, t), k)
  BY <1>2, Unlink, Zenon
<1>5. k = 1
  BY <1>2, <1>3, <1>4 DEF NoDuplicates
<1>6. \A i \in 1..Len(q) : Without(w, t)[i] = q[i]
  BY <1>2, <1>3, <1>4, <1>5 DEF ClosesGap
<1>7. Without(w, t) \in Seq(S) /\ Len(Without(w, t)) = Len(q)
  BY <1>2, <1>3, Unlink
<1>8. Without(w, t) = q
  BY <1>6, <1>7, SeqEqual
<1>9. QED
  BY <1>1, <1>8

\* initTagsStack: every tag is free, once.
LEMMA FullStackFacts ==
  ASSUME NEW T, IsFiniteSet(T), T = 0..(Cardinality(T) - 1)
  PROVE  /\ FullStack(T) \in Seq(T) /\ NoDuplicates(FullStack(T))
         /\ Elems(FullStack(T)) = T
<1>1. PICK n \in Nat : n = Cardinality(T)
  BY FS_CardinalityType
<1>2. PICK w : w = FullStack(T)
  OBVIOUS
<1>3. w = [i \in 1..n |-> i - 1]
  BY <1>1, <1>2 DEF FullStack
<1>4. \A i \in 1..n : i - 1 \in T
  BY <1>1
<1>5. w \in [1..n -> T] /\ DOMAIN w = 1..n
  BY <1>3, <1>4
<1>6. w \in Seq(T)
  BY <1>5
<1>7. NoDuplicates(w)
  <2>1. ASSUME NEW i \in 1..n, NEW j \in 1..n, w[i] = w[j]
        PROVE  i = j
    BY <1>3, <2>1
  <2>2. QED
    BY <1>5, <2>1 DEF NoDuplicates
<1>8. Elems(w) = T
  <2>1. \A x \in T : x + 1 \in 1..n /\ w[x + 1] = x
    BY <1>1, <1>3
  <2>2. \A x \in Elems(w) : x \in T
    BY <1>5 DEF Elems
  <2>3. \A x \in T : x \in Elems(w)
    BY <1>5, <2>1 DEF Elems
  <2>4. QED
    BY <2>2, <2>3
<1>9. QED
  BY <1>2, <1>6, <1>7, <1>8

-----------------------------------------------------------------------------
(* The channel as a record, and the invariants of its queue.               *)

UsedEntry == [cmd : Cmds, type : {"UDMA", "NONE_UDMA"}, PMPort : Ports,
              deviceTag : DeviceTags, isCommandInEdma : BOOLEAN,
              commandAborted : BOOLEAN]
Entry == {FreeEntry} \cup UsedEntry
States == {"IDLE", "WAIT_FOR_COMPLETIONS", "WAIT_FOR_BUSY", "REQUEST_SENSE"}
Causes == LinkFaults \cup Notices \cup {"devErr", "selfDisable"}
Response == [id : Tags, err : BOOLEAN]
Listable == HostTags \cup {ReadLog}

Channel ==
  [queueCommandsEnabled : BOOLEAN, EdmaActive : BOOLEAN, queuedDMA : Modes,
   commandsQueue : Seq(Listable), entry : [HostTags -> Entry],
   HostTagsPool : Seq(HostTags), DeviceTagsPool : [Ports -> Seq(DeviceTags)],
   outstandingCommands : Int, noneUdmaOutstandingCommands : Int,
   portQueuedCommands : [Ports -> Int],
   state : States, PortsWithErrors : SUBSET Ports, CurrPort : Nat,
   reqInPtr : Slots, rspOutPtr : Slots,
   requestQueue : [Slots -> Tags], responseQueue : [Slots -> Response],
   reqOutPtr : Slots, rspInPtr : Slots, edmaEnabled : BOOLEAN,
   errorCause : SUBSET Causes, responseDone : BOOLEAN, saDevMask : BOOLEAN,
   executing : SUBSET HostTags, erring : [Ports -> DeviceTags \cup {NoTag}],
   pio : Tags \cup {ReadLog}, phase : {"restarted", "configured", "ready"}]

UsedAt(s, p)   == {t \in Used(s) : s.entry[t].PMPort = p}
TagsAt(s, p)   == {s.entry[t].deviceTag : t \in UsedAt(s, p)}
NoneUdma(s)    == {t \in Used(s) : s.entry[t].type = "NONE_UDMA"}
InEdma(s)      == {t \in Used(s) : s.entry[t].isCommandInEdma}

\* The host tags.
HostOK(s) == /\ NoDuplicates(s.HostTagsPool)
             /\ Elems(s.HostTagsPool) = HostTags \ Used(s)

\* The device tags of a port.
PortOK(s, p) ==
  /\ NoDuplicates(s.DeviceTagsPool[p])
  /\ Elems(s.DeviceTagsPool[p]) = DeviceTags \ TagsAt(s, p)
  /\ \A t, u \in UsedAt(s, p) : s.entry[t].deviceTag = s.entry[u].deviceTag => t = u
  /\ s.portQueuedCommands[p] = Cardinality(UsedAt(s, p))

\* The list.
ListOK(s) ==
  /\ NoDuplicates(s.commandsQueue)
  /\ Elems(s.commandsQueue) \ {ReadLog} = Used(s)
  /\ \A i \in 1..Len(s.commandsQueue) : s.commandsQueue[i] = ReadLog => i = 1

\* The counters.
CountOK(s) ==
  /\ s.outstandingCommands = Cardinality(Used(s))
  /\ s.noneUdmaOutstandingCommands = Cardinality(NoneUdma(s))

QueueOK(s) == HostOK(s) /\ (\A p \in Ports : PortOK(s, p)) /\ ListOK(s) /\ CountOK(s)

\* Only UDMA commands enter the EDMA, and no two tags carry the same command.
EntriesOK(s) ==
  /\ \A t \in InEdma(s) : s.entry[t].type = "UDMA"
  /\ \A t, u \in Used(s) : s.entry[t].cmd = s.entry[u].cmd => t = u

\* The commands in the EDMA come first.
PrefixOK(s) ==
  \A i, j \in 1..Len(s.commandsQueue) :
    i < j /\ s.commandsQueue[i] \in HostTags /\ s.commandsQueue[j] \in InEdma(s)
      => s.commandsQueue[i] \in InEdma(s)

QInv(s) == s \in Channel /\ QueueOK(s) /\ EntriesOK(s) /\ PrefixOK(s)

\* The fields of the queue.
SameList(s, r) ==
  /\ r.commandsQueue = s.commandsQueue
  /\ r.HostTagsPool = s.HostTagsPool /\ r.DeviceTagsPool = s.DeviceTagsPool
  /\ r.outstandingCommands = s.outstandingCommands
  /\ r.noneUdmaOutstandingCommands = s.noneUdmaOutstandingCommands
  /\ r.portQueuedCommands = s.portQueuedCommands

SameQueue(s, r) == SameList(s, r) /\ r.entry = s.entry

\* The rings, as the driver and the engine share them.
SameRings(s, r) ==
  /\ r.reqInPtr = s.reqInPtr /\ r.reqOutPtr = s.reqOutPtr
  /\ r.rspInPtr = s.rspInPtr /\ r.rspOutPtr = s.rspOutPtr
  /\ r.requestQueue = s.requestQueue /\ r.responseQueue = s.responseQueue

\* The fields of the error recovery.
SameErrors(s, r) ==
  /\ r.state = s.state /\ r.PortsWithErrors = s.PortsWithErrors
  /\ r.CurrPort = s.CurrPort /\ r.erring = s.erring

\* The engine and its interrupts.
SameEngine(s, r) ==
  /\ r.EdmaActive = s.EdmaActive /\ r.edmaEnabled = s.edmaEnabled
  /\ r.executing = s.executing /\ r.errorCause = s.errorCause
  /\ r.responseDone = s.responseDone /\ r.saDevMask = s.saDevMask

SameMode(s, r) ==
  /\ r.queueCommandsEnabled = s.queueCommandsEnabled
  /\ r.queuedDMA = s.queuedDMA /\ r.pio = s.pio /\ r.phase = s.phase

\* Everything but the queue.
SameRest(s, r) ==
  SameRings(s, r) /\ SameErrors(s, r) /\ SameEngine(s, r) /\ SameMode(s, r)

\* What marking commands as inserted or aborted leaves alone.
SameCommands(s, r) ==
  /\ SameList(s, r)
  /\ \A t \in HostTags :
       /\ r.entry[t] = FreeEntry <=> s.entry[t] = FreeEntry
       /\ r.entry[t].cmd = s.entry[t].cmd /\ r.entry[t].type = s.entry[t].type
       /\ r.entry[t].PMPort = s.entry[t].PMPort
       /\ r.entry[t].deviceTag = s.entry[t].deviceTag

-----------------------------------------------------------------------------
(* Consequences.                                                           *)

\* A used tag has an entry with a command.
LEMMA UsedFacts ==
  ASSUME NEW s \in Channel
  PROVE  /\ Used(s) \subseteq HostTags /\ IsFiniteSet(Used(s))
         /\ \A t \in Used(s) : s.entry[t] \in UsedEntry
         /\ \A t \in HostTags \ Used(s) : s.entry[t] = FreeEntry
         /\ InEdma(s) \subseteq Used(s)
<1>1. Used(s) \subseteq HostTags
  BY DEF Used
<1>2. \A t \in HostTags : s.entry[t] \in Entry
  BY DEF Channel
<1>3. IsFiniteSet(Used(s))
  BY <1>1, EdmaAssumption, FS_Subset
<1>4. QED
  BY <1>1, <1>2, <1>3 DEF Used, Entry, InEdma

\* A used entry differs from a free one.
LEMMA UsedIsNotFree == \A e \in UsedEntry : e # FreeEntry
BY EdmaAssumption DEF UsedEntry, FreeEntry

\* The invariants of the queue depend on its fields only.
LEMMA SameQueueKeeps ==
  ASSUME NEW s, NEW r \in Channel, QInv(s), SameQueue(s, r)
  PROVE  QInv(r) /\ Used(r) = Used(s) /\ InEdma(r) = InEdma(s) /\ Held(r) = Held(s)
<1>1. Used(r) = Used(s) /\ InEdma(r) = InEdma(s) /\ Held(r) = Held(s)
  BY DEF SameQueue, Used, InEdma, Held
<1>2. \A p \in Ports : UsedAt(r, p) = UsedAt(s, p) /\ TagsAt(r, p) = TagsAt(s, p)
  BY <1>1 DEF SameQueue, UsedAt, TagsAt
<1>3. NoneUdma(r) = NoneUdma(s)
  BY <1>1 DEF SameQueue, NoneUdma
<1>4. HostOK(r) /\ ListOK(r) /\ CountOK(r)
  BY <1>1, <1>3 DEF QInv, QueueOK, SameQueue, SameList, HostOK, ListOK, CountOK
<1>5. \A p \in Ports : PortOK(r, p)
  BY <1>2 DEF QInv, QueueOK, SameQueue, SameList, PortOK
<1>6. EntriesOK(r) /\ PrefixOK(r)
  BY <1>1 DEF QInv, SameQueue, SameList, EntriesOK, PrefixOK
<1>7. QED
  BY <1>1, <1>4, <1>5, <1>6 DEF QInv, QueueOK

\* Marking commands changes none of the tags and counters.
LEMMA SameCommandsKeep ==
  ASSUME NEW s \in Channel, NEW r \in Channel, QueueOK(s), SameCommands(s, r)
  PROVE  /\ QueueOK(r) /\ Used(r) = Used(s) /\ Held(r) = Held(s)
         /\ \A t \in Used(s) : r.entry[t] \in UsedEntry
<1>1. Used(r) = Used(s)
  BY DEF SameCommands, Used
<1>2. Held(r) = Held(s)
  BY <1>1 DEF SameCommands, Held, Used
<1>3. \A p \in Ports : UsedAt(r, p) = UsedAt(s, p)
  BY <1>1 DEF SameCommands, UsedAt, Used
<1>4. ASSUME NEW p \in Ports PROVE TagsAt(r, p) = TagsAt(s, p)
  <2>1. \A t \in UsedAt(s, p) : r.entry[t].deviceTag = s.entry[t].deviceTag
    BY DEF SameCommands, UsedAt, Used
  <2>2. QED
    BY <1>3, <2>1 DEF TagsAt
<1>5. NoneUdma(r) = NoneUdma(s)
  BY <1>1 DEF SameCommands, NoneUdma, Used
<1>6. HostOK(r) /\ ListOK(r) /\ CountOK(r)
  BY <1>1, <1>5 DEF QueueOK, SameCommands, SameList, HostOK, ListOK, CountOK
<1>7. ASSUME NEW p \in Ports PROVE PortOK(r, p)
  <2>1. \A t \in UsedAt(s, p) : r.entry[t].deviceTag = s.entry[t].deviceTag
    BY DEF SameCommands, UsedAt, Used
  <2>2. PortOK(s, p) /\ UsedAt(r, p) = UsedAt(s, p) /\ TagsAt(r, p) = TagsAt(s, p)
    BY <1>3, <1>4 DEF QueueOK
  <2>3. QED
    BY <2>1, <2>2 DEF SameCommands, SameList, PortOK
<1>8. \A t \in Used(s) : r.entry[t] \in UsedEntry
  BY <1>1, UsedFacts
<1>9. QED
  BY <1>1, <1>2, <1>6, <1>7, <1>8 DEF QueueOK

-----------------------------------------------------------------------------
(* addCommand.                                                             *)

\* What addCommand writes.
Added(s, r, c, type, p, t, d) ==
  /\ r.entry = [s.entry EXCEPT ![t] =
       [cmd |-> c, type |-> type, PMPort |-> p, deviceTag |-> d,
        isCommandInEdma |-> FALSE, commandAborted |-> FALSE]]
  /\ r.HostTagsPool = Tail(s.HostTagsPool)
  /\ r.DeviceTagsPool = [s.DeviceTagsPool EXCEPT ![p] = Tail(s.DeviceTagsPool[p])]
  /\ r.commandsQueue = Append(s.commandsQueue, t)
  /\ r.outstandingCommands = s.outstandingCommands + 1
  /\ r.noneUdmaOutstandingCommands =
       s.noneUdmaOutstandingCommands + One(type = "NONE_UDMA")
  /\ r.portQueuedCommands =
       [s.portQueuedCommands EXCEPT ![p] = s.portQueuedCommands[p] + 1]

\* addCommand writes the fields of the queue and no other.
LEMMA AddFields ==
  ASSUME NEW s \in Channel, NEW c \in Cmds, NEW type \in {"UDMA", "NONE_UDMA"},
         NEW p \in Ports, NEW t \in HostTags, NEW d \in DeviceTags,
         t = Head(s.HostTagsPool), d = Head(s.DeviceTagsPool[p]),
         s.HostTagsPool # <<>>, s.DeviceTagsPool[p] # <<>>
  PROVE  /\ addCommand(s, c, type, p) \in Channel
         /\ SameRest(s, addCommand(s, c, type, p))
         /\ Added(s, addCommand(s, c, type, p), c, type, p, t, d)
<1> DEFINE r == addCommand(s, c, type, p)
           e == [cmd |-> c, type |-> type, PMPort |-> p, deviceTag |-> d,
                 isCommandInEdma |-> FALSE, commandAborted |-> FALSE]
<1>1. Added(s, r, c, type, p, t, d)
  BY DEF addCommand, Channel, Added
<1>2. SameRest(s, r)
  BY DEF addCommand, Channel, SameRest, SameRings, SameErrors, SameEngine, SameMode
<1>3. /\ s.HostTagsPool \in Seq(HostTags) /\ s.DeviceTagsPool \in [Ports -> Seq(DeviceTags)]
      /\ s.commandsQueue \in Seq(Listable) /\ s.entry \in [HostTags -> Entry]
      /\ s.outstandingCommands \in Int /\ s.noneUdmaOutstandingCommands \in Int
      /\ s.portQueuedCommands \in [Ports -> Int]
  BY DEF Channel
<1>4. r.entry \in [HostTags -> Entry]
  BY <1>1, <1>3 DEF Entry, UsedEntry, Added
<1>5. r.HostTagsPool \in Seq(HostTags)
  BY <1>1, <1>3, HeadTailProperties DEF Added
<1>6. r.DeviceTagsPool \in [Ports -> Seq(DeviceTags)]
  <2>1. Tail(s.DeviceTagsPool[p]) \in Seq(DeviceTags)
    BY <1>3, HeadTailProperties
  <2>2. QED
    BY <1>1, <1>3, <2>1 DEF Added
<1>7. r.commandsQueue \in Seq(Listable)
  BY <1>1, <1>3, AppendProperties DEF Listable, Added
<1>8. /\ r.outstandingCommands \in Int /\ r.noneUdmaOutstandingCommands \in Int
      /\ r.portQueuedCommands \in [Ports -> Int]
  BY <1>1, <1>3, SMTT(40) DEF One, Added
<1>9. r \in Channel
  BY <1>4, <1>5, <1>6, <1>7, <1>8, ZenonT(60) DEF addCommand, Channel
<1>10. QED
  BY <1>1, <1>2, <1>9

\* A queue with a new command at its end.
LEMMA AddKeeps ==
  ASSUME NEW s, QInv(s), NEW c \in Cmds, c \notin Held(s),
         NEW type \in {"UDMA", "NONE_UDMA"}, NEW p \in Ports,
         s.HostTagsPool # <<>>, s.DeviceTagsPool[p] # <<>>,
         NEW t, t = Head(s.HostTagsPool), NEW r, r = addCommand(s, c, type, p)
  PROVE  /\ QInv(r) /\ SameRest(s, r)
         /\ t \in HostTags \ Used(s) /\ t \notin Elems(s.commandsQueue)
         /\ Used(r) = Used(s) \cup {t} /\ Held(r) = Held(s) \cup {c}
         /\ InEdma(r) = InEdma(s)
         /\ r.commandsQueue = Append(s.commandsQueue, t)
         /\ \A u \in Used(s) : r.entry[u] = s.entry[u]
         /\ r.entry[t].type = type /\ r.entry[t].PMPort = p
         /\ r.entry[t] \in UsedEntry /\ ~r.entry[t].isCommandInEdma
<1> DEFINE d == Head(s.DeviceTagsPool[p])
           e == [cmd |-> c, type |-> type, PMPort |-> p, deviceTag |-> d,
                 isCommandInEdma |-> FALSE, commandAborted |-> FALSE]
<1>1. /\ s \in Channel /\ QueueOK(s) /\ EntriesOK(s) /\ PrefixOK(s)
      /\ HostOK(s) /\ ListOK(s) /\ CountOK(s) /\ \A o \in Ports : PortOK(s, o)
  BY DEF QInv, QueueOK
<1>2. /\ s.HostTagsPool \in Seq(HostTags) /\ s.DeviceTagsPool \in [Ports -> Seq(DeviceTags)]
      /\ s.commandsQueue \in Seq(Listable) /\ s.entry \in [HostTags -> Entry]
      /\ s.portQueuedCommands \in [Ports -> Int]
  BY <1>1 DEF Channel
<1>3. /\ t \in HostTags \ Used(s)
      /\ Elems(Tail(s.HostTagsPool)) = (HostTags \ Used(s)) \ {t}
      /\ NoDuplicates(Tail(s.HostTagsPool))
  BY <1>1, <1>2, Pop DEF HostOK
<1>4. /\ d \in DeviceTags /\ d \notin TagsAt(s, p)
      /\ Elems(Tail(s.DeviceTagsPool[p])) = (DeviceTags \ TagsAt(s, p)) \ {d}
      /\ NoDuplicates(Tail(s.DeviceTagsPool[p]))
  <2>1. /\ NoDuplicates(s.DeviceTagsPool[p]) /\ s.DeviceTagsPool[p] \in Seq(DeviceTags)
        /\ Elems(s.DeviceTagsPool[p]) = DeviceTags \ TagsAt(s, p)
    BY <1>1, <1>2 DEF PortOK
  <2>2. QED
    BY <2>1, Pop
<1>d. d = Head(s.DeviceTagsPool[p])
  OBVIOUS
<1> HIDE DEF d
<1>a. r \in Channel /\ SameRest(s, r) /\ Added(s, r, c, type, p, t, d)
  <2>1. s \in Channel /\ t \in HostTags /\ d \in DeviceTags
    BY <1>1, <1>3, <1>4
  <2>2. /\ addCommand(s, c, type, p) \in Channel
        /\ SameRest(s, addCommand(s, c, type, p))
        /\ Added(s, addCommand(s, c, type, p), c, type, p, t, d)
    BY <2>1, <1>d, AddFields
  <2>3. QED
    BY <2>2
<1>5. /\ r \in Channel /\ SameRest(s, r)
      /\ r.entry = [s.entry EXCEPT ![t] = e]
      /\ r.HostTagsPool = Tail(s.HostTagsPool)
      /\ r.DeviceTagsPool = [s.DeviceTagsPool EXCEPT ![p] = Tail(s.DeviceTagsPool[p])]
      /\ r.commandsQueue = Append(s.commandsQueue, t)
      /\ r.outstandingCommands = s.outstandingCommands + 1
      /\ r.noneUdmaOutstandingCommands =
           s.noneUdmaOutstandingCommands + One(type = "NONE_UDMA")
      /\ r.portQueuedCommands =
           [s.portQueuedCommands EXCEPT ![p] = s.portQueuedCommands[p] + 1]
  BY <1>a DEF Added
<1>6. /\ e \in UsedEntry /\ e # FreeEntry
      /\ e.cmd = c /\ e.type = type /\ e.PMPort = p /\ e.deviceTag = d
      /\ ~e.isCommandInEdma
  BY <1>4, UsedIsNotFree DEF UsedEntry
<1> HIDE DEF e
<1>7. /\ r.entry[t] = e /\ \A u \in HostTags \ {t} : r.entry[u] = s.entry[u]
  BY <1>2, <1>3, <1>5
<1>8. Used(r) = Used(s) \cup {t}
  BY <1>3, <1>6, <1>7 DEF Used
<1>9. InEdma(r) = InEdma(s)
  BY <1>3, <1>6, <1>7, <1>8 DEF InEdma, Used
<1>10. Held(r) = Held(s) \cup {c}
  <2>1. \A u \in Used(s) : r.entry[u].cmd = s.entry[u].cmd
    BY <1>3, <1>7 DEF Used
  <2>2. QED
    BY <1>6, <1>7, <1>8, <2>1 DEF Held
<1>11. HostOK(r)
  BY <1>3, <1>5, <1>8 DEF HostOK
<1>12. t \notin Elems(s.commandsQueue)
  BY <1>1, <1>3, EdmaAssumption DEF ListOK
<1>13. ListOK(r)
  <2>1. /\ NoDuplicates(r.commandsQueue) /\ Len(r.commandsQueue) = Len(s.commandsQueue) + 1
        /\ Elems(r.commandsQueue) = Elems(s.commandsQueue) \cup {t}
        /\ r.commandsQueue[Len(s.commandsQueue) + 1] = t
        /\ \A i \in 1..Len(s.commandsQueue) : r.commandsQueue[i] = s.commandsQueue[i]
    BY <1>1, <1>2, <1>3, <1>5, <1>12, Link DEF ListOK, Listable
  <2>2. Elems(r.commandsQueue) \ {ReadLog} = Used(r)
    BY <1>1, <1>3, <1>8, <2>1, EdmaAssumption DEF ListOK
  <2>3. Len(s.commandsQueue) \in Nat
    BY <1>2
  <2>4. \A i \in 1..Len(r.commandsQueue) : r.commandsQueue[i] = ReadLog => i = 1
    <3>1. ASSUME NEW i \in 1..Len(r.commandsQueue), r.commandsQueue[i] = ReadLog
          PROVE  i = 1
      <4>1. t # ReadLog
        BY <1>3, TagFacts
      <4>2. i \in 1..Len(s.commandsQueue)
        BY <2>1, <2>3, <3>1, <4>1
      <4>3. QED
        BY <1>1, <2>1, <3>1, <4>2 DEF ListOK
    <3>2. QED
      BY <3>1
  <2>5. QED
    BY <2>1, <2>2, <2>4 DEF ListOK
<1>14. CountOK(r)
  <2>1. IsFiniteSet(Used(s)) /\ NoneUdma(s) \subseteq Used(s)
    BY <1>1, UsedFacts DEF NoneUdma
  <2>2. IsFiniteSet(NoneUdma(s))
    BY <2>1, FS_Subset
  <2>3. t \notin Used(s) /\ t \notin NoneUdma(s)
    BY <1>3, <2>1
  <2>4. Cardinality(Used(r)) = Cardinality(Used(s)) + 1
    <3>1. Cardinality(Used(s) \cup {t}) = Cardinality(Used(s)) + 1
      BY <2>1, <2>3, FS_AddElement
    <3>2. QED
      BY <1>8, <3>1
  <2>5. NoneUdma(r) = IF type = "NONE_UDMA" THEN NoneUdma(s) \cup {t} ELSE NoneUdma(s)
    BY <1>3, <1>6, <1>7, <1>8 DEF NoneUdma, Used
  <2>6. Cardinality(NoneUdma(s) \cup {t}) = Cardinality(NoneUdma(s)) + 1
    BY <2>2, <2>3, FS_AddElement
  <2>7. Cardinality(NoneUdma(s)) \in Nat
    BY <2>2, FS_CardinalityType
  <2>8. QED
    BY <1>1, <1>5, <2>4, <2>5, <2>6, <2>7 DEF CountOK, One
<1>15. ASSUME NEW o \in Ports PROVE PortOK(r, o)
  <2>1. PortOK(s, o) /\ UsedAt(s, o) \subseteq Used(s) /\ t \notin UsedAt(s, o)
    BY <1>1, <1>3 DEF UsedAt
  <2>2. \A u \in Used(s) : r.entry[u] = s.entry[u]
    BY <1>3, <1>7 DEF Used
  <2>3. CASE o # p
    <3>1. UsedAt(r, o) = UsedAt(s, o)
      BY <1>6, <1>7, <1>8, <2>2, <2>3 DEF UsedAt
    <3>2. TagsAt(r, o) = TagsAt(s, o)
      BY <2>1, <2>2, <3>1 DEF TagsAt
    <3>3. /\ r.DeviceTagsPool[o] = s.DeviceTagsPool[o]
          /\ r.portQueuedCommands[o] = s.portQueuedCommands[o]
      BY <1>2, <1>5, <2>3
    <3>4. QED
      BY <2>1, <2>2, <3>1, <3>2, <3>3 DEF PortOK
  <2>4. CASE o = p
    <3>1. UsedAt(r, p) = UsedAt(s, p) \cup {t}
      BY <1>6, <1>7, <1>8, <2>2 DEF UsedAt
    <3>2. TagsAt(r, p) = TagsAt(s, p) \cup {d}
      <4>1. \A u \in UsedAt(s, p) : r.entry[u].deviceTag = s.entry[u].deviceTag
        BY <2>1, <2>2, <2>4
      <4>2. r.entry[t].deviceTag = d
        BY <1>6, <1>7
      <4>3. QED
        BY <3>1, <4>1, <4>2 DEF TagsAt
    <3>3. /\ r.DeviceTagsPool[p] = Tail(s.DeviceTagsPool[p])
          /\ r.portQueuedCommands[p] = s.portQueuedCommands[p] + 1
      BY <1>2, <1>5
    <3>4. /\ NoDuplicates(r.DeviceTagsPool[p])
          /\ Elems(r.DeviceTagsPool[p]) = DeviceTags \ TagsAt(r, p)
      BY <1>4, <3>2, <3>3
    <3>5. \A u, v \in UsedAt(r, p) : r.entry[u].deviceTag = r.entry[v].deviceTag => u = v
      <4>1. \A u \in UsedAt(s, p) : /\ r.entry[u].deviceTag = s.entry[u].deviceTag
                                    /\ s.entry[u].deviceTag \in TagsAt(s, p)
        BY <2>1, <2>2, <2>4 DEF TagsAt
      <4>2. r.entry[t].deviceTag = d
        BY <1>6, <1>7
      <4>3. QED
        BY <1>4, <2>1, <2>4, <3>1, <4>1, <4>2 DEF PortOK
    <3>6. Cardinality(UsedAt(r, p)) = Cardinality(UsedAt(s, p)) + 1
      <4>1. IsFiniteSet(UsedAt(s, p))
        BY <1>1, <2>1, <2>4, UsedFacts, FS_Subset
      <4>2. QED
        BY <2>1, <2>4, <3>1, <4>1, FS_AddElement
    <3>7. r.portQueuedCommands[p] = Cardinality(UsedAt(r, p))
      BY <2>1, <2>4, <3>3, <3>6 DEF PortOK
    <3>8. QED
      BY <2>4, <3>4, <3>5, <3>7 DEF PortOK
  <2>5. QED
    BY <2>3, <2>4
<1>16. EntriesOK(r)
  <2>1. \A u \in Used(s) : r.entry[u] = s.entry[u] /\ s.entry[u].cmd # c
    BY <1>3, <1>7 DEF Used, Held
  <2>2. QED
    BY <1>1, <1>6, <1>7, <1>8, <1>9, <2>1 DEF EntriesOK, InEdma
<1>17. PrefixOK(r)
  <2>1. /\ Len(r.commandsQueue) = Len(s.commandsQueue) + 1 /\ Len(s.commandsQueue) \in Nat
        /\ r.commandsQueue[Len(s.commandsQueue) + 1] = t
        /\ \A i \in 1..Len(s.commandsQueue) : r.commandsQueue[i] = s.commandsQueue[i]
    BY <1>1, <1>2, <1>3, <1>5, <1>12, Link DEF ListOK, Listable
  <2>2. t \notin InEdma(s)
    BY <1>3 DEF InEdma
  <2>3. QED
    BY <1>1, <1>9, <2>1, <2>2, SMTT(40) DEF PrefixOK
<1>18. QED
  <2>1. QInv(r)
    BY <1>5, <1>11, <1>13, <1>14, <1>15, <1>16, <1>17 DEF QInv, QueueOK
  <2>2. \A u \in Used(s) : r.entry[u] = s.entry[u]
    BY <1>3, <1>7 DEF Used
  <2>3. QED
    BY <1>3, <1>5, <1>6, <1>7, <1>8, <1>9, <1>10, <1>12, <2>1, <2>2

-----------------------------------------------------------------------------
(* removeCommand.                                                          *)

\* What removeCommand writes.
Removed(s, r, t, e) ==
  /\ r.entry = [s.entry EXCEPT ![t] = FreeEntry]
  /\ r.HostTagsPool = <<t>> \o s.HostTagsPool
  /\ r.DeviceTagsPool =
       [s.DeviceTagsPool EXCEPT ![e.PMPort] = <<e.deviceTag>> \o s.DeviceTagsPool[e.PMPort]]
  /\ r.commandsQueue = Without(s.commandsQueue, t)
  /\ r.outstandingCommands = s.outstandingCommands - 1
  /\ r.noneUdmaOutstandingCommands =
       s.noneUdmaOutstandingCommands - One(e.type = "NONE_UDMA")
  /\ r.portQueuedCommands =
       [s.portQueuedCommands EXCEPT ![e.PMPort] = s.portQueuedCommands[e.PMPort] - 1]

\* removeCommand writes the fields of the queue and no other.
LEMMA RemoveFields ==
  ASSUME NEW s \in Channel, NEW t \in HostTags, NEW e \in UsedEntry, s.entry[t] = e,
         Without(s.commandsQueue, t) \in Seq(Listable)
  PROVE  /\ removeCommand(s, t) \in Channel
         /\ SameRest(s, removeCommand(s, t))
         /\ Removed(s, removeCommand(s, t), t, e)
<1> DEFINE r == removeCommand(s, t)
<1>0. e.PMPort \in Ports /\ e.deviceTag \in DeviceTags
  BY DEF UsedEntry
<1>1. Removed(s, r, t, e)
  BY <1>0 DEF removeCommand, Channel, Removed
<1>2. SameRest(s, r)
  BY DEF removeCommand, Channel, SameRest, SameRings, SameErrors, SameEngine, SameMode
<1>3. /\ s.HostTagsPool \in Seq(HostTags) /\ s.DeviceTagsPool \in [Ports -> Seq(DeviceTags)]
      /\ s.commandsQueue \in Seq(Listable) /\ s.entry \in [HostTags -> Entry]
      /\ s.outstandingCommands \in Int /\ s.noneUdmaOutstandingCommands \in Int
      /\ s.portQueuedCommands \in [Ports -> Int]
  BY DEF Channel
<1>4. r.entry \in [HostTags -> Entry]
  BY <1>1, <1>3 DEF Entry, Removed
<1>5. r.HostTagsPool \in Seq(HostTags)
  BY <1>1, <1>3 DEF Removed
<1>6. r.DeviceTagsPool \in [Ports -> Seq(DeviceTags)]
  <2>1. <<e.deviceTag>> \o s.DeviceTagsPool[e.PMPort] \in Seq(DeviceTags)
    BY <1>0, <1>3
  <2>2. QED
    BY <1>0, <1>1, <1>3, <2>1 DEF Removed
<1>7. r.commandsQueue \in Seq(Listable)
  BY <1>1 DEF Removed
<1>8. /\ r.outstandingCommands \in Int /\ r.noneUdmaOutstandingCommands \in Int
      /\ r.portQueuedCommands \in [Ports -> Int]
  <2>1. One(e.type = "NONE_UDMA") \in Int
    BY DEF One
  <2>2. s.portQueuedCommands[e.PMPort] - 1 \in Int
    BY <1>0, <1>3
  <2>3. r.outstandingCommands \in Int /\ r.noneUdmaOutstandingCommands \in Int
    BY <1>1, <1>3, <2>1 DEF Removed
  <2>4. PICK n \in Int : n = s.portQueuedCommands[e.PMPort] - 1
    BY <2>2
  <2>5. r.portQueuedCommands = [s.portQueuedCommands EXCEPT ![e.PMPort] = n]
    BY <1>1, <2>4 DEF Removed
  <2>6. r.portQueuedCommands \in [Ports -> Int]
    BY <1>0, <1>3, <2>5
  <2>7. QED
    BY <2>3, <2>6
<1>9. r \in Channel
  BY <1>4, <1>5, <1>6, <1>7, <1>8, ZenonT(60) DEF removeCommand, Channel
<1>10. QED
  BY <1>1, <1>2, <1>9

\* A queue without one of its commands.
LEMMA RemoveKeeps ==
  ASSUME NEW s, QInv(s), NEW t, t \in Used(s), NEW r, r = removeCommand(s, t)
  PROVE  /\ QInv(r) /\ SameRest(s, r)
         /\ Used(r) = Used(s) \ {t} /\ Held(r) = Held(s) \ {s.entry[t].cmd}
         /\ s.entry[t].cmd \in Held(s)
         /\ InEdma(r) = InEdma(s) \ {t}
         /\ r.commandsQueue = Without(s.commandsQueue, t)
         /\ t \in Elems(s.commandsQueue)
         /\ \A u \in HostTags \ {t} : r.entry[u] = s.entry[u]
<1>1. /\ s \in Channel /\ QueueOK(s) /\ EntriesOK(s) /\ PrefixOK(s)
      /\ HostOK(s) /\ ListOK(s) /\ CountOK(s) /\ \A o \in Ports : PortOK(s, o)
  BY DEF QInv, QueueOK
<1>2. /\ s.HostTagsPool \in Seq(HostTags) /\ s.DeviceTagsPool \in [Ports -> Seq(DeviceTags)]
      /\ s.commandsQueue \in Seq(Listable) /\ s.entry \in [HostTags -> Entry]
      /\ s.portQueuedCommands \in [Ports -> Int]
  BY <1>1 DEF Channel
<1>3. PICK e \in UsedEntry : e = s.entry[t]
  BY <1>1, UsedFacts
<1>4. PICK p \in Ports : p = e.PMPort
  BY <1>3 DEF UsedEntry
<1>5. PICK d \in DeviceTags : d = e.deviceTag
  BY <1>3 DEF UsedEntry
<1>6. t \in HostTags /\ t # ReadLog
  BY <1>1, UsedFacts, TagFacts
<1>7. t \in Elems(s.commandsQueue)
  BY <1>1 DEF ListOK
<1>8. PICK q : q = s.commandsQueue
  OBVIOUS
<1>9. PICK w : w = Without(q, t)
  OBVIOUS
<1>10. /\ q \in Seq(Listable) /\ NoDuplicates(q) /\ t \in Elems(q)
       /\ Len(q) \in Nat
  BY <1>1, <1>2, <1>7, <1>8 DEF ListOK
<1>11. /\ w \in Seq(Listable) /\ Len(w) = Len(q) - 1 /\ NoDuplicates(w)
       /\ Elems(w) = Elems(q) \ {t}
  BY <1>9, <1>10, Unlink
<1>12. PICK k \in 1..Len(q) : q[k] = t /\ ClosesGap(q, w, k)
  BY <1>9, <1>10, Unlink, Zenon
<1>13. r \in Channel /\ SameRest(s, r) /\ Removed(s, r, t, e)
  <2>1. Without(s.commandsQueue, t) \in Seq(Listable)
    BY <1>8, <1>9, <1>11
  <2>2. QED
    BY <1>1, <1>3, <1>6, <2>1, RemoveFields
<1>14. r.entry[t] = FreeEntry /\ \A u \in HostTags \ {t} : r.entry[u] = s.entry[u]
  BY <1>2, <1>6, <1>13 DEF Removed
<1>15. Used(r) = Used(s) \ {t}
  BY <1>14 DEF Used
<1>16. InEdma(r) = InEdma(s) \ {t}
  BY <1>14, <1>15 DEF InEdma, Used
<1>17. Held(r) = Held(s) \ {e.cmd} /\ e.cmd \in Held(s)
  <2>1. \A u \in Used(s) \ {t} : r.entry[u].cmd = s.entry[u].cmd /\ s.entry[u].cmd # e.cmd
    BY <1>1, <1>3, <1>14 DEF EntriesOK, Used
  <2>2. \A x \in Held(r) : x \in Held(s) \ {e.cmd}
    BY <1>15, <2>1 DEF Held
  <2>3. \A x \in Held(s) \ {e.cmd} : x \in Held(r)
    BY <1>3, <1>15, <2>1 DEF Held
  <2>4. QED
    BY <1>3, <2>2, <2>3 DEF Held
<1>18. HostOK(r)
  <2>1. /\ NoDuplicates(s.HostTagsPool) /\ Elems(s.HostTagsPool) = HostTags \ Used(s)
        /\ t \notin Elems(s.HostTagsPool)
    BY <1>1 DEF HostOK
  <2>2. /\ NoDuplicates(<<t>> \o s.HostTagsPool)
        /\ Elems(<<t>> \o s.HostTagsPool) = Elems(s.HostTagsPool) \cup {t}
    BY <1>2, <1>6, <2>1, Push
  <2>3. r.HostTagsPool = <<t>> \o s.HostTagsPool
    BY <1>13 DEF Removed
  <2>4. QED
    BY <1>6, <1>15, <2>1, <2>2, <2>3 DEF HostOK
<1>19. ListOK(r)
  <2>1. r.commandsQueue = w
    BY <1>8, <1>9, <1>13 DEF Removed
  <2>2. Elems(w) \ {ReadLog} = Used(r)
    BY <1>1, <1>8, <1>11, <1>15 DEF ListOK
  <2>3. ASSUME NEW i \in 1..Len(w), w[i] = ReadLog
        PROVE  i = 1
    <3>1. i \in 1..(Len(q) - 1)
      BY <1>10, <1>11, <2>3
    <3>2. CASE i < k
      <4>1. w[i] = q[i] /\ i \in 1..Len(q)
        BY <1>10, <1>12, <3>1, <3>2 DEF ClosesGap
      <4>2. QED
        BY <1>1, <1>8, <2>3, <4>1 DEF ListOK
    <3>3. CASE i >= k
      <4>1. w[i] = q[i + 1] /\ i + 1 \in 1..Len(q)
        BY <1>10, <1>12, <3>1, <3>3 DEF ClosesGap
      <4>2. i + 1 = 1
        BY <1>1, <1>8, <2>3, <4>1 DEF ListOK
      <4>3. QED
        BY <1>10, <1>11, <4>2
    <3>4. QED
      BY <1>10, <1>11, <1>12, <3>2, <3>3
  <2>4. QED
    BY <1>11, <2>1, <2>2, <2>3 DEF ListOK
<1>20. CountOK(r)
  <2>1. IsFiniteSet(Used(s)) /\ NoneUdma(s) \subseteq Used(s)
    BY <1>1, UsedFacts DEF NoneUdma
  <2>2. IsFiniteSet(NoneUdma(s))
    BY <2>1, FS_Subset
  <2>3. Cardinality(Used(s) \ {t}) = Cardinality(Used(s)) - 1
    BY <2>1, FS_RemoveElement
  <2>4. Cardinality(NoneUdma(s) \ {t}) =
          IF t \in NoneUdma(s) THEN Cardinality(NoneUdma(s)) - 1 ELSE Cardinality(NoneUdma(s))
    BY <2>2, FS_RemoveElement
  <2>5. t \in NoneUdma(s) <=> e.type = "NONE_UDMA"
    BY <1>3 DEF NoneUdma
  <2>6. NoneUdma(r) = NoneUdma(s) \ {t}
    BY <1>14, <1>15 DEF NoneUdma, Used
  <2>7. Cardinality(NoneUdma(s)) \in Nat
    BY <2>2, FS_CardinalityType
  <2>8. /\ r.outstandingCommands = s.outstandingCommands - 1
        /\ r.noneUdmaOutstandingCommands =
             s.noneUdmaOutstandingCommands - One(e.type = "NONE_UDMA")
    BY <1>13 DEF Removed
  <2>9. QED
    BY <1>1, <1>15, <2>3, <2>4, <2>5, <2>6, <2>7, <2>8 DEF CountOK, One
<1>21. /\ r.DeviceTagsPool = [s.DeviceTagsPool EXCEPT ![p] = <<d>> \o s.DeviceTagsPool[p]]
       /\ r.portQueuedCommands = [s.portQueuedCommands EXCEPT ![p] = s.portQueuedCommands[p] - 1]
  BY <1>4, <1>5, <1>13 DEF Removed
<1>22. ASSUME NEW o \in Ports PROVE PortOK(r, o)
  <2>1. PortOK(s, o) /\ UsedAt(s, o) \subseteq Used(s)
    BY <1>1 DEF UsedAt
  <2>2. \A u \in Used(s) \ {t} : r.entry[u] = s.entry[u]
    BY <1>14 DEF Used
  <2>3. UsedAt(r, o) = UsedAt(s, o) \ {t}
    BY <1>15, <2>2 DEF UsedAt
  <2>4. t \in UsedAt(s, o) <=> o = p
    BY <1>3, <1>4 DEF UsedAt
  <2>5. \A u \in UsedAt(r, o) : r.entry[u] = s.entry[u] /\ u \in UsedAt(s, o)
    BY <2>1, <2>2, <2>3
  <2>6. CASE o # p
    <3>1. UsedAt(r, o) = UsedAt(s, o)
      BY <2>3, <2>4, <2>6
    <3>2. TagsAt(r, o) = TagsAt(s, o)
      BY <2>5, <3>1 DEF TagsAt
    <3>3. /\ r.DeviceTagsPool[o] = s.DeviceTagsPool[o]
          /\ r.portQueuedCommands[o] = s.portQueuedCommands[o]
      BY <1>2, <1>21, <2>6
    <3>4. QED
      BY <2>1, <2>5, <3>1, <3>2, <3>3 DEF PortOK
  <2>7. CASE o = p
    <3>1. TagsAt(r, p) = TagsAt(s, p) \ {d} /\ d \in TagsAt(s, p)
      <4>1. \A u \in UsedAt(s, p) \ {t} : s.entry[u].deviceTag # d
        BY <1>3, <1>5, <2>1, <2>4, <2>7 DEF PortOK
      <4>2. \A x \in TagsAt(r, p) : x \in TagsAt(s, p) \ {d}
        BY <2>3, <2>5, <2>7, <4>1 DEF TagsAt
      <4>3. \A x \in TagsAt(s, p) \ {d} : x \in TagsAt(r, p)
        BY <1>3, <1>5, <2>3, <2>5, <2>7 DEF TagsAt
      <4>4. d \in TagsAt(s, p)
        BY <1>3, <1>5, <2>4, <2>7 DEF TagsAt
      <4>5. QED
        BY <4>2, <4>3, <4>4
    <3>2. /\ NoDuplicates(s.DeviceTagsPool[p])
          /\ Elems(s.DeviceTagsPool[p]) = DeviceTags \ TagsAt(s, p)
          /\ s.DeviceTagsPool[p] \in Seq(DeviceTags)
      BY <1>2, <2>1, <2>7 DEF PortOK
    <3>3. /\ NoDuplicates(<<d>> \o s.DeviceTagsPool[p])
          /\ Elems(<<d>> \o s.DeviceTagsPool[p]) = Elems(s.DeviceTagsPool[p]) \cup {d}
      BY <3>1, <3>2, Push
    <3>4. /\ r.DeviceTagsPool[p] = <<d>> \o s.DeviceTagsPool[p]
          /\ r.portQueuedCommands[p] = s.portQueuedCommands[p] - 1
      BY <1>2, <1>21
    <3>5. /\ NoDuplicates(r.DeviceTagsPool[p])
          /\ Elems(r.DeviceTagsPool[p]) = DeviceTags \ TagsAt(r, p)
      BY <3>1, <3>2, <3>3, <3>4
    <3>6. \A u, v \in UsedAt(r, p) : r.entry[u].deviceTag = r.entry[v].deviceTag => u = v
      BY <2>1, <2>5, <2>7 DEF PortOK
    <3>7. Cardinality(UsedAt(s, p) \ {t}) = Cardinality(UsedAt(s, p)) - 1
      <4>1. IsFiniteSet(UsedAt(s, p))
        BY <1>1, <2>1, <2>7, UsedFacts, FS_Subset
      <4>2. QED
        BY <2>4, <2>7, <4>1, FS_RemoveElement
    <3>8. r.portQueuedCommands[p] = Cardinality(UsedAt(r, p))
      BY <2>1, <2>3, <2>7, <3>4, <3>7 DEF PortOK
    <3>9. QED
      BY <2>7, <3>5, <3>6, <3>8 DEF PortOK
  <2>8. QED
    BY <2>6, <2>7
<1>23. EntriesOK(r)
  <2>1. \A u \in Used(s) \ {t} : r.entry[u] = s.entry[u]
    BY <1>14 DEF Used
  <2>2. InEdma(s) \subseteq Used(s)
    BY DEF InEdma
  <2>3. QED
    BY <1>1, <1>15, <1>16, <2>1, <2>2 DEF EntriesOK
<1>24. PrefixOK(r)
  <2>1. r.commandsQueue = w
    BY <1>8, <1>9, <1>13 DEF Removed
  <2>2. \A i \in 1..Len(w) : w[i] # t
    BY <1>11, ElemsAt
  <2>3. ASSUME NEW i \in 1..Len(w), NEW j \in 1..Len(w), i < j,
               w[i] \in HostTags, w[j] \in InEdma(r)
        PROVE  w[i] \in InEdma(r)
    <3>1. PICK a \in 1..Len(q) : w[i] = q[a] /\ a = IF i < k THEN i ELSE i + 1
      BY <1>10, <1>11, <1>12 DEF ClosesGap
    <3>2. PICK b \in 1..Len(q) : w[j] = q[b] /\ b = IF j < k THEN j ELSE j + 1
      BY <1>10, <1>11, <1>12 DEF ClosesGap
    <3>3. a < b
      BY <1>12, <2>3, <3>1, <3>2
    <3>4. q[a] \in InEdma(s)
      BY <1>1, <1>8, <1>16, <2>3, <3>1, <3>2, <3>3 DEF PrefixOK
    <3>5. QED
      BY <1>16, <2>2, <3>1, <3>4
  <2>4. QED
    BY <2>1, <2>3 DEF PrefixOK
<1>25. QED
  <2>1. QInv(r)
    BY <1>13, <1>18, <1>19, <1>20, <1>22, <1>23, <1>24 DEF QInv, QueueOK
  <2>2. r.commandsQueue = Without(s.commandsQueue, t)
    BY <1>13 DEF Removed
  <2>3. QED
    BY <1>3, <1>7, <1>13, <1>14, <1>15, <1>16, <1>17, <2>1, <2>2

-----------------------------------------------------------------------------
(* Counting.                                                               *)

\* A set of positions that is closed downwards is the interval of its size.
LEMMA Initial ==
  ASSUME NEW m \in Nat, NEW D, D \subseteq 1..m, \A k \in D : 1..k \subseteq D
  PROVE  D = 1..Cardinality(D) /\ Cardinality(D) \in 0..m
<1>1. IsFiniteSet(1..m) /\ Cardinality(1..m) = m
  BY FS_Interval
<1>2. IsFiniteSet(D) /\ Cardinality(D) <= m
  BY <1>1, FS_Subset, ZenonT(60)
<1>3. PICK n \in Nat : n = Cardinality(D)
  BY <1>2, FS_CardinalityType
<1>4. ASSUME NEW k \in D PROVE k \in 1..n
  <2>1. k \in Nat /\ k >= 1 /\ 1..k \subseteq D
    OBVIOUS
  <2>2. Cardinality(1..k) = k
    BY <2>1, FS_Interval
  <2>3. Cardinality(1..k) <= Cardinality(D)
    BY <1>2, <2>1, FS_Subset
  <2>4. QED
    BY <1>3, <2>1, <2>2, <2>3
<1>5. IsFiniteSet(1..n) /\ Cardinality(1..n) = n
  BY FS_Interval
<1>6. D \in SUBSET (1..n)
  BY <1>4
<1>7. D = 1..n
  BY <1>3, <1>5, <1>6, FS_Subset
<1>8. QED
  BY <1>2, <1>3, <1>7

\* A nonempty set of ports has a smallest one.
LEMMA SmallestPort ==
  ASSUME NEW P, P \subseteq Ports, P # {}
  PROVE  \E x \in P : \A y \in P : x <= y
<1>1. Ports \subseteq Nat
  BY TagFacts
<1>2. PICK z \in P : TRUE
  OBVIOUS
<1> DEFINE L == {k \in 1..(z + 1) : \A y \in P : k - 1 <= y}
<1>3. z + 1 \in Nat
  BY <1>1
<1>4. \A k \in L : 1..k \subseteq L
  BY <1>1
<1>5. PICK n \in Nat : L = 1..n /\ n <= z + 1
  <2>1. L \subseteq 1..(z + 1)
    OBVIOUS
  <2> HIDE DEF L
  <2>2. L = 1..Cardinality(L) /\ Cardinality(L) \in 0..(z + 1)
    BY <1>3, <1>4, <2>1, Initial
  <2>3. QED
    BY <1>3, <2>2
<1>6. 1 \in L
  BY <1>1
<1>7. n \in L /\ n >= 1
  BY <1>5, <1>6
<1>8. n + 1 \notin L
  BY <1>5
<1>9. \E y \in P : ~(n <= y)
  <2>1. CASE n + 1 \in 1..(z + 1)
    BY <1>8, <2>1
  <2>2. CASE n + 1 \notin 1..(z + 1)
    BY <1>1, <1>5, <2>2
  <2>3. QED
    BY <2>1, <2>2
<1>10. PICK y \in P : ~(n <= y)
  BY <1>9
<1>11. \A x \in P : n - 1 <= x
  BY <1>7
<1>12. y = n - 1
  BY <1>1, <1>7, <1>10, <1>11
<1>13. QED
  BY <1>11, <1>12

-----------------------------------------------------------------------------
(* The other operations on the queue.                                      *)

\* An empty queue, as resetEdmaChannel leaves it.
EmptyQueue(s) ==
  /\ s.commandsQueue = <<>> /\ s.entry = [t \in HostTags |-> FreeEntry]
  /\ s.HostTagsPool = FullStack(HostTags)
  /\ s.DeviceTagsPool = [p \in Ports |-> FullStack(DeviceTags)]
  /\ s.outstandingCommands = 0 /\ s.noneUdmaOutstandingCommands = 0
  /\ s.portQueuedCommands = [p \in Ports |-> 0]

\* The tag stacks and the counters of an empty queue agree with it.
LEMMA EmptyKeeps ==
  ASSUME NEW s \in Channel, EmptyQueue(s)
  PROVE  QInv(s) /\ Used(s) = {} /\ Held(s) = {} /\ InEdma(s) = {}
<1>1. Used(s) = {} /\ Held(s) = {} /\ InEdma(s) = {} /\ NoneUdma(s) = {}
  BY DEF EmptyQueue, Used, Held, InEdma, NoneUdma
<1>2. \A p \in Ports : UsedAt(s, p) = {} /\ TagsAt(s, p) = {}
  BY <1>1 DEF UsedAt, TagsAt
<1>3. HostOK(s)
  BY <1>1, FullStackFacts, EdmaAssumption DEF HostOK, EmptyQueue
<1>4. ASSUME NEW p \in Ports PROVE PortOK(s, p)
  <2>1. NoDuplicates(FullStack(DeviceTags)) /\ Elems(FullStack(DeviceTags)) = DeviceTags
    BY FullStackFacts, EdmaAssumption
  <2>2. Cardinality(UsedAt(s, p)) = 0
    BY <1>2, FS_EmptySet
  <2>3. s.DeviceTagsPool[p] = FullStack(DeviceTags) /\ s.portQueuedCommands[p] = 0
    BY DEF EmptyQueue
  <2>4. QED
    BY <1>2, <2>1, <2>2, <2>3 DEF PortOK
<1>5. ListOK(s)
  BY <1>1 DEF ListOK, EmptyQueue, NoDuplicates, Elems
<1>6. CountOK(s)
  BY <1>1, FS_EmptySet DEF CountOK, EmptyQueue
<1>7. EntriesOK(s) /\ PrefixOK(s)
  BY <1>1 DEF EntriesOK, PrefixOK
<1>8. QED
  BY <1>1, <1>3, <1>4, <1>5, <1>6, <1>7 DEF QInv, QueueOK

\* Everything of the queue but the list.
SameTags(s, r) ==
  /\ r.entry = s.entry
  /\ r.HostTagsPool = s.HostTagsPool /\ r.DeviceTagsPool = s.DeviceTagsPool
  /\ r.outstandingCommands = s.outstandingCommands
  /\ r.noneUdmaOutstandingCommands = s.noneUdmaOutstandingCommands
  /\ r.portQueuedCommands = s.portQueuedCommands

\* A list with or without READ LOG EXT in it.
LEMMA SameTagsKeep ==
  ASSUME NEW s, NEW r \in Channel, QInv(s), SameTags(s, r), ListOK(r), PrefixOK(r)
  PROVE  QInv(r) /\ Used(r) = Used(s) /\ InEdma(r) = InEdma(s) /\ Held(r) = Held(s)
<1>1. Used(r) = Used(s) /\ InEdma(r) = InEdma(s) /\ Held(r) = Held(s)
  BY DEF SameTags, Used, InEdma, Held
<1>2. \A p \in Ports : UsedAt(r, p) = UsedAt(s, p) /\ TagsAt(r, p) = TagsAt(s, p)
  BY <1>1 DEF SameTags, UsedAt, TagsAt
<1>3. NoneUdma(r) = NoneUdma(s)
  BY <1>1 DEF SameTags, NoneUdma
<1>4. HostOK(r) /\ CountOK(r)
  BY <1>1, <1>3 DEF QInv, QueueOK, SameTags, HostOK, CountOK
<1>5. \A p \in Ports : PortOK(r, p)
  BY <1>2 DEF QInv, QueueOK, SameTags, PortOK
<1>6. EntriesOK(r)
  BY <1>1 DEF QInv, SameTags, EntriesOK
<1>7. QED
  BY <1>1, <1>4, <1>5, <1>6 DEF QInv, QueueOK

\* handlePortError puts READ LOG EXT in front of the list.
LEMMA PushReadLog ==
  ASSUME NEW s, NEW r \in Channel, QInv(s), SameTags(s, r),
         ReadLog \notin Elems(s.commandsQueue),
         r.commandsQueue = <<ReadLog>> \o s.commandsQueue
  PROVE  /\ QInv(r) /\ Used(r) = Used(s) /\ InEdma(r) = InEdma(s) /\ Held(r) = Held(s)
         /\ r.commandsQueue # <<>> /\ Head(r.commandsQueue) = ReadLog
         /\ ReadLog \in Elems(r.commandsQueue)
         /\ Without(r.commandsQueue, ReadLog) = s.commandsQueue
<1>1. PICK q \in Seq(Listable) : q = s.commandsQueue
  BY DEF QInv, Channel
<1>2. NoDuplicates(q) /\ ReadLog \notin Elems(q) /\ ReadLog \in Listable
  BY <1>1 DEF QInv, QueueOK, ListOK, Listable
<1>3. PICK w : w = <<ReadLog>> \o q
  OBVIOUS
<1>4. /\ w # <<>> /\ Head(w) = ReadLog /\ Len(w) = Len(q) + 1 /\ w[1] = ReadLog
      /\ NoDuplicates(w) /\ Elems(w) = Elems(q) \cup {ReadLog}
      /\ \A i \in 1..Len(q) : w[i + 1] = q[i]
  BY <1>2, <1>3, Push
<1>5. Without(w, ReadLog) = q
  BY <1>2, <1>3, UnlinkPushed
<1>6. r.commandsQueue = w
  BY <1>1, <1>3
<1>7. Used(r) = Used(s) /\ InEdma(r) = InEdma(s)
  BY DEF SameTags, Used, InEdma
<1>8. Len(q) \in Nat /\ \A i \in 1..Len(q) : q[i] # ReadLog
  BY <1>2, ElemsAt
<1>9. \A i \in 1..Len(w) : i = 1 \/ (i - 1 \in 1..Len(q) /\ w[i] = q[i - 1])
  BY <1>4, <1>8
<1>10. ListOK(r)
  <2>1. Elems(w) \ {ReadLog} = Used(r)
    BY <1>1, <1>2, <1>4, <1>7 DEF QInv, QueueOK, ListOK
  <2>2. \A i \in 1..Len(w) : w[i] = ReadLog => i = 1
    BY <1>8, <1>9
  <2>3. QED
    BY <1>4, <1>6, <2>1, <2>2 DEF ListOK
<1>11. PrefixOK(r)
  <2>1. ASSUME NEW i \in 1..Len(w), NEW j \in 1..Len(w), i < j,
               w[i] \in HostTags, w[j] \in InEdma(s)
        PROVE  w[i] \in InEdma(s)
    <3>1. i # 1
      BY <1>4, <2>1, TagFacts
    <3>2. j # 1
      BY <2>1
    <3>3. /\ i - 1 \in 1..Len(q) /\ j - 1 \in 1..Len(q) /\ i - 1 < j - 1
          /\ w[i] = q[i - 1] /\ w[j] = q[j - 1]
      BY <1>8, <1>9, <2>1, <3>1, <3>2
    <3>4. QED
      BY <1>1, <2>1, <3>3 DEF QInv, PrefixOK
  <2>2. QED
    BY <1>6, <1>7, <2>1 DEF PrefixOK
<1>12. QED
  BY <1>1, <1>4, <1>5, <1>6, <1>10, <1>11, SameTagsKeep

\* READ LOG EXT leaves the list.
LEMMA DropReadLog ==
  ASSUME NEW s, NEW r \in Channel, QInv(s), SameTags(s, r),
         r.commandsQueue = Without(s.commandsQueue, ReadLog)
  PROVE  /\ QInv(r) /\ Used(r) = Used(s) /\ InEdma(r) = InEdma(s) /\ Held(r) = Held(s)
         /\ ReadLog \notin Elems(r.commandsQueue)
<1>1. PICK q \in Seq(Listable) : q = s.commandsQueue
  BY DEF QInv, Channel
<1>2. NoDuplicates(q) /\ Elems(q) \ {ReadLog} = Used(s) /\ PrefixOK(s)
  BY <1>1 DEF QInv, QueueOK, ListOK
<1>3. Used(r) = Used(s) /\ InEdma(r) = InEdma(s)
  BY DEF SameTags, Used, InEdma
<1>4. CASE ReadLog \notin Elems(q)
  <2>1. r.commandsQueue = s.commandsQueue
    BY <1>1, <1>4, UnlinkNothing
  <2>2. ListOK(r) /\ PrefixOK(r)
    BY <1>3, <2>1 DEF QInv, QueueOK, ListOK, PrefixOK
  <2>3. QED
    BY <1>1, <1>4, <2>1, <2>2, SameTagsKeep
<1>5. CASE ReadLog \in Elems(q)
  <2>1. PICK w : w = Without(q, ReadLog)
    OBVIOUS
  <2>2. /\ w \in Seq(Listable) /\ Len(w) = Len(q) - 1 /\ NoDuplicates(w)
        /\ Elems(w) = Elems(q) \ {ReadLog}
    BY <1>2, <1>5, <2>1, Unlink
  <2>3. PICK k \in 1..Len(q) : q[k] = ReadLog /\ ClosesGap(q, w, k)
    BY <1>2, <1>5, <2>1, Unlink, Zenon
  <2>4. r.commandsQueue = w /\ Len(q) \in Nat
    BY <1>1, <2>1
  <2>5. k = 1
    BY <1>1, <2>3 DEF QInv, QueueOK, ListOK
  <2>6. \A i \in 1..Len(w) : i + 1 \in 1..Len(q) /\ w[i] = q[i + 1]
    BY <2>2, <2>3, <2>4, <2>5 DEF ClosesGap
  <2>7. ListOK(r)
    <3>1. Elems(w) \ {ReadLog} = Used(r)
      BY <1>2, <1>3, <2>2
    <3>2. \A i \in 1..Len(w) : w[i] # ReadLog
      BY <2>2, ElemsAt
    <3>3. QED
      BY <2>2, <2>4, <3>1, <3>2 DEF ListOK
  <2>8. PrefixOK(r)
    BY <1>1, <1>2, <1>3, <2>2, <2>4, <2>6, SMTT(40) DEF PrefixOK
  <2>9. QED
    BY <2>2, <2>4, <2>7, <2>8, SameTagsKeep
<1>6. QED
  BY <1>4, <1>5

\* The loops over the list see commands in the EDMA only, and all of them
\* unless READ LOG EXT is at the head.
LEMMA LeadingFacts ==
  ASSUME NEW s, QInv(s)
  PROVE  /\ LeadingInEdma(s) \subseteq InEdma(s)
         /\ ReadLog \notin Elems(s.commandsQueue) => LeadingInEdma(s) = InEdma(s)
<1>1. PICK q \in Seq(Listable) : q = s.commandsQueue
  BY DEF QInv, Channel
<1>2. /\ DOMAIN q = 1..Len(q) /\ Len(q) \in Nat
      /\ Elems(q) \ {ReadLog} = Used(s) /\ PrefixOK(s)
      /\ \A i \in 1..Len(q) : q[i] \in Elems(q) /\ q[i] \in Listable
  BY <1>1, ElemsAt DEF QInv, QueueOK, ListOK
<1>3. ASSUME NEW t \in LeadingInEdma(s) PROVE t \in InEdma(s)
  <2>1. t \in HostTags
    BY DEF LeadingInEdma
  <2>2. PICK k \in 1..Len(q) : /\ q[k] = t
                               /\ \A j \in 1..k : /\ q[j] # ReadLog
                                                  /\ s.entry[q[j]].isCommandInEdma
    BY <1>1, <1>2 DEF LeadingInEdma
  <2>3. k \in 1..k /\ t \in Elems(q)
    BY <1>2, <2>2
  <2>4. QED
    BY <1>2, <2>2, <2>3 DEF InEdma
<1>4. ASSUME ReadLog \notin Elems(q), NEW t \in InEdma(s) PROVE t \in LeadingInEdma(s)
  <2>1. t \in HostTags /\ t \in Used(s)
    BY DEF InEdma, Used
  <2>2. PICK k \in 1..Len(q) : q[k] = t
    BY <1>2, <2>1, ElemsAt
  <2>3. ASSUME NEW j \in 1..k
        PROVE  q[j] # ReadLog /\ s.entry[q[j]].isCommandInEdma
    <3>1. j \in 1..Len(q) /\ (j < k \/ j = k)
      BY <1>2
    <3>2. q[j] # ReadLog /\ q[j] \in HostTags
      BY <1>2, <1>4, <3>1 DEF Listable
    <3>3. q[j] \in InEdma(s)
      BY <1>1, <1>2, <1>4, <2>2, <3>1, <3>2 DEF PrefixOK
    <3>4. QED
      BY <3>2, <3>3 DEF InEdma
  <2>4. QED
    BY <1>1, <1>2, <2>1, <2>2, <2>3 DEF LeadingInEdma
<1>5. QED
  BY <1>1, <1>3, <1>4

\* Marking commands as inserted or aborted.
LEMMA MarkKeeps ==
  ASSUME NEW s, NEW r \in Channel, QInv(s), SameCommands(s, r), PrefixOK(r),
         \A t \in InEdma(r) : s.entry[t].type = "UDMA"
  PROVE  QInv(r) /\ Used(r) = Used(s) /\ Held(r) = Held(s)
<1>1. QueueOK(r) /\ Used(r) = Used(s) /\ Held(r) = Held(s)
  BY SameCommandsKeep DEF QInv
<1>2. \A t \in Used(s) : r.entry[t].cmd = s.entry[t].cmd /\ r.entry[t].type = s.entry[t].type
  BY DEF SameCommands, Used
<1>3. EntriesOK(r)
  BY <1>1, <1>2 DEF QInv, EntriesOK, InEdma
<1>4. QED
  BY <1>1, <1>3 DEF QInv

\* Marking commands as aborted.
LEMMA AbortKeeps ==
  ASSUME NEW s, NEW r \in Channel, QInv(s), SameCommands(s, r), InEdma(r) = InEdma(s)
  PROVE  QInv(r) /\ Used(r) = Used(s) /\ Held(r) = Held(s)
<1>1. PrefixOK(r)
  BY DEF QInv, PrefixOK, SameCommands, SameList
<1>2. \A t \in InEdma(r) : s.entry[t].type = "UDMA"
  BY DEF QInv, EntriesOK
<1>3. QED
  BY <1>1, <1>2, MarkKeeps

\* mvSataQueueCommand inserts a command behind the ones already in the EDMA.
LEMMA InsertOneKeeps ==
  ASSUME NEW s, NEW r \in Channel, QInv(s), SameCommands(s, r),
         NEW t \in Used(s), s.entry[t].type = "UDMA", InEdma(r) = InEdma(s) \cup {t},
         Used(s) \subseteq InEdma(s) \cup {t}
  PROVE  QInv(r) /\ Used(r) = Used(s) /\ Held(r) = Held(s)
<1>1. PICK q \in Seq(Listable) : q = s.commandsQueue
  BY DEF QInv, Channel
<1>2. \A i \in 1..Len(q) : q[i] \in HostTags => q[i] \in InEdma(r)
  <2>1. Elems(q) \ {ReadLog} = Used(s)
    BY <1>1 DEF QInv, QueueOK, ListOK
  <2>2. QED
    BY <2>1, ElemsAt, TagFacts
<1>3. PrefixOK(r)
  BY <1>1, <1>2 DEF PrefixOK, SameCommands, SameList
<1>4. \A u \in InEdma(r) : s.entry[u].type = "UDMA"
  BY DEF QInv, EntriesOK
<1>5. QED
  BY <1>3, <1>4, MarkKeeps

\* The positions of the commands _insertQCommandsIntoEdma inserts.
LeadingUdma(s) ==
  {k \in DOMAIN s.commandsQueue : \A j \in 1..k : ~IsPIO(s, s.commandsQueue[j])}

\* They are the first of the list, fewer than the slots of the ring, and
\* commands in the EDMA are among them.
LEMMA LeadingUdmaFacts ==
  ASSUME NEW s, QInv(s), ReadLog \notin Elems(s.commandsQueue)
  PROVE  \E n \in 0..(QueueLength - 1) :
           /\ n = Cardinality(LeadingUdma(s)) /\ n <= Len(s.commandsQueue)
           /\ LeadingUdma(s) = 1..n
           /\ \A k \in 1..n : /\ s.commandsQueue[k] \in Used(s)
                              /\ s.entry[s.commandsQueue[k]].type = "UDMA"
           /\ \A t \in InEdma(s) : \E k \in 1..n : s.commandsQueue[k] = t
           /\ \A j, k \in 1..n : s.commandsQueue[j] = s.commandsQueue[k] => j = k
<1>1. PICK q \in Seq(Listable) : q = s.commandsQueue
  BY DEF QInv, Channel
<1>2. /\ DOMAIN q = 1..Len(q) /\ Len(q) \in Nat
      /\ Elems(q) \ {ReadLog} = Used(s) /\ PrefixOK(s) /\ NoDuplicates(q)
      /\ \A i \in 1..Len(q) : q[i] \in Elems(q) /\ q[i] # ReadLog /\ q[i] \in Used(s)
  BY <1>1, ElemsAt DEF QInv, QueueOK, ListOK
<1>3. PICK D : D = LeadingUdma(s)
  OBVIOUS
<1>4. D = {k \in 1..Len(q) : \A j \in 1..k : ~IsPIO(s, q[j])}
  BY <1>1, <1>2, <1>3 DEF LeadingUdma
<1>5. D \subseteq 1..Len(q) /\ \A k \in D : 1..k \subseteq D
  BY <1>2, <1>4
<1>6. PICK n \in 0..Len(q) : n = Cardinality(D) /\ D = 1..n
  BY <1>2, <1>5, Initial
<1>7. ASSUME NEW k \in 1..n PROVE q[k] \in Used(s) /\ s.entry[q[k]].type = "UDMA" /\ k \in 1..Len(q)
  <2>1. k \in D
    BY <1>6
  <2>2. k \in 1..Len(q) /\ k \in 1..k
    BY <1>2, <1>5, <2>1
  <2>3. ~IsPIO(s, q[k])
    BY <1>4, <2>2, <2>1
  <2>4. s.entry[q[k]] \in UsedEntry
    BY <1>2, <2>2, UsedFacts DEF QInv
  <2>5. QED
    BY <1>2, <2>2, <2>3, <2>4 DEF IsPIO, UsedEntry
<1>8. ASSUME NEW t \in InEdma(s) PROVE \E k \in 1..n : q[k] = t
  <2>1. t \in Used(s) /\ t \in Elems(q)
    BY <1>2 DEF InEdma
  <2>2. PICK k \in 1..Len(q) : q[k] = t
    BY <2>1, ElemsAt
  <2>3. ASSUME NEW j \in 1..k PROVE ~IsPIO(s, q[j])
    <3>1. j \in 1..Len(q) /\ (j < k \/ j = k)
      BY <1>2
    <3>2. q[j] # ReadLog /\ q[j] \in HostTags
      BY <1>2, <3>1, UsedFacts DEF QInv
    <3>3. q[j] \in InEdma(s)
      BY <1>1, <1>2, <2>2, <3>1, <3>2 DEF PrefixOK
    <3>4. s.entry[q[j]].type = "UDMA"
      BY <3>3 DEF QInv, EntriesOK
    <3>5. QED
      BY <3>2, <3>4 DEF IsPIO
  <2>4. k \in D
    BY <1>4, <2>2, <2>3
  <2>5. QED
    BY <1>6, <2>2, <2>4
<1>9. \A j, k \in 1..n : q[j] = q[k] => j = k
  BY <1>2, <1>7 DEF NoDuplicates
<1>10. n < QueueLength
  <2>1. PICK f : f = [k \in 1..n |-> q[k]]
    OBVIOUS
  <2>2. f \in [1..n -> HostTags] /\ \A k \in 1..n : f[k] = q[k]
    BY <1>7, <2>1, UsedFacts DEF QInv
  <2>3. f \in Injection(1..n, HostTags)
    BY <1>9, <2>2 DEF Injection, IsInjective
  <2>4. Cardinality(1..n) <= Cardinality(HostTags)
    BY <2>3, EdmaAssumption, FS_Injection
  <2>5. Cardinality(1..n) = n
    BY <1>2, FS_Interval
  <2>6. QED
    BY <1>2, <2>4, <2>5, TagFacts
<1>11. n \in 0..(QueueLength - 1)
  BY <1>2, <1>10, TagFacts
<1>12. QED
  BY <1>1, <1>3, <1>6, <1>7, <1>8, <1>9, <1>11

=============================================================================
