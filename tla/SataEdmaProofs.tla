--------------------------- MODULE SataEdmaProofs ---------------------------
(***************************************************************************)
(* Safety of the core SATA driver's channel: the inductive invariant of    *)
(* SataEdma and its preservation by the calls of the IAL, the hardware and *)
(* the loop over the responses.  SataRecoveryProofs has the error paths    *)
(* and the theorems.                                                       *)
(***************************************************************************)
EXTENDS SataQueueProofs

-----------------------------------------------------------------------------
(* The rings: pointers modulo the number of slots.                         *)

\* The remainder of a number below twice the divisor.
LEMMA ModFacts ==
  ASSUME NEW L \in Nat, L > 0, NEW x \in Int
  PROVE  /\ 0 <= x /\ x < L => x % L = x
         /\ L <= x /\ x < 2 * L => x % L = x - L
OBVIOUS

\* A slot is in the ring when it lies between the two pointers.
Between(i, out, in) ==
  IF out <= in THEN out <= i /\ i < in ELSE out <= i \/ i < in

\* InRing without the modulo.
LEMMA RingIsBetween ==
  ASSUME NEW i \in Slots, NEW out \in Slots, NEW in \in Slots
  PROVE  InRing(i, out, in) <=> Between(i, out, in)
<1>1. PICK L \in Nat : L = QueueLength /\ L > 0
  BY TagFacts
<1>2. /\ i \in Int /\ 0 <= i /\ i < L /\ out \in Int /\ 0 <= out /\ out < L
      /\ in \in Int /\ 0 <= in /\ in < L
  BY <1>1 DEF Slots
<1>3. (i - out + L) % L = IF out <= i THEN i - out ELSE i - out + L
  <2>1. PICK x \in Int : x = i - out + L
    BY <1>2
  <2>2. x % L = IF x < L THEN x ELSE x - L
    BY <1>1, <1>2, <2>1, ModFacts
  <2>3. QED
    BY <1>2, <2>1, <2>2
<1>4. (in - out + L) % L = IF out <= in THEN in - out ELSE in - out + L
  <2>1. PICK x \in Int : x = in - out + L
    BY <1>2
  <2>2. x % L = IF x < L THEN x ELSE x - L
    BY <1>1, <1>2, <2>1, ModFacts
  <2>3. QED
    BY <1>2, <2>1, <2>2
<1>5. QED
  BY <1>1, <1>2, <1>3, <1>4 DEF InRing, Between

\* The next slot, without the modulo.
LEMMA NextSlot ==
  ASSUME NEW i \in Slots
  PROVE  /\ Next1(i) \in Slots
         /\ Next1(i) = IF i = QueueLength - 1 THEN 0 ELSE i + 1
<1>1. PICK L \in Nat : L = QueueLength /\ L > 0
  BY TagFacts
<1>2. PICK x \in Int : x = i + 1
  BY DEF Slots
<1>3. x % L = IF x < L THEN x ELSE x - L
  BY <1>1, <1>2, ModFacts DEF Slots
<1>4. QED
  BY <1>1, <1>2, <1>3 DEF Next1, Slots

\* A slot is written at the in pointer, of a ring that does not fill up.
LEMMA RingGrows ==
  ASSUME NEW out \in Slots, NEW in \in Slots, Next1(in) # out
  PROVE  /\ ~InRing(in, out, in)
         /\ \A i \in Slots : InRing(i, out, Next1(in)) <=> InRing(i, out, in) \/ i = in
<1>1. Next1(in) \in Slots /\ Next1(in) = IF in = QueueLength - 1 THEN 0 ELSE in + 1
  BY NextSlot
<1>2. ~Between(in, out, in)
  BY DEF Between, Slots
<1>3. \A i \in Slots : Between(i, out, Next1(in)) <=> Between(i, out, in) \/ i = in
  BY <1>1, TagFacts DEF Between, Slots
<1>4. QED
  BY <1>1, <1>2, <1>3, RingIsBetween

\* A slot is read at the out pointer of a ring that is not empty.
LEMMA RingShrinks ==
  ASSUME NEW out \in Slots, NEW in \in Slots, out # in
  PROVE  /\ InRing(out, out, in)
         /\ \A i \in Slots : InRing(i, Next1(out), in) <=> InRing(i, out, in) /\ i # out
<1>1. Next1(out) \in Slots /\ Next1(out) = IF out = QueueLength - 1 THEN 0 ELSE out + 1
  BY NextSlot
<1>2. Between(out, out, in)
  BY DEF Between, Slots
<1>3. \A i \in Slots : Between(i, Next1(out), in) <=> Between(i, out, in) /\ i # out
  BY <1>1, TagFacts DEF Between, Slots
<1>4. QED
  BY <1>1, <1>2, <1>3, RingIsBetween

\* An empty ring.
LEMMA RingEmpty ==
  ASSUME NEW out \in Slots
  PROVE  \A i \in Slots : ~InRing(i, out, out)
<1>1. \A i \in Slots : ~Between(i, out, out)
  BY DEF Between, Slots
<1>2. QED
  BY <1>1, RingIsBetween

\* With one slot left the ring holds all the others.
LEMMA RingFull ==
  ASSUME NEW out \in Slots, NEW in \in Slots, Next1(in) = out
  PROVE  \A i \in Slots : i # in => InRing(i, out, in)
<1>1. Next1(in) = IF in = QueueLength - 1 THEN 0 ELSE in + 1
  BY NextSlot
<1>2. \A i \in Slots : i # in => Between(i, out, in)
  BY <1>1, TagFacts DEF Between, Slots
<1>3. QED
  BY <1>2, RingIsBetween

\* Fewer tags than slots: a ring of different tags never fills up.
LEMMA RingHasRoom ==
  ASSUME NEW out \in Slots, NEW in \in Slots, NEW f, NEW t \in HostTags,
         \A i \in Slots : InRing(i, out, in) => f[i] \in HostTags \ {t},
         \A i, j \in Slots : InRing(i, out, in) /\ InRing(j, out, in) /\ f[i] = f[j] => i = j
  PROVE  Next1(in) # out
<1>1. SUFFICES ASSUME Next1(in) = out PROVE FALSE
  OBVIOUS
<1>2. \A i \in Slots \ {in} : InRing(i, out, in)
  BY <1>1, RingFull
<1>3. PICK g : g = [i \in Slots \ {in} |-> f[i]]
  OBVIOUS
<1>4. g \in [Slots \ {in} -> HostTags \ {t}] /\ \A i \in Slots \ {in} : g[i] = f[i]
  BY <1>2, <1>3
<1>5. IsFiniteSet(Slots) /\ Cardinality(Slots) = QueueLength
  <2>1. PICK b \in Int : b = QueueLength - 1 /\ b >= 0
    BY TagFacts
  <2>2. IsFiniteSet(0..b) /\ Cardinality(0..b) = b + 1
    BY <2>1, FS_Interval
  <2>3. QED
    BY <2>1, <2>2, TagFacts DEF Slots
<1>6. IsFiniteSet(Slots \ {in}) /\ Cardinality(Slots \ {in}) = QueueLength - 1
  BY <1>5, FS_RemoveElement
<1>7. IsFiniteSet(HostTags \ {t}) /\ Cardinality(HostTags \ {t}) = Cardinality(HostTags) - 1
  BY EdmaAssumption, FS_RemoveElement
<1>8. Cardinality(HostTags \ {t}) < Cardinality(Slots \ {in})
  BY <1>6, <1>7, TagFacts
<1>9. \E x, y \in Slots \ {in} : x # y /\ g[x] = g[y]
  <2>1. PICK S, T : S = Slots \ {in} /\ T = HostTags \ {t}
    OBVIOUS
  <2>2. /\ IsFiniteSet(S) /\ IsFiniteSet(T) /\ Cardinality(T) < Cardinality(S)
        /\ g \in [S -> T]
    BY <1>4, <1>6, <1>7, <1>8, <2>1
  <2>3. \E x, y \in S : x # y /\ g[x] = g[y]
    BY <2>2, FS_PigeonHole
  <2>4. QED
    BY <2>1, <2>3
<1>10. QED
  BY <1>2, <1>4, <1>9

\* The slots filled by _insertQCommandsIntoEdma from an empty ring on.
LEMMA RingFilled ==
  ASSUME NEW a \in Slots, NEW n \in 0..(QueueLength - 1), NEW i \in Slots, NEW j \in Slots
  PROVE  /\ (a + n) % QueueLength \in Slots
         /\ 1 + ((i - a + QueueLength) % QueueLength) \in 1..QueueLength
         /\ InRing(i, a, (a + n) % QueueLength)
              <=> 1 + ((i - a + QueueLength) % QueueLength) <= n
         /\ 1 + ((i - a + QueueLength) % QueueLength) =
            1 + ((j - a + QueueLength) % QueueLength) => i = j
<1>1. PICK L \in Nat : L = QueueLength /\ L > 0
  BY TagFacts
<1>2. /\ i \in Int /\ 0 <= i /\ i < L /\ a \in Int /\ 0 <= a /\ a < L
      /\ n \in Int /\ 0 <= n /\ n < L /\ j \in Int /\ 0 <= j /\ j < L
  BY <1>1 DEF Slots
<1>3. PICK b \in Int : b = (a + n) % L
  BY <1>1, <1>2
<1>4. b = IF a + n < L THEN a + n ELSE a + n - L
  <2>1. PICK x \in Int : x = a + n
    BY <1>2
  <2>2. x % L = IF x < L THEN x ELSE x - L
    BY <1>1, <1>2, <2>1, ModFacts
  <2>3. QED
    BY <1>2, <1>3, <2>1, <2>2
<1>5. (i - a + L) % L = IF a <= i THEN i - a ELSE i - a + L
  <2>1. PICK x \in Int : x = i - a + L
    BY <1>2
  <2>2. x % L = IF x < L THEN x ELSE x - L
    BY <1>1, <1>2, <2>1, ModFacts
  <2>3. QED
    BY <1>2, <2>1, <2>2
<1>6. (j - a + L) % L = IF a <= j THEN j - a ELSE j - a + L
  <2>1. PICK x \in Int : x = j - a + L
    BY <1>2
  <2>2. x % L = IF x < L THEN x ELSE x - L
    BY <1>1, <1>2, <2>1, ModFacts
  <2>3. QED
    BY <1>2, <2>1, <2>2
<1>7. (b - a + L) % L = n
  <2>1. PICK x \in Int : x = b - a + L
    BY <1>2
  <2>2. 0 <= x /\ x < 2 * L /\ (x = n \/ x = n + L)
    BY <1>2, <1>4, <2>1
  <2>3. x % L = IF x < L THEN x ELSE x - L
    BY <1>1, <2>1, <2>2, ModFacts
  <2>4. QED
    BY <1>2, <2>1, <2>2, <2>3
<1>8. b \in Slots
  BY <1>1, <1>2, <1>4 DEF Slots
<1>9. QED
  BY <1>1, <1>2, <1>3, <1>5, <1>6, <1>7, <1>8 DEF InRing

-----------------------------------------------------------------------------
(* The inductive invariant, of a channel s and the locals l of the         *)
(* interrupt routine.                                                      *)

Locals == [pc : Pcs, ret : {"idle", "responses"}, edmaError : BOOLEAN,
           rspInPtr : Slots, rspOutPtr : Slots]

Native(s)  == s.queuedDMA = "NATIVE_QUEUING"
Sensing(s) == s.state \in {"WAIT_FOR_BUSY", "REQUEST_SENSE"}
InError(s) == {p \in Ports : s.erring[p] # NoTag}

Request(s, i)   == InRing(i, s.reqOutPtr, s.reqInPtr)
Responded(s, i) == InRing(i, s.rspOutPtr, s.rspInPtr)
Empty(s) == s.reqOutPtr = s.reqInPtr /\ s.rspOutPtr = s.rspInPtr

\* The rings mean something: the driver reads or writes them, or will insert
\* commands again without having reset them.
Live(s, l) == \/ s.queueCommandsEnabled \/ s.EdmaActive \/ s.pio # NoTag
              \/ l.pc = "insert" \/ Sensing(s)

\* A command in the EDMA is at one place at most: executing, in a request or
\* in a response.
Rings(s) ==
  /\ s.executing \subseteq InEdma(s)
  /\ \A i \in Slots : Request(s, i) => s.requestQueue[i] \in InEdma(s) \ s.executing
  /\ \A i \in Slots : Responded(s, i) => s.responseQueue[i].id \in InEdma(s) \ s.executing
  /\ \A i, j \in Slots : Request(s, i) /\ Request(s, j) =>
                           (s.requestQueue[i] = s.requestQueue[j] => i = j)
  /\ \A i, j \in Slots : Responded(s, i) /\ Responded(s, j) =>
                           (s.responseQueue[i].id = s.responseQueue[j].id => i = j)
  /\ \A i, j \in Slots : Request(s, i) /\ Responded(s, j)
                           => s.requestQueue[i] # s.responseQueue[j].id

\* When the EDMA is stopped nothing is left in the rings.
RingsLive(s, l) == Live(s, l) => Rings(s) /\ (~s.EdmaActive => Empty(s))

\* In the EDMA and at none of these places: failed, rejected or aborted.
Loose(s, t) ==
  /\ t \in InEdma(s) \ s.executing
  /\ \A i \in Slots : Request(s, i) => s.requestQueue[i] # t
  /\ \A i \in Slots : Responded(s, i) => s.responseQueue[i].id # t

\* The command a port reports as failed.
Failing(s, p) ==
  \E t \in HostTags : /\ Loose(s, t) /\ s.entry[t].PMPort = p
                      /\ s.entry[t].deviceTag = s.erring[p]

\* A port in error still has its failed command.
FailsOK(s) == \A p \in InError(s) : Failing(s, p)

\* Commands are marked aborted only at ports the driver knows to be in error.
AbortsOK(s) ==
  \A t \in InEdma(s) : s.entry[t].commandAborted => s.entry[t].PMPort \in s.PortsWithErrors

FailingOK(s, l) == /\ Native(s) /\ Live(s, l) => FailsOK(s)
                   /\ Live(s, l) /\ l.pc # "insert" => AbortsOK(s)

\* All the leading UDMA commands are in the EDMA.
AllInserted(s) ==
  \A k \in 1..Len(s.commandsQueue) :
    (\A j \in 1..k : ~IsPIO(s, s.commandsQueue[j])) => s.commandsQueue[k] \in InEdma(s)

\* They are, outside of a recovery.
Inserted(s, l) ==
  s.state = "IDLE" /\ s.queueCommandsEnabled /\ l.pc # "insert" => AllInserted(s)

\* What the driver believes of the engine.
Engine(s, l) ==
  /\ s.edmaEnabled => s.EdmaActive
  /\ ~s.edmaEnabled => s.executing = {}
  /\ s.edmaEnabled => \A i \in Slots : Responded(s, i) => ~s.responseQueue[i].err
  /\ "selfDisable" \in s.errorCause => ~s.edmaEnabled /\ ~Native(s)
  /\ l.pc \in {"insert", "ports"} => ~s.EdmaActive

\* The routine's copies of the response pointers.
Reads(s, l) ==
  /\ l.pc \in {"insert", "ports"} /\ l.ret = "responses" => l.rspOutPtr = l.rspInPtr
  /\ l.pc = "responses" /\ l.rspOutPtr # l.rspInPtr =>
       /\ l.rspOutPtr = s.rspOutPtr
       /\ l.rspInPtr = s.rspInPtr \/ InRing(l.rspInPtr, s.rspOutPtr, s.rspInPtr)

\* A response is announced, or the routine is about to see it.
Announced(s, l) ==
  s.queueCommandsEnabled /\ ~s.responseDone /\ s.rspOutPtr # s.rspInPtr =>
    \/ l.pc = "cleared"
    \/ l.pc = "responses" /\ l.rspInPtr = s.rspInPtr /\ l.rspOutPtr = s.rspOutPtr

\* The PIO command that runs.
PioOK(s) ==
  /\ s.pio # NoTag => /\ ~s.EdmaActive /\ s.commandsQueue # <<>>
                      /\ s.pio = Head(s.commandsQueue)
  /\ s.pio \in HostTags => s.entry[s.pio].type = "NONE_UDMA" /\ s.state = "IDLE"
  /\ ReadLog \in Elems(s.commandsQueue) <=> s.pio = ReadLog
  /\ s.pio = ReadLog => s.state = "REQUEST_SENSE"

\* The states of the recovery from device errors.
Recovery(s, l) ==
  /\ s.state # "IDLE" => Native(s)
  /\ s.state = "IDLE" => s.PortsWithErrors = {}
  /\ s.state \in {"WAIT_FOR_COMPLETIONS", "WAIT_FOR_BUSY"} =>
       s.PortsWithErrors # {} /\ s.PortsWithErrors \subseteq InError(s)
  /\ Sensing(s) => ~s.EdmaActive /\ InError(s) \subseteq s.PortsWithErrors
  /\ s.state = "REQUEST_SENSE" => InError(s) = {p \in s.PortsWithErrors : p >= s.CurrPort}
  /\ s.state = "REQUEST_SENSE" /\ l.pc # "ports" => s.CurrPort \in InError(s)
  /\ l.pc = "ports" => s.state = "REQUEST_SENSE" /\ s.pio = NoTag
  /\ l.pc = "insert" => s.state = "IDLE"
  /\ Native(s) /\ s.EdmaActive /\ "devErr" \in s.errorCause => InError(s) # {}
  /\ Native(s) /\ l.pc = "insert" => InError(s) = {}

\* A channel the IAL initialises is empty, and quiet once it is configured.
NotReady(s, l) ==
  /\ s.phase # "ready" => /\ s.commandsQueue = <<>> /\ s.state = "IDLE" /\ ~s.EdmaActive
                          /\ s.pio = NoTag /\ InError(s) = {} /\ Empty(s)
  /\ s.phase = "configured" => /\ ~s.queueCommandsEnabled /\ ~s.responseDone
                               /\ s.errorCause \cap {"devErr", "selfDisable"} = {}
                               /\ l.pc \in {"idle", "error"}

\* Without spurious interrupts the device interrupt is unmasked whenever the
\* EDMA is stopped.
Heard(s, l) == "spurious" \notin Faults /\ Live(s, l) /\ ~s.EdmaActive => s.saDevMask

\* Where the device interrupt is unmasked the EDMA has nothing left to do, even
\* in a queue that is disabled.
Owner(s) ==
  s.saDevMask => /\ ~s.EdmaActive /\ Empty(s) /\ s.state # "WAIT_FOR_COMPLETIONS"
                 /\ Native(s) /\ s.state = "IDLE" => InError(s) = {}

Control(s, l) ==
  /\ Engine(s, l) /\ Reads(s, l) /\ Announced(s, l) /\ PioOK(s)
  /\ Recovery(s, l) /\ NotReady(s, l) /\ Heard(s, l) /\ Owner(s)

Inv(s, l) ==
  /\ QInv(s) /\ l \in Locals /\ Inserted(s, l) /\ RingsLive(s, l)
  /\ FailingOK(s, l) /\ Control(s, l)

-----------------------------------------------------------------------------
(* What the operations on the rings do to them.                            *)

SameRequests(s, r) ==
  /\ r.reqInPtr = s.reqInPtr /\ r.reqOutPtr = s.reqOutPtr
  /\ r.requestQueue = s.requestQueue

SameResponses(s, r) ==
  /\ r.rspInPtr = s.rspInPtr /\ r.rspOutPtr = s.rspOutPtr
  /\ r.responseQueue = s.responseQueue

\* No command that lost its place gets one.
StaysLoose(s, r) == \A t \in HostTags : Loose(s, t) => Loose(r, t)

\* The fields of the rings have their types.
LEMMA RingTypes ==
  ASSUME NEW s \in Channel
  PROVE  /\ s.reqInPtr \in Slots /\ s.reqOutPtr \in Slots
         /\ s.rspInPtr \in Slots /\ s.rspOutPtr \in Slots
         /\ s.requestQueue \in [Slots -> Tags]
         /\ s.responseQueue \in [Slots -> Response]
         /\ InEdma(s) \subseteq HostTags
BY DEF Channel, InEdma, Used

\* More commands in the EDMA, fewer executing.
LEMMA RingsCovered ==
  ASSUME NEW s \in Channel, NEW r \in Channel, Rings(s), SameRings(s, r),
         r.executing \subseteq s.executing, InEdma(s) \subseteq InEdma(r)
  PROVE  Rings(r) /\ StaysLoose(s, r)
<1>1. \A i \in Slots : /\ Request(r, i) <=> Request(s, i)
                       /\ Responded(r, i) <=> Responded(s, i)
  BY DEF SameRings, Request, Responded
<1>2. r.requestQueue = s.requestQueue /\ r.responseQueue = s.responseQueue
  BY DEF SameRings
<1>3. Rings(r)
  BY <1>1, <1>2 DEF Rings
<1>4. StaysLoose(s, r)
  BY <1>1, <1>2 DEF Loose, StaysLoose
<1>5. QED
  BY <1>3, <1>4

\* Empty rings.
LEMMA RingsEmpty ==
  ASSUME NEW s \in Channel, Empty(s), s.executing = {}
  PROVE  /\ Rings(s) /\ \A i \in Slots : ~Request(s, i) /\ ~Responded(s, i)
<1>1. \A i \in Slots : ~Request(s, i) /\ ~Responded(s, i)
  BY RingTypes, RingEmpty DEF Empty, Request, Responded
<1>2. QED
  BY <1>1 DEF Rings

\* A command in a ring that holds no other commands than those in the EDMA.
LEMMA RingsOccupied ==
  ASSUME NEW s \in Channel, Rings(s), InEdma(s) = {}
  PROVE  Empty(s)
<1>1. \A i \in Slots : ~Request(s, i) /\ ~Responded(s, i)
  BY DEF Rings
<1>2. QED
  BY <1>1, RingTypes, RingShrinks DEF Empty, Request, Responded

\* EdmaReqQueueInsert.
LEMMA RingsInsert ==
  ASSUME NEW s \in Channel, NEW r \in Channel, Rings(s),
         NEW t \in HostTags, t \notin InEdma(s), InEdma(r) = InEdma(s) \cup {t},
         r.requestQueue = [s.requestQueue EXCEPT ![s.reqInPtr] = t],
         r.reqInPtr = Next1(s.reqInPtr), r.reqOutPtr = s.reqOutPtr,
         SameResponses(s, r), r.executing = s.executing
  PROVE  Rings(r) /\ StaysLoose(s, r)
<1>1. PICK a \in Slots : a = s.reqInPtr
  BY RingTypes
<1>2. Next1(a) # s.reqOutPtr
  <2>1. \A i \in Slots : InRing(i, s.reqOutPtr, a) => s.requestQueue[i] \in HostTags \ {t}
    BY <1>1, RingTypes DEF Rings, Request
  <2>2. \A i, j \in Slots : /\ InRing(i, s.reqOutPtr, a) /\ InRing(j, s.reqOutPtr, a)
                            /\ s.requestQueue[i] = s.requestQueue[j]
                            => i = j
    BY <1>1 DEF Rings, Request
  <2>3. s.reqOutPtr \in Slots
    BY RingTypes
  <2>4. QED
    BY <2>1, <2>2, <2>3, RingHasRoom
<1>3. \A i \in Slots : Request(r, i) <=> Request(s, i) \/ i = a
  BY <1>1, <1>2, RingTypes, RingGrows DEF Request
<1>4. ~Request(s, a)
  BY <1>1, <1>2, RingTypes, RingGrows DEF Request
<1>5. r.requestQueue[a] = t /\ \A i \in Slots : i # a => r.requestQueue[i] = s.requestQueue[i]
  BY <1>1, RingTypes
<1>6. /\ \A i \in Slots : Responded(r, i) <=> Responded(s, i)
      /\ r.responseQueue = s.responseQueue
  BY DEF SameResponses, Responded
<1>7. Rings(r)
  BY <1>3, <1>4, <1>5, <1>6 DEF Rings
<1>8. StaysLoose(s, r)
  BY <1>3, <1>4, <1>5, <1>6 DEF Loose, StaysLoose
<1>9. QED
  BY <1>7, <1>8

\* The engine fetches a request and executes it, or drops it.
LEMMA RingsFetch ==
  ASSUME NEW s \in Channel, NEW r \in Channel, Rings(s), s.reqOutPtr # s.reqInPtr,
         NEW t, t = s.requestQueue[s.reqOutPtr], InEdma(r) = InEdma(s),
         r.requestQueue = [s.requestQueue EXCEPT ![s.reqOutPtr] = NoTag],
         r.reqOutPtr = Next1(s.reqOutPtr), r.reqInPtr = s.reqInPtr,
         SameResponses(s, r), r.executing \in {s.executing, s.executing \cup {t}}
  PROVE  Rings(r) /\ StaysLoose(s, r) /\ t \in InEdma(s)
<1>1. PICK a \in Slots : a = s.reqOutPtr
  BY RingTypes
<1>2. \A i \in Slots : Request(r, i) <=> Request(s, i) /\ i # a
  BY <1>1, RingTypes, RingShrinks DEF Request
<1>3. Request(s, a)
  BY <1>1, RingTypes, RingShrinks DEF Request
<1>4. \A i \in Slots : i # a => r.requestQueue[i] = s.requestQueue[i]
  BY <1>1, RingTypes
<1>5. /\ \A i \in Slots : Responded(r, i) <=> Responded(s, i)
      /\ r.responseQueue = s.responseQueue
  BY DEF SameResponses, Responded
<1>6. s.requestQueue[a] = t /\ t \in InEdma(s) \ s.executing
  BY <1>1, <1>3 DEF Rings
<1>7. \A i \in Slots : Request(r, i) => Request(s, i) /\ r.requestQueue[i] = s.requestQueue[i]
                                        /\ s.requestQueue[i] # t
  BY <1>2, <1>3, <1>4, <1>6 DEF Rings
<1>8. \A i \in Slots : Responded(s, i) => s.responseQueue[i].id # t
  BY <1>3, <1>6 DEF Rings
<1>9. Rings(r)
  BY <1>5, <1>6, <1>7, <1>8 DEF Rings
<1>10. StaysLoose(s, r)
  BY <1>3, <1>5, <1>6, <1>7 DEF Loose, StaysLoose
<1>11. QED
  BY <1>6, <1>9, <1>10

\* A drive's answer enters the response ring.
LEMMA RingsRespond ==
  ASSUME NEW s \in Channel, NEW r \in Channel, Rings(s), NEW t \in s.executing,
         NEW b \in BOOLEAN, InEdma(r) = InEdma(s),
         r.responseQueue = [s.responseQueue EXCEPT ![s.rspInPtr] = [id |-> t, err |-> b]],
         r.rspInPtr = Next1(s.rspInPtr), r.rspOutPtr = s.rspOutPtr,
         SameRequests(s, r), r.executing \subseteq s.executing \ {t}
  PROVE  /\ Rings(r) /\ StaysLoose(s, r)
         /\ \A i \in Slots : Responded(r, i) <=> Responded(s, i) \/ i = s.rspInPtr
<1>1. PICK a \in Slots : a = s.rspInPtr
  BY RingTypes
<1>2. t \in InEdma(s) /\ t \in HostTags
  BY RingTypes DEF Rings
<1>3. Next1(a) # s.rspOutPtr
  <2>1. PICK f : f = [i \in Slots |-> s.responseQueue[i].id]
    OBVIOUS
  <2>2. \A i \in Slots : InRing(i, s.rspOutPtr, a) => f[i] \in HostTags \ {t}
    BY <1>1, <2>1, RingTypes DEF Rings, Responded
  <2>3. \A i, j \in Slots : /\ InRing(i, s.rspOutPtr, a) /\ InRing(j, s.rspOutPtr, a)
                            /\ f[i] = f[j]
                            => i = j
    BY <1>1, <2>1 DEF Rings, Responded
  <2>4. s.rspOutPtr \in Slots
    BY RingTypes
  <2>5. QED
    BY <1>2, <2>2, <2>3, <2>4, RingHasRoom
<1>4. \A i \in Slots : Responded(r, i) <=> Responded(s, i) \/ i = a
  BY <1>1, <1>3, RingTypes, RingGrows DEF Responded
<1>5. ~Responded(s, a)
  BY <1>1, <1>3, RingTypes, RingGrows DEF Responded
<1>6. /\ r.responseQueue[a].id = t
      /\ \A i \in Slots : i # a => r.responseQueue[i] = s.responseQueue[i]
  BY <1>1, RingTypes
<1>7. /\ \A i \in Slots : Request(r, i) <=> Request(s, i)
      /\ r.requestQueue = s.requestQueue
  BY DEF SameRequests, Request
<1>8. /\ \A i \in Slots : Request(s, i) => s.requestQueue[i] # t
      /\ \A i \in Slots : Responded(s, i) => s.responseQueue[i].id # t
  BY DEF Rings
<1>9. \A i \in Slots : Responded(r, i) =>
        \/ i = a
        \/ i # a /\ Responded(s, i) /\ r.responseQueue[i] = s.responseQueue[i]
  BY <1>4, <1>6
<1>10. Rings(r)
  BY <1>2, <1>6, <1>7, <1>8, <1>9 DEF Rings
<1>11. StaysLoose(s, r)
  BY <1>6, <1>7, <1>9 DEF Loose, StaysLoose
<1>12. QED
  BY <1>1, <1>4, <1>10, <1>11

\* The interrupt routine reads a response and its command leaves the queue.
LEMMA RingsRead ==
  ASSUME NEW s \in Channel, NEW r \in Channel, Rings(s), s.rspOutPtr # s.rspInPtr,
         NEW t, t = s.responseQueue[s.rspOutPtr].id, InEdma(r) = InEdma(s) \ {t},
         r.responseQueue = [s.responseQueue EXCEPT ![s.rspOutPtr] = NoResponse],
         r.rspOutPtr = Next1(s.rspOutPtr), r.rspInPtr = s.rspInPtr,
         SameRequests(s, r), r.executing \subseteq s.executing
  PROVE  Rings(r) /\ StaysLoose(s, r) /\ t \in InEdma(s)
<1>1. PICK a \in Slots : a = s.rspOutPtr
  BY RingTypes
<1>2. \A i \in Slots : Responded(r, i) <=> Responded(s, i) /\ i # a
  BY <1>1, RingTypes, RingShrinks DEF Responded
<1>3. Responded(s, a)
  BY <1>1, RingTypes, RingShrinks DEF Responded
<1>4. \A i \in Slots : i # a => r.responseQueue[i] = s.responseQueue[i]
  BY <1>1, RingTypes
<1>5. /\ \A i \in Slots : Request(r, i) <=> Request(s, i)
      /\ r.requestQueue = s.requestQueue
  BY DEF SameRequests, Request
<1>6. s.responseQueue[a].id = t /\ t \in InEdma(s) \ s.executing
  BY <1>1, <1>3 DEF Rings
<1>7. \A i \in Slots : Responded(r, i) =>
        /\ Responded(s, i) /\ r.responseQueue[i] = s.responseQueue[i]
        /\ s.responseQueue[i].id # t
  BY <1>2, <1>3, <1>4, <1>6 DEF Rings
<1>8. \A i \in Slots : Request(s, i) => s.requestQueue[i] # t
  BY <1>3, <1>6 DEF Rings
<1>9. Rings(r)
  BY <1>5, <1>6, <1>7, <1>8 DEF Rings
<1>10. StaysLoose(s, r)
  BY <1>3, <1>5, <1>6, <1>7 DEF Loose, StaysLoose
<1>11. QED
  BY <1>6, <1>9, <1>10

\* _insertQCommandsIntoEdma fills an empty request ring.
LEMMA RingsFill ==
  ASSUME NEW s \in Channel, NEW r \in Channel, Empty(s), SameResponses(s, r),
         r.executing = {}, r.reqOutPtr = s.reqOutPtr,
         NEW q, NEW n \in 0..(QueueLength - 1),
         \A k \in 1..n : q[k] \in InEdma(r), \A j, k \in 1..n : q[j] = q[k] => j = k,
         r.requestQueue = [i \in Slots |->
           IF 1 + ((i - s.reqInPtr + QueueLength) % QueueLength) <= n
           THEN q[1 + ((i - s.reqInPtr + QueueLength) % QueueLength)]
           ELSE s.requestQueue[i]],
         r.reqInPtr = (s.reqInPtr + n) % QueueLength
  PROVE  Rings(r) /\ \A i \in Slots : ~Responded(r, i)
<1>1. PICK a \in Slots : a = s.reqInPtr
  BY RingTypes
<1>2. r.reqOutPtr = a
  BY <1>1 DEF Empty
<1>3. \A i \in Slots : ~Responded(r, i)
  <2>1. r.rspInPtr = r.rspOutPtr /\ r.rspOutPtr \in Slots
    BY RingTypes DEF Empty, SameResponses
  <2>2. QED
    BY <2>1, RingEmpty DEF Responded
<1> DEFINE Place(i) == 1 + ((i - a + QueueLength) % QueueLength)
<1>4. ASSUME NEW i \in Slots
      PROVE  (Request(r, i) <=> Place(i) <= n) /\ Place(i) \in 1..QueueLength
  BY <1>1, <1>2, RingFilled DEF Request
<1>5. ASSUME NEW i \in Slots, NEW j \in Slots, Place(i) = Place(j) PROVE i = j
  BY <1>5, RingFilled
<1>6. \A i \in Slots : r.requestQueue[i] = IF Place(i) <= n THEN q[Place(i)] ELSE s.requestQueue[i]
  BY <1>1
<1> HIDE DEF Place
<1>7. \A i \in Slots : Request(r, i) => Place(i) \in 1..n /\ r.requestQueue[i] = q[Place(i)]
  BY <1>4, <1>6
<1>8. QED
  BY <1>3, <1>5, <1>7 DEF Rings

-----------------------------------------------------------------------------
(* Frames: what the parts of the invariant depend on.                      *)

\* Commands stay where they are while the registers and states change.
LEMMA FrameKeeps ==
  ASSUME NEW s, NEW r \in Channel, QInv(s), SameQueue(s, r), SameRings(s, r),
         r.executing \subseteq s.executing, r.erring = s.erring,
         s.PortsWithErrors \subseteq r.PortsWithErrors
  PROVE  /\ QInv(r) /\ Used(r) = Used(s) /\ InEdma(r) = InEdma(s) /\ Held(r) = Held(s)
         /\ Rings(s) => Rings(r)
         /\ Rings(s) /\ FailsOK(s) => FailsOK(r)
         /\ AbortsOK(s) => AbortsOK(r)
         /\ AllInserted(s) => AllInserted(r)
         /\ Empty(r) <=> Empty(s)
         /\ InError(r) = InError(s)
<1>1. QInv(r) /\ Used(r) = Used(s) /\ InEdma(r) = InEdma(s) /\ Held(r) = Held(s)
  BY SameQueueKeeps
<1>2. Rings(s) => Rings(r) /\ StaysLoose(s, r)
  BY <1>1, RingsCovered DEF QInv
<1>3. r.entry = s.entry /\ r.commandsQueue = s.commandsQueue
  BY DEF SameQueue, SameList
<1>4. Rings(s) /\ FailsOK(s) => FailsOK(r)
  BY <1>2, <1>3 DEF FailsOK, InError, Failing, StaysLoose
<1>5. AbortsOK(s) => AbortsOK(r)
  BY <1>1, <1>3 DEF AbortsOK
<1>6. AllInserted(s) => AllInserted(r)
  BY <1>1, <1>3 DEF AllInserted, IsPIO
<1>7. (Empty(r) <=> Empty(s)) /\ InError(r) = InError(s)
  BY DEF Empty, SameRings, InError
<1>8. QED
  BY <1>1, <1>2, <1>4, <1>5, <1>6, <1>7

\* What a step does for the layer above: it calls back commands the driver
\* holds, one at most unless the channel is given up with everything in it.
Served(s, r, called) ==
  /\ called \subseteq Held(s) /\ Held(r) = Held(s) \ called
  /\ \/ /\ called = {} \/ \E c \in Cmds : called = {c}
        /\ r.phase = s.phase
     \/ Held(r) = {} /\ r.phase # "ready"
     \/ called = {} /\ s.phase # "ready"

\* The request ring is not written while READ LOG EXT lives in it.
KeepsRing(s, r) ==
  ReadLog \in Elems(s.commandsQueue) /\ ReadLog \in Elems(r.commandsQueue)
    => r.requestQueue = s.requestQueue

Outcome(s, r, m, called) == Inv(r, m) /\ Served(s, r, called) /\ KeepsRing(s, r)

\* Commands that are held are commands of the upper layer.
LEMMA HeldFacts ==
  ASSUME NEW s, QInv(s)
  PROVE  /\ Held(s) \subseteq Cmds
         /\ Used(s) = {} <=> Held(s) = {}
         /\ s.commandsQueue = <<>> => Used(s) = {}
         /\ Used(s) = {} /\ ReadLog \notin Elems(s.commandsQueue) => s.commandsQueue = <<>>
<1>1. \A t \in Used(s) : s.entry[t] \in UsedEntry
  BY UsedFacts DEF QInv
<1>2. Held(s) \subseteq Cmds
  BY <1>1 DEF Held, UsedEntry
<1>3. Used(s) = {} <=> Held(s) = {}
  BY DEF Held
<1>4. s.commandsQueue \in Seq(Listable) /\ Elems(s.commandsQueue) \ {ReadLog} = Used(s)
  BY DEF QInv, Channel, QueueOK, ListOK
<1>5. s.commandsQueue = <<>> <=> Elems(s.commandsQueue) = {}
  BY <1>4, ElemsAt
<1>6. QED
  BY <1>2, <1>3, <1>4, <1>5

\* A step that neither adds, removes nor calls back a command.
LEMMA ServedNone ==
  ASSUME NEW s, NEW r, Held(r) = Held(s), r.phase = s.phase
  PROVE  Served(s, r, {})
BY DEF Served

\* A step that calls back one command.
LEMMA ServedOne ==
  ASSUME NEW s, NEW r, QInv(s), NEW c \in Held(s), Held(r) = Held(s) \ {c}, r.phase = s.phase
  PROVE  Served(s, r, {c})
BY HeldFacts DEF Served

-----------------------------------------------------------------------------
(* Steps of the interrupt routine that move no command.                    *)

\* The fields of the driver and the queue are the same, except those named.
Quiet(s, r) ==
  /\ r \in Channel /\ SameQueue(s, r) /\ SameRings(s, r) /\ SameErrors(s, r)
  /\ SameMode(s, r) /\ r.EdmaActive = s.EdmaActive /\ r.saDevMask = s.saDevMask
  /\ r.executing \subseteq s.executing

\* Such a step keeps what does not depend on the locals.
LEMMA QuietKeeps ==
  ASSUME NEW s, NEW l, NEW r, NEW m \in Locals, Inv(s, l), Quiet(s, r),
         m.pc \in {"insert", "ports"} <=> l.pc \in {"insert", "ports"},
         m.pc = "insert" <=> l.pc = "insert",
         Engine(r, m), Reads(r, m), Announced(r, m), NotReady(r, m),
         Native(r) /\ r.EdmaActive /\ "devErr" \in r.errorCause => InError(r) # {}
  PROVE  Outcome(s, r, m, {})
<1>1. /\ QInv(s) /\ l \in Locals /\ Inserted(s, l) /\ RingsLive(s, l) /\ FailingOK(s, l)
      /\ PioOK(s) /\ Recovery(s, l) /\ Heard(s, l) /\ Owner(s)
  BY DEF Inv, Control
<1>2. /\ r \in Channel /\ SameQueue(s, r) /\ SameRings(s, r) /\ r.executing \subseteq s.executing
      /\ r.erring = s.erring /\ r.PortsWithErrors = s.PortsWithErrors
      /\ r.state = s.state /\ r.CurrPort = s.CurrPort
      /\ r.queueCommandsEnabled = s.queueCommandsEnabled /\ r.queuedDMA = s.queuedDMA
      /\ r.pio = s.pio /\ r.phase = s.phase
      /\ r.EdmaActive = s.EdmaActive /\ r.saDevMask = s.saDevMask
  BY DEF Quiet, SameErrors, SameMode
<1>3. /\ QInv(r) /\ Used(r) = Used(s) /\ InEdma(r) = InEdma(s) /\ Held(r) = Held(s)
      /\ Rings(s) => Rings(r)
      /\ Rings(s) /\ FailsOK(s) => FailsOK(r)
      /\ AbortsOK(s) => AbortsOK(r)
      /\ AllInserted(s) => AllInserted(r)
      /\ Empty(r) <=> Empty(s)
      /\ InError(r) = InError(s)
  BY <1>1, <1>2, FrameKeeps
<1>4. (Live(r, m) <=> Live(s, l)) /\ (Native(r) <=> Native(s)) /\ (Sensing(r) <=> Sensing(s))
  BY <1>2 DEF Live, Native, Sensing
<1>5. Inserted(r, m)
  BY <1>1, <1>2, <1>3 DEF Inserted
<1>6. RingsLive(r, m)
  BY <1>1, <1>2, <1>3, <1>4 DEF RingsLive
<1>7. FailingOK(r, m)
  BY <1>1, <1>3, <1>4, <1>6 DEF FailingOK, RingsLive
<1>8. PioOK(r)
  <2>1. r.commandsQueue = s.commandsQueue /\ r.entry = s.entry
    BY <1>2 DEF SameQueue, SameList
  <2>2. QED
    BY <1>1, <1>2, <2>1 DEF PioOK
<1>9. m.pc = "ports" <=> l.pc = "ports"
  OBVIOUS
<1>10. Recovery(r, m)
  BY <1>1, <1>2, <1>3, <1>4, <1>9 DEF Recovery
<1>11. Heard(r, m)
  BY <1>1, <1>2, <1>4 DEF Heard
<1>12. Inv(r, m)
  <2>1. Owner(r)
    BY <1>1, <1>2, <1>3, <1>4 DEF Owner
  <2>2. QED
    BY <1>3, <1>5, <1>6, <1>7, <1>8, <1>10, <1>11, <2>1 DEF Inv, Control
<1>13. Served(s, r, {})
  BY <1>2, <1>3, ServedNone
<1>14. KeepsRing(s, r)
  BY <1>2 DEF KeepsRing, SameRings
<1>15. QED
  BY <1>12, <1>13, <1>14 DEF Outcome

\* Locals of a routine that is over, or goes on with the errors.
LEMMA LocalsFacts ==
  /\ Idle \in Locals /\ [Idle EXCEPT !.pc = "error"] \in Locals
  /\ Idle.pc = "idle" /\ [Idle EXCEPT !.pc = "error"].pc = "error"
<1>1. 0 \in Slots
  BY TagFacts DEF Slots
<1>2. QED
  BY <1>1 DEF Idle, Locals, Pcs

\* The causes are read and the unit cause is cleared.
LEMMA ClearsKeeps ==
  ASSUME NEW s, NEW l, NEW r, NEW m, Inv(s, l),
         l.pc = "idle", s.responseDone \/ s.errorCause # {},
         r = [s EXCEPT !.responseDone = FALSE],
         m = [Idle EXCEPT !.pc = IF s.responseDone THEN "cleared" ELSE "error",
                          !.edmaError = s.errorCause # {}]
  PROVE  Outcome(s, r, m, {})
<1>1. s \in Channel /\ Control(s, l)
  BY DEF Inv, QInv
<1>2. /\ Quiet(s, r)
      /\ r.edmaEnabled = s.edmaEnabled /\ r.executing = s.executing
      /\ r.errorCause = s.errorCause /\ r.responseDone = FALSE
  BY <1>1, ZenonT(60) DEF Channel, Quiet, SameQueue, SameList, SameRings, SameErrors, SameMode
<1>3. 0 \in Slots
  BY TagFacts DEF Slots
<1>4. m \in Locals /\ m.pc = IF s.responseDone THEN "cleared" ELSE "error"
  BY <1>1, <1>3 DEF Idle, Locals, Pcs, Channel
<1>5. Engine(r, m) /\ Reads(r, m)
  BY <1>1, <1>2, <1>4 DEF Control, Engine, Reads, Quiet, SameRings, SameMode, Responded, Native
<1>6. Announced(r, m)
  BY <1>1, <1>2, <1>4 DEF Control, Announced, Quiet, SameRings, SameMode
<1>7. NotReady(r, m)
  BY <1>1, <1>2, <1>4 DEF Control, NotReady, Quiet, SameRings, SameMode, SameErrors, SameQueue, SameList,
     InError, Empty
<1>8. Native(r) /\ r.EdmaActive /\ "devErr" \in r.errorCause => InError(r) # {}
  BY <1>1, <1>2 DEF Control, Recovery, Quiet, SameErrors, SameMode, InError, Native
<1>9. m.pc \notin {"insert", "ports"} /\ l.pc \notin {"insert", "ports"}
  BY <1>4
<1>10. QED
  BY <1>2, <1>4, <1>5, <1>6, <1>7, <1>8, <1>9, QuietKeeps

\* The locals move and the channel stays.
LEMMA LocalsMove ==
  ASSUME NEW s, NEW l, NEW m \in Locals, Inv(s, l),
         s.phase = "configured" => m.pc \in {"idle", "error"},
         l.pc \notin {"insert", "ports"}, m.pc \notin {"insert", "ports"},
         Reads(s, m), Announced(s, m)
  PROVE  Outcome(s, s, m, {})
<1>1. s \in Channel /\ Control(s, l)
  BY DEF Inv, QInv
<1>2. Quiet(s, s)
  BY <1>1 DEF Quiet, SameQueue, SameList, SameRings, SameErrors, SameMode
<1>3. Engine(s, m) /\ NotReady(s, m)
  BY <1>1 DEF Control, Engine, NotReady
<1>4. Native(s) /\ s.EdmaActive /\ "devErr" \in s.errorCause => InError(s) # {}
  BY <1>1 DEF Control, Recovery
<1>5. QED
  BY <1>2, <1>3, <1>4, QuietKeeps

\* In a channel that is configured the interrupt routine only looks for errors.
LEMMA RoutineRuns ==
  ASSUME NEW s, NEW l, Inv(s, l), l.pc \notin {"idle", "error"}
  PROVE  s.phase # "configured"
BY DEF Inv, Control, NotReady

\* The response pointer is read.
LEMMA ReadsKeeps ==
  ASSUME NEW s, NEW l, NEW m, Inv(s, l), l.pc = "cleared",
         m = [l EXCEPT !.pc = "responses", !.rspInPtr = s.rspInPtr,
                       !.rspOutPtr = s.rspOutPtr]
  PROVE  Outcome(s, s, m, {})
<1>1. s \in Channel /\ Control(s, l) /\ l \in Locals
  BY DEF Inv, QInv
<1>2. /\ m \in Locals /\ m.pc = "responses" /\ m.rspInPtr = s.rspInPtr
      /\ m.rspOutPtr = s.rspOutPtr
  BY <1>1, RingTypes DEF Locals, Pcs
<1>3. Reads(s, m) /\ Announced(s, m)
  BY <1>2 DEF Reads, Announced
<1>4. QED
  BY <1>2, <1>3, RoutineRuns, LocalsMove

\* The routine ends, or goes on with the errors, when no response is left that
\* it has seen.
LEMMA EndsKeeps ==
  ASSUME NEW s, NEW l, NEW m, Inv(s, l), m \in {Idle, [Idle EXCEPT !.pc = "error"]},
         \/ l.pc = "responses" /\ l.rspOutPtr = l.rspInPtr
         \/ l.pc = "error"
  PROVE  Outcome(s, s, m, {})
<1>1. Control(s, l) /\ m \in Locals /\ m.pc \in {"idle", "error"}
  BY LocalsFacts DEF Inv
<1>2. Reads(s, m)
  BY <1>1 DEF Reads
<1>3. Announced(s, m)
  BY <1>1 DEF Control, Announced
<1>4. l.pc \notin {"insert", "ports"} /\ m.pc \notin {"insert", "ports"}
  BY <1>1
<1>5. QED
  BY <1>1, <1>2, <1>3, <1>4, LocalsMove

\* The error register is cleared and nothing else happens.
LEMMA ClearedKeeps ==
  ASSUME NEW s, NEW l, NEW r, Inv(s, l), l.pc = "error", r = [s EXCEPT !.errorCause = {}]
  PROVE  Outcome(s, r, Idle, {})
<1>1. s \in Channel /\ Control(s, l)
  BY DEF Inv, QInv
<1>2. /\ Quiet(s, r) /\ r.edmaEnabled = s.edmaEnabled /\ r.executing = s.executing
      /\ r.errorCause = {} /\ r.responseDone = s.responseDone
  BY <1>1, ZenonT(60) DEF Channel, Quiet, SameQueue, SameList, SameRings, SameErrors, SameMode
<1>3. Idle \in Locals /\ Idle.pc = "idle"
  BY LocalsFacts
<1>4. Engine(r, Idle) /\ Reads(r, Idle)
  BY <1>1, <1>2, <1>3 DEF Control, Engine, Reads, Quiet, SameRings, SameMode, Responded
<1>5. Announced(r, Idle)
  BY <1>1, <1>2, <1>3 DEF Control, Announced, Quiet, SameRings, SameMode
<1>6. NotReady(r, Idle)
  BY <1>1, <1>2, <1>3 DEF Control, NotReady, Quiet, SameRings, SameMode, SameErrors, SameQueue,
     SameList, InError, Empty
<1>7. QED
  BY <1>2, <1>3, <1>4, <1>5, <1>6, QuietKeeps

\* A link event stops the engine.
LEMMA LinkKeeps ==
  ASSUME NEW s, NEW l, NEW r, NEW kind \in LinkFaults, Inv(s, l),
         r = [s EXCEPT !.errorCause = @ \cup {kind}, !.edmaEnabled = FALSE,
                       !.executing = {}]
  PROVE  Outcome(s, r, l, {})
<1>1. s \in Channel /\ Control(s, l) /\ l \in Locals
  BY DEF Inv, QInv
<1>2. /\ Quiet(s, r) /\ r.edmaEnabled = FALSE /\ r.executing = {}
      /\ r.errorCause = s.errorCause \cup {kind} /\ r.responseDone = s.responseDone
  BY <1>1, ZenonT(60) DEF Channel, Quiet, SameQueue, SameList, SameRings, SameErrors, SameMode, Causes
<1>3. kind # "selfDisable" /\ kind # "devErr"
  BY DEF LinkFaults
<1>4. Engine(r, l) /\ Reads(r, l)
  BY <1>1, <1>2, <1>3 DEF Control, Engine, Reads, Quiet, SameRings, SameMode, Native
<1>5. Announced(r, l)
  BY <1>1, <1>2 DEF Control, Announced, Quiet, SameRings, SameMode
<1>6. NotReady(r, l)
  BY <1>1, <1>2, <1>3 DEF Control, NotReady, Quiet, SameRings, SameMode, SameErrors, SameQueue,
     SameList, InError, Empty
<1>7. Native(r) /\ r.EdmaActive /\ "devErr" \in r.errorCause => InError(r) # {}
  BY <1>1, <1>2, <1>3 DEF Control, Recovery, Quiet, SameErrors, SameMode, InError, Native
<1>8. QED
  BY <1>1, <1>2, <1>4, <1>5, <1>6, <1>7, QuietKeeps

\* A notice is one more cause in the register.
LEMMA NoticeKeeps ==
  ASSUME NEW s, NEW l, NEW r, NEW kind \in Notices, Inv(s, l),
         r = [s EXCEPT !.errorCause = @ \cup {kind}]
  PROVE  Outcome(s, r, l, {})
<1>1. s \in Channel /\ Control(s, l) /\ l \in Locals
  BY DEF Inv, QInv
<1>2. /\ Quiet(s, r) /\ r.edmaEnabled = s.edmaEnabled /\ r.executing = s.executing
      /\ r.errorCause = s.errorCause \cup {kind} /\ r.responseDone = s.responseDone
  BY <1>1, ZenonT(60) DEF Channel, Quiet, SameQueue, SameList, SameRings, SameErrors, SameMode, Causes
<1>3. kind # "selfDisable" /\ kind # "devErr"
  BY DEF Notices
<1>4. Engine(r, l) /\ Reads(r, l)
  BY <1>1, <1>2, <1>3 DEF Control, Engine, Reads, Quiet, SameRings, SameMode, Native, Responded
<1>5. Announced(r, l)
  BY <1>1, <1>2 DEF Control, Announced, Quiet, SameRings, SameMode
<1>6. NotReady(r, l)
  BY <1>1, <1>2, <1>3 DEF Control, NotReady, Quiet, SameRings, SameMode, SameErrors, SameQueue,
     SameList, InError, Empty
<1>7. Native(r) /\ r.EdmaActive /\ "devErr" \in r.errorCause => InError(r) # {}
  BY <1>1, <1>2, <1>3 DEF Control, Recovery, Quiet, SameErrors, SameMode, InError, Native
<1>8. QED
  BY <1>1, <1>2, <1>4, <1>5, <1>6, <1>7, QuietKeeps

-----------------------------------------------------------------------------
(* The hardware.                                                           *)

\* A channel whose engine works.
LEMMA EngineWorks ==
  ASSUME NEW s, NEW l, Inv(s, l), s.EdmaActive
  PROVE  /\ Live(s, l) /\ Rings(s) /\ s.phase = "ready" /\ s.pio = NoTag /\ ~Sensing(s)
         /\ l.pc \notin {"insert", "ports"} /\ ReadLog \notin Elems(s.commandsQueue)
         /\ s \in Channel /\ AbortsOK(s) /\ (Native(s) => FailsOK(s))
<1>1. s \in Channel /\ Control(s, l) /\ RingsLive(s, l) /\ Live(s, l) /\ FailingOK(s, l)
  BY DEF Inv, QInv, Live
<1>2. s.phase = "ready" /\ s.pio = NoTag /\ ~Sensing(s) /\ l.pc \notin {"insert", "ports"}
  BY <1>1 DEF Control, NotReady, PioOK, Recovery, Engine
<1>3. ReadLog \notin Elems(s.commandsQueue)
  BY <1>1, <1>2, TagFacts DEF Control, PioOK
<1>4. QED
  BY <1>1, <1>2, <1>3 DEF RingsLive, FailingOK

\* A step of the engine: the rings, the pending causes and the errors of the
\* drives may change.
EngineMoves(s, r) ==
  /\ r \in Channel /\ SameQueue(s, r) /\ SameMode(s, r)
  /\ r.state = s.state /\ r.PortsWithErrors = s.PortsWithErrors /\ r.CurrPort = s.CurrPort
  /\ r.EdmaActive = s.EdmaActive /\ r.saDevMask = s.saDevMask

\* Such a step keeps the invariant when the rings stay in order.
LEMMA EngineKeeps ==
  ASSUME NEW s, NEW l, NEW r, Inv(s, l), s.EdmaActive, EngineMoves(s, r),
         Rings(r), Native(r) => FailsOK(r), Engine(r, l), Reads(r, l), Announced(r, l),
         InError(s) \subseteq InError(r),
         Native(r) /\ "devErr" \in r.errorCause => InError(r) # {}
  PROVE  Outcome(s, r, l, {})
<1>1. /\ QInv(s) /\ l \in Locals /\ Inserted(s, l) /\ RingsLive(s, l) /\ FailingOK(s, l)
      /\ PioOK(s) /\ Recovery(s, l) /\ Heard(s, l) /\ Owner(s)
  BY DEF Inv, Control
<1>2. /\ Live(s, l) /\ Rings(s) /\ s.phase = "ready" /\ s.pio = NoTag /\ ~Sensing(s)
      /\ l.pc \notin {"insert", "ports"} /\ ReadLog \notin Elems(s.commandsQueue)
      /\ AbortsOK(s)
  BY EngineWorks
<1>3. /\ r \in Channel /\ SameQueue(s, r) /\ r.commandsQueue = s.commandsQueue /\ r.entry = s.entry
      /\ r.state = s.state /\ r.PortsWithErrors = s.PortsWithErrors /\ r.CurrPort = s.CurrPort
      /\ r.queueCommandsEnabled = s.queueCommandsEnabled /\ r.queuedDMA = s.queuedDMA
      /\ r.pio = s.pio /\ r.phase = s.phase /\ r.EdmaActive = s.EdmaActive
      /\ r.saDevMask = s.saDevMask
  BY DEF EngineMoves, SameMode, SameQueue, SameList
<1>4. QInv(r) /\ Used(r) = Used(s) /\ InEdma(r) = InEdma(s) /\ Held(r) = Held(s)
  BY <1>1, <1>3, SameQueueKeeps
<1>5. Inserted(r, l)
  BY <1>1, <1>3, <1>4 DEF Inserted, AllInserted, IsPIO
<1>6. RingsLive(r, l) /\ FailingOK(r, l)
  BY <1>2, <1>3, <1>4 DEF RingsLive, FailingOK, AbortsOK
<1>7. PioOK(r)
  BY <1>1, <1>2, <1>3 DEF PioOK
<1>8. Recovery(r, l)
  BY <1>1, <1>2, <1>3 DEF Recovery, Sensing, Native
<1>9. NotReady(r, l) /\ Heard(r, l) /\ Owner(r)
  BY <1>1, <1>2, <1>3 DEF NotReady, Heard, Owner
<1>10. Inv(r, l)
  BY <1>1, <1>4, <1>5, <1>6, <1>7, <1>8, <1>9 DEF Inv, Control
<1>11. Served(s, r, {}) /\ KeepsRing(s, r)
  BY <1>2, <1>3, <1>4, ServedNone DEF KeepsRing
<1>12. QED
  BY <1>10, <1>11 DEF Outcome

\* The command a port reports is still the failed one.
LEMMA FailsKeep ==
  ASSUME NEW s, NEW r, FailsOK(s), StaysLoose(s, r), r.entry = s.entry, r.erring = s.erring
  PROVE  FailsOK(r)
BY DEF FailsOK, InError, Failing, StaysLoose

\* What a fetch changes.
Fetched(s, r) ==
  /\ SameQueue(s, r) /\ SameMode(s, r) /\ SameErrors(s, r) /\ SameResponses(s, r)
  /\ r.requestQueue = [s.requestQueue EXCEPT ![s.reqOutPtr] = NoTag]
  /\ r.reqOutPtr = Next1(s.reqOutPtr) /\ r.reqInPtr = s.reqInPtr
  /\ r.EdmaActive = s.EdmaActive /\ r.edmaEnabled = s.edmaEnabled
  /\ r.responseDone = s.responseDone /\ r.saDevMask = s.saDevMask

\* A drive takes the request, or rejects it.
Taken(s, t) ==
  [[s EXCEPT !.reqOutPtr = Next1(@), !.requestQueue[s.reqOutPtr] = NoTag] EXCEPT
     !.executing = @ \cup {t}]
Rejected(s) ==
  [[s EXCEPT !.reqOutPtr = Next1(@), !.requestQueue[s.reqOutPtr] = NoTag] EXCEPT
     !.errorCause = @ \cup {"devErr"}]

\* What they change.
LEMMA FetchFields ==
  ASSUME NEW s \in Channel, NEW t \in HostTags, NEW r
  PROVE  /\ r = Taken(s, t) =>
              /\ r \in Channel /\ Fetched(s, r)
              /\ r.executing = s.executing \cup {t} /\ r.errorCause = s.errorCause
         /\ r = Rejected(s) =>
              /\ r \in Channel /\ Fetched(s, r)
              /\ r.executing = s.executing /\ r.errorCause = s.errorCause \cup {"devErr"}
<1>1. NoTag \in Tags /\ Next1(s.reqOutPtr) \in Slots
  BY RingTypes, NextSlot DEF Tags
<1>2. [s.requestQueue EXCEPT ![s.reqOutPtr] = NoTag] \in [Slots -> Tags]
  BY <1>1, RingTypes
<1>3. s.executing \cup {t} \in SUBSET HostTags /\ s.errorCause \cup {"devErr"} \in SUBSET Causes
  BY DEF Channel, Causes
<1>4. ASSUME r = Taken(s, t)
      PROVE  /\ r \in Channel /\ Fetched(s, r)
             /\ r.executing = s.executing \cup {t} /\ r.errorCause = s.errorCause
  <2>1. r \in Channel
    BY <1>1, <1>2, <1>3, <1>4, ZenonT(60) DEF Channel, Taken
  <2>2. QED
    BY <1>4, <2>1 DEF Channel, Taken, Fetched, SameQueue, SameList, SameMode, SameErrors, SameResponses
<1>5. ASSUME r = Rejected(s)
      PROVE  /\ r \in Channel /\ Fetched(s, r)
             /\ r.executing = s.executing /\ r.errorCause = s.errorCause \cup {"devErr"}
  <2>1. r \in Channel
    BY <1>1, <1>2, <1>3, <1>5 DEF Channel, Rejected
  <2>2. QED
    BY <1>5, <2>1 DEF Channel, Rejected, Fetched, SameQueue, SameList, SameMode, SameErrors, SameResponses
<1>6. QED
  BY <1>4, <1>5

\* The engine fetches a request.
LEMMA FetchKeeps ==
  ASSUME NEW s, NEW l, NEW r, NEW t, Inv(s, l), s.edmaEnabled, s.reqOutPtr # s.reqInPtr,
         t = s.requestQueue[s.reqOutPtr],
         \/ s.erring[s.entry[t].PMPort] # NoTag /\ r = Rejected(s)
         \/ r = Taken(s, t)
  PROVE  Outcome(s, r, l, {})
<1>1. s \in Channel /\ Control(s, l) /\ l \in Locals /\ s.EdmaActive /\ QInv(s)
  BY DEF Inv, QInv, Control, Engine
<1>2. /\ Rings(s) /\ (Native(s) => FailsOK(s)) /\ l.pc \notin {"insert", "ports"}
  BY <1>1, EngineWorks
<1>3. t \in InEdma(s) /\ t \in HostTags /\ s.entry[t].PMPort \in Ports
  <2>1. InRing(s.reqOutPtr, s.reqOutPtr, s.reqInPtr) /\ s.reqOutPtr \in Slots
    BY <1>1, RingTypes, RingShrinks
  <2>2. t \in InEdma(s)
    BY <1>2, <2>1 DEF Rings, Request
  <2>3. QED
    BY <1>1, <2>2, UsedFacts DEF UsedEntry
<1>4. /\ r \in Channel /\ Fetched(s, r)
      /\ r.executing \in {s.executing, s.executing \cup {t}}
      /\ r.errorCause \in {s.errorCause, s.errorCause \cup {"devErr"}}
      /\ "devErr" \in r.errorCause =>
           "devErr" \in s.errorCause \/ s.erring[s.entry[t].PMPort] # NoTag
  <2>1. CASE r = Taken(s, t)
    <3>1. /\ r \in Channel /\ Fetched(s, r)
          /\ r.executing = s.executing \cup {t} /\ r.errorCause = s.errorCause
      BY <1>1, <1>3, <2>1, FetchFields
    <3>2. QED
      BY <3>1
  <2>2. CASE s.erring[s.entry[t].PMPort] # NoTag /\ r = Rejected(s)
    <3>1. /\ r \in Channel /\ Fetched(s, r)
          /\ r.executing = s.executing /\ r.errorCause = s.errorCause \cup {"devErr"}
      BY <1>1, <1>3, <2>2, FetchFields
    <3>2. QED
      BY <2>2, <3>1
  <2>3. QED
    BY <2>1, <2>2
<1>7. /\ EngineMoves(s, r) /\ r.entry = s.entry /\ r.erring = s.erring
      /\ SameResponses(s, r) /\ r.responseDone = s.responseDone
      /\ r.requestQueue = [s.requestQueue EXCEPT ![s.reqOutPtr] = NoTag]
      /\ r.reqOutPtr = Next1(s.reqOutPtr) /\ r.reqInPtr = s.reqInPtr
      /\ r.executing \in {s.executing, s.executing \cup {t}} /\ r.edmaEnabled = s.edmaEnabled
      /\ r.queuedDMA = s.queuedDMA
      /\ r.queueCommandsEnabled = s.queueCommandsEnabled
      /\ "selfDisable" \in r.errorCause => "selfDisable" \in s.errorCause
      /\ "devErr" \in r.errorCause =>
           "devErr" \in s.errorCause \/ s.erring[s.entry[t].PMPort] # NoTag
  BY <1>4 DEF Fetched, EngineMoves, SameQueue, SameList, SameMode, SameErrors
<1>8. InEdma(r) = InEdma(s) /\ r \in Channel
  BY <1>7 DEF InEdma, Used, EngineMoves
<1>9. Rings(r) /\ StaysLoose(s, r)
  BY <1>1, <1>2, <1>7, <1>8, RingsFetch
<1>10. Native(r) => FailsOK(r)
  BY <1>2, <1>7, <1>9, FailsKeep DEF Native
<1>11. Engine(r, l) /\ Reads(r, l) /\ Announced(r, l)
  BY <1>1, <1>2, <1>7 DEF Control, Engine, Reads, Announced, Responded, SameResponses, Native, EngineMoves
<1>12. InError(r) = InError(s)
  BY <1>7 DEF InError
<1>13. Native(r) /\ "devErr" \in r.errorCause => InError(r) # {}
  BY <1>1, <1>3, <1>7, <1>12 DEF Control, Recovery, InError, Native
<1>14. QED
  BY <1>1, <1>7, <1>9, <1>10, <1>11, <1>12, <1>13, EngineKeeps

\* What an answer changes.
Answered(s, r, t, b) ==
  /\ SameQueue(s, r) /\ SameMode(s, r) /\ SameErrors(s, r) /\ SameRequests(s, r)
  /\ r.responseQueue = [s.responseQueue EXCEPT ![s.rspInPtr] = [id |-> t, err |-> b]]
  /\ r.rspInPtr = Next1(s.rspInPtr) /\ r.rspOutPtr = s.rspOutPtr
  /\ r.EdmaActive = s.EdmaActive /\ r.edmaEnabled = s.edmaEnabled
  /\ r.responseDone = TRUE /\ r.saDevMask = s.saDevMask /\ r.errorCause = s.errorCause
  /\ r.executing = s.executing \ {t}

\* Respond changes the response ring and announces it.
LEMMA RespondFields ==
  ASSUME NEW s \in Channel, NEW t \in HostTags, NEW b \in BOOLEAN, NEW r, r = Respond(s, t, b)
  PROVE  r \in Channel /\ Answered(s, r, t, b)
<1>1. [id |-> t, err |-> b] \in Response /\ Next1(s.rspInPtr) \in Slots
  BY RingTypes, NextSlot DEF Response, Tags
<1>2. [s.responseQueue EXCEPT ![s.rspInPtr] = [id |-> t, err |-> b]] \in [Slots -> Response]
  BY <1>1, RingTypes
<1>3. s.executing \ {t} \in SUBSET HostTags
  BY DEF Channel
<1>4. r \in Channel
  BY <1>1, <1>2, <1>3, ZenonT(60) DEF Channel, Respond
<1>5. QED
  BY <1>4 DEF Channel, Respond, Answered, SameQueue, SameList, SameMode, SameErrors, SameRequests

\* What the routine has read of the ring stays true when an answer arrives.
LEMMA ReadsGrow ==
  ASSUME NEW s \in Channel, NEW r \in Channel, NEW l \in Locals, Reads(s, l),
         l.pc \notin {"insert", "ports"}, r.rspOutPtr = s.rspOutPtr,
         \A i \in Slots : Responded(r, i) <=> Responded(s, i) \/ i = s.rspInPtr
  PROVE  Reads(r, l)
<1>1. l.rspInPtr \in Slots /\ s.rspInPtr \in Slots
  BY RingTypes DEF Locals
<1>2. QED
  BY <1>1 DEF Reads, Responded

\* A drive completes a command.
LEMMA CompleteKeeps ==
  ASSUME NEW s, NEW l, NEW r, NEW t \in HostTags, Inv(s, l), s.edmaEnabled, t \in s.executing,
         r = Respond(s, t, FALSE)
  PROVE  Outcome(s, r, l, {})
<1>1. s \in Channel /\ Control(s, l) /\ l \in Locals /\ s.EdmaActive /\ QInv(s)
  BY DEF Inv, QInv, Control, Engine
<1>2. /\ Rings(s) /\ (Native(s) => FailsOK(s)) /\ l.pc \notin {"insert", "ports"}
  BY <1>1, EngineWorks
<1>3. r \in Channel /\ Answered(s, r, t, FALSE)
  BY <1>1, RespondFields
<1>4. /\ EngineMoves(s, r) /\ r.entry = s.entry /\ r.erring = s.erring
      /\ SameRequests(s, r) /\ r.responseDone = TRUE /\ r.edmaEnabled = s.edmaEnabled
      /\ r.responseQueue = [s.responseQueue EXCEPT ![s.rspInPtr] = [id |-> t, err |-> FALSE]]
      /\ r.rspInPtr = Next1(s.rspInPtr) /\ r.rspOutPtr = s.rspOutPtr
      /\ r.executing = s.executing \ {t} /\ r.errorCause = s.errorCause
      /\ r.queuedDMA = s.queuedDMA
  BY <1>3 DEF Answered, EngineMoves, SameQueue, SameList, SameMode, SameErrors
<1>5. InEdma(r) = InEdma(s)
  BY <1>4 DEF InEdma, Used
<1>6. /\ Rings(r) /\ StaysLoose(s, r)
      /\ \A i \in Slots : Responded(r, i) <=> Responded(s, i) \/ i = s.rspInPtr
  BY <1>1, <1>2, <1>3, <1>4, <1>5, RingsRespond
<1>7. Native(r) => FailsOK(r)
  BY <1>2, <1>4, <1>6, FailsKeep DEF Native
<1>8. Reads(r, l) /\ Announced(r, l)
  BY <1>1, <1>2, <1>3, <1>4, <1>6, ReadsGrow DEF Control, Announced
<1>9. \A i \in Slots : Responded(r, i) => ~r.responseQueue[i].err
  <2>1. \A i \in Slots : i # s.rspInPtr => r.responseQueue[i] = s.responseQueue[i]
    BY <1>1, <1>4, RingTypes
  <2>2. s.rspInPtr \in Slots /\ ~r.responseQueue[s.rspInPtr].err
    <3>1. /\ s.rspInPtr \in Slots
          /\ r.responseQueue[s.rspInPtr] = [id |-> t, err |-> FALSE]
      BY <1>1, <1>4, RingTypes
    <3>2. [id |-> t, err |-> FALSE].err = FALSE
      OBVIOUS
    <3>3. QED
      BY <3>1, <3>2, Zenon
  <2>3. QED
    BY <1>1, <1>6, <2>1, <2>2 DEF Control, Engine
<1>10. Engine(r, l)
  BY <1>1, <1>2, <1>4, <1>9 DEF Control, Engine, Native, EngineMoves
<1>11. InError(r) = InError(s)
  BY <1>4 DEF InError
<1>12. Native(r) /\ "devErr" \in r.errorCause => InError(r) # {}
  BY <1>1, <1>4, <1>11 DEF Control, Recovery, Native
<1>13. QED
  BY <1>1, <1>4, <1>6, <1>7, <1>8, <1>10, <1>11, <1>12, EngineKeeps

\* A drive fails a command: its port is in error.  In NATIVE_QUEUING mode the
\* port aborts what it executes, otherwise the engine disables itself, with or
\* without a response.
AtFault(s, t) == [s EXCEPT !.erring[s.entry[t].PMPort] = s.entry[t].deviceTag]
FailsNative(s, t) ==
  [AtFault(s, t) EXCEPT
     !.errorCause = @ \cup {"devErr"},
     !.executing = {x \in @ : s.entry[x].PMPort # s.entry[t].PMPort}]
FailsOff(s, t) ==
  [AtFault(s, t) EXCEPT !.edmaEnabled = FALSE,
                        !.errorCause = @ \cup {"devErr", "selfDisable"}]

\* What they change.
FaultFields(s, r, p, d) ==
  /\ SameQueue(s, r) /\ SameMode(s, r) /\ SameRings(s, r)
  /\ r.state = s.state /\ r.PortsWithErrors = s.PortsWithErrors /\ r.CurrPort = s.CurrPort
  /\ r.EdmaActive = s.EdmaActive /\ r.responseDone = s.responseDone /\ r.saDevMask = s.saDevMask
  /\ r.erring = [s.erring EXCEPT ![p] = d]

\* A failure in NATIVE_QUEUING mode, when the other ports go on.
NativeFields(s, r, p, d) ==
  /\ FaultFields(s, r, p, d) /\ r.edmaEnabled = s.edmaEnabled
  /\ r.errorCause = s.errorCause \cup {"devErr"}
  /\ r.executing = {x \in s.executing : s.entry[x].PMPort # p}

\* The fields a failing drive changes.
LEMMA FailFields ==
  ASSUME NEW s \in Channel, NEW t \in Used(s), NEW p \in Ports, NEW d \in DeviceTags,
         p = s.entry[t].PMPort, d = s.entry[t].deviceTag
  PROVE  /\ FailsNative(s, t) \in Channel /\ NativeFields(s, FailsNative(s, t), p, d)
         /\ FailsOff(s, t) \in Channel /\ FaultFields(s, FailsOff(s, t), p, d)
         /\ FailsOff(s, t).edmaEnabled = FALSE
         /\ FailsOff(s, t).errorCause = s.errorCause \cup {"devErr", "selfDisable"}
         /\ FailsOff(s, t).executing = s.executing
<1>1. [s.erring EXCEPT ![p] = d] \in [Ports -> DeviceTags \cup {NoTag}]
  BY DEF Channel
<1>2. /\ s.errorCause \cup {"devErr"} \in SUBSET Causes
      /\ s.errorCause \cup {"devErr", "selfDisable"} \in SUBSET Causes
      /\ {x \in s.executing : s.entry[x].PMPort # p} \in SUBSET HostTags
  BY DEF Channel, Causes
<1>3. PICK u : u = AtFault(s, t)
  OBVIOUS
<1>4. u \in Channel
  BY <1>1, <1>3, ZenonT(60) DEF AtFault, Channel
<1>5. /\ FaultFields(s, u, p, d) /\ u.edmaEnabled = s.edmaEnabled
      /\ u.errorCause = s.errorCause /\ u.executing = s.executing
  BY <1>3 DEF AtFault, Channel, FaultFields, SameQueue, SameList, SameMode, SameRings
<1>6. PICK r : r = FailsNative(s, t)
  OBVIOUS
<1>7. r = [u EXCEPT !.errorCause = s.errorCause \cup {"devErr"},
                    !.executing = {x \in s.executing : s.entry[x].PMPort # p}]
  BY <1>3, <1>4, <1>5, <1>6 DEF FailsNative, Channel
<1>8. r \in Channel
  BY <1>2, <1>4, <1>7, ZenonT(60) DEF Channel
<1>9. /\ FaultFields(s, r, p, d) /\ r.edmaEnabled = s.edmaEnabled
      /\ r.errorCause = s.errorCause \cup {"devErr"}
      /\ r.executing = {x \in s.executing : s.entry[x].PMPort # p}
  BY <1>4, <1>5, <1>7 DEF Channel, FaultFields, SameQueue, SameList, SameMode, SameRings
<1>10. PICK o : o = FailsOff(s, t)
  OBVIOUS
<1>11. o = [u EXCEPT !.edmaEnabled = FALSE,
                     !.errorCause = s.errorCause \cup {"devErr", "selfDisable"}]
  BY <1>3, <1>4, <1>5, <1>10 DEF FailsOff, Channel
<1>12. o \in Channel
  BY <1>2, <1>4, <1>11, ZenonT(60) DEF Channel
<1>13. /\ FaultFields(s, o, p, d) /\ o.edmaEnabled = FALSE
       /\ o.errorCause = s.errorCause \cup {"devErr", "selfDisable"}
       /\ o.executing = s.executing
  BY <1>4, <1>5, <1>11 DEF Channel, FaultFields, SameQueue, SameList, SameMode, SameRings
<1>14. QED
  BY <1>6, <1>8, <1>9, <1>10, <1>12, <1>13 DEF NativeFields

\* In NATIVE_QUEUING mode the failed command stays in the EDMA, at no place.
LEMMA NativeFailKeeps ==
  ASSUME NEW s, NEW l, NEW r, NEW t \in HostTags, Inv(s, l), s.edmaEnabled, t \in s.executing,
         Native(s), r = FailsNative(s, t)
  PROVE  Outcome(s, r, l, {})
<1>1. s \in Channel /\ Control(s, l) /\ l \in Locals /\ s.EdmaActive /\ QInv(s)
  BY DEF Inv, QInv, Control, Engine
<1>2. /\ Rings(s) /\ FailsOK(s) /\ l.pc \notin {"insert", "ports"}
  BY <1>1, EngineWorks
<1>3. t \in InEdma(s) /\ t \in Used(s)
  BY <1>2 DEF Rings, InEdma
<1>4. PICK p \in Ports, d \in DeviceTags : p = s.entry[t].PMPort /\ d = s.entry[t].deviceTag
  BY <1>1, <1>3, UsedFacts DEF UsedEntry
<1>5. /\ r \in Channel /\ FaultFields(s, r, p, d) /\ r.edmaEnabled = s.edmaEnabled
      /\ r.errorCause = s.errorCause \cup {"devErr"}
      /\ r.executing = {x \in s.executing : s.entry[x].PMPort # p}
  <2>1. r \in Channel /\ NativeFields(s, r, p, d)
    BY <1>1, <1>3, <1>4, FailFields
  <2>2. QED
    BY <2>1 DEF NativeFields
<1>6. /\ EngineMoves(s, r) /\ SameRings(s, r) /\ r.entry = s.entry
      /\ r.erring = [s.erring EXCEPT ![p] = d] /\ r.queuedDMA = s.queuedDMA
      /\ r.responseDone = s.responseDone /\ r.queueCommandsEnabled = s.queueCommandsEnabled
  BY <1>5 DEF FaultFields, EngineMoves, SameQueue, SameMode
<1>7. InEdma(r) = InEdma(s)
  BY <1>6 DEF InEdma, Used
<1>8. r.executing \subseteq s.executing /\ t \notin r.executing
  BY <1>4, <1>5 
<1>9. Rings(r) /\ StaysLoose(s, r)
  BY <1>1, <1>2, <1>5, <1>6, <1>7, <1>8, RingsCovered
<1>10. /\ r.erring[p] = d /\ \A x \in Ports : x # p => r.erring[x] = s.erring[x]
  BY <1>1, <1>6 DEF Channel
<1>11. FailsOK(r)
  <2>1. Loose(r, t)
    <3>1. /\ \A i \in Slots : Request(s, i) => s.requestQueue[i] # t
          /\ \A i \in Slots : Responded(s, i) => s.responseQueue[i].id # t
      BY <1>2 DEF Rings
    <3>2. /\ r.requestQueue = s.requestQueue /\ r.responseQueue = s.responseQueue
          /\ \A i \in Slots : /\ Request(r, i) <=> Request(s, i)
                              /\ Responded(r, i) <=> Responded(s, i)
      BY <1>6 DEF SameRings, Request, Responded
    <3>3. QED
      BY <1>3, <1>7, <1>8, <3>1, <3>2 DEF Loose
  <2>2. Failing(r, p)
    BY <1>4, <1>6, <1>10, <2>1 DEF Failing
  <2>3. ASSUME NEW x \in InError(r), x # p PROVE Failing(r, x)
    <3>1. x \in InError(s) /\ r.erring[x] = s.erring[x]
      BY <1>10, <2>3 DEF InError
    <3>2. QED
      BY <1>2, <1>6, <1>9, <3>1 DEF FailsOK, Failing, StaysLoose
  <2>4. QED
    BY <2>2, <2>3 DEF FailsOK
<1>12. InError(r) = InError(s) \cup {p}
  BY <1>10, TagFacts DEF InError
<1>13. Engine(r, l) /\ Reads(r, l) /\ Announced(r, l)
  BY <1>1, <1>2, <1>5, <1>6 DEF Control, Engine, Reads, Announced, Responded, SameRings, Native, EngineMoves
<1>14. QED
  BY <1>1, <1>6, <1>9, <1>11, <1>12, <1>13, EngineKeeps

\* The engine drops what the drives execute.
LEMMA EmptiedFields ==
  ASSUME NEW u \in Channel, NEW r, r = [u EXCEPT !.executing = {}]
  PROVE  /\ r \in Channel /\ SameQueue(u, r) /\ SameMode(u, r) /\ SameErrors(u, r)
         /\ SameRings(u, r) /\ r.EdmaActive = u.EdmaActive /\ r.edmaEnabled = u.edmaEnabled
         /\ r.responseDone = u.responseDone /\ r.saDevMask = u.saDevMask
         /\ r.errorCause = u.errorCause /\ r.executing = {}
<1>1. r \in Channel
  BY ZenonT(60) DEF Channel
<1>2. QED
  BY <1>1, ZenonT(60) DEF Channel, SameQueue, SameList, SameMode, SameErrors, SameRings

\* Otherwise the engine is off.
LEMMA OffFailKeeps ==
  ASSUME NEW s, NEW l, NEW r, NEW t \in HostTags, Inv(s, l), s.edmaEnabled, t \in s.executing,
         ~Native(s),
         \/ r = [FailsOff(s, t) EXCEPT !.executing = {}]
         \/ r = [Respond(FailsOff(s, t), t, TRUE) EXCEPT !.executing = {}]
  PROVE  Outcome(s, r, l, {})
<1>1. s \in Channel /\ Control(s, l) /\ l \in Locals /\ s.EdmaActive /\ QInv(s)
  BY DEF Inv, QInv, Control, Engine
<1>2. /\ Rings(s) /\ l.pc \notin {"insert", "ports"}
  BY <1>1, EngineWorks
<1>3. t \in InEdma(s) /\ t \in Used(s)
  BY <1>2 DEF Rings, InEdma
<1>4. PICK p \in Ports, d \in DeviceTags : p = s.entry[t].PMPort /\ d = s.entry[t].deviceTag
  BY <1>1, <1>3, UsedFacts DEF UsedEntry
<1>5. PICK o : o = FailsOff(s, t)
  OBVIOUS
<1>6. /\ o \in Channel /\ FaultFields(s, o, p, d) /\ o.edmaEnabled = FALSE
      /\ o.errorCause = s.errorCause \cup {"devErr", "selfDisable"}
      /\ o.executing = s.executing
  BY <1>1, <1>3, <1>4, <1>5, FailFields
<1>7. /\ EngineMoves(s, o) /\ SameRings(s, o) /\ o.entry = s.entry
      /\ o.erring = [s.erring EXCEPT ![p] = d] /\ o.queuedDMA = s.queuedDMA
      /\ o.responseDone = s.responseDone /\ o.queueCommandsEnabled = s.queueCommandsEnabled
  BY <1>6 DEF FaultFields, EngineMoves, SameQueue, SameMode
<1>8. InError(s) \subseteq InError(o)
  BY <1>1, <1>7, TagFacts DEF InError, Channel
<1>9. InEdma(o) = InEdma(s) /\ Rings(o)
  <2>1. InEdma(o) = InEdma(s)
    BY <1>7 DEF InEdma, Used
  <2>2. QED
    BY <1>1, <1>2, <1>6, <1>7, <2>1, RingsCovered
<1>10. CASE r = [o EXCEPT !.executing = {}]
  <2>1. /\ r \in Channel /\ SameQueue(o, r) /\ SameMode(o, r) /\ SameErrors(o, r)
        /\ SameRings(o, r) /\ r.EdmaActive = o.EdmaActive /\ r.edmaEnabled = o.edmaEnabled
        /\ r.responseDone = o.responseDone /\ r.saDevMask = o.saDevMask
        /\ r.errorCause = o.errorCause /\ r.executing = {}
    BY <1>6, <1>10, EmptiedFields
  <2>2. /\ EngineMoves(s, r) /\ SameRings(s, r) /\ r.erring = o.erring
        /\ r.queuedDMA = s.queuedDMA
        /\ r.responseDone = s.responseDone /\ r.queueCommandsEnabled = s.queueCommandsEnabled
    BY <1>7, <2>1 DEF EngineMoves, SameQueue, SameList, SameMode, SameErrors, SameRings
  <2>3. InEdma(r) = InEdma(o)
    BY <2>1 DEF SameQueue, InEdma, Used
  <2>4. Rings(r)
    BY <1>6, <1>9, <2>1, <2>3, RingsCovered
  <2>5. Engine(r, l) /\ Reads(r, l) /\ Announced(r, l)
    BY <1>1, <1>2, <1>6, <2>1, <2>2 DEF Control, Engine, Reads, Announced, SameRings, Native
  <2>6. InError(s) \subseteq InError(r) /\ ~Native(r)
    BY <1>8, <2>2 DEF InError, Native
  <2>7. QED
    BY <1>1, <2>2, <2>4, <2>5, <2>6, EngineKeeps
<1>11. CASE r = [Respond(o, t, TRUE) EXCEPT !.executing = {}]
  <2>1. PICK u : u = Respond(o, t, TRUE)
    OBVIOUS
  <2>2. u \in Channel /\ Answered(o, u, t, TRUE)
    BY <1>6, <2>1, RespondFields
  <2>3. /\ r \in Channel /\ SameQueue(u, r) /\ SameMode(u, r) /\ SameErrors(u, r)
        /\ SameRings(u, r) /\ r.EdmaActive = u.EdmaActive /\ r.edmaEnabled = u.edmaEnabled
        /\ r.responseDone = u.responseDone /\ r.saDevMask = u.saDevMask
        /\ r.errorCause = u.errorCause /\ r.executing = {}
    BY <1>11, <2>1, <2>2, EmptiedFields, ZenonT(60)
  <2>4. /\ SameQueue(o, r) /\ SameMode(o, r) /\ SameErrors(o, r) /\ SameRequests(o, r)
        /\ r.responseQueue = [o.responseQueue EXCEPT ![o.rspInPtr] = [id |-> t, err |-> TRUE]]
        /\ r.rspInPtr = Next1(o.rspInPtr) /\ r.rspOutPtr = o.rspOutPtr
        /\ r.EdmaActive = o.EdmaActive /\ r.edmaEnabled = o.edmaEnabled
        /\ r.responseDone = TRUE /\ r.saDevMask = o.saDevMask /\ r.errorCause = o.errorCause
    BY <2>2, <2>3 DEF Answered, SameQueue, SameList, SameMode, SameErrors, SameRequests, SameRings
  <2>5. /\ EngineMoves(s, r) /\ r.erring = o.erring /\ r.queuedDMA = s.queuedDMA
    BY <1>7, <2>3, <2>4 DEF EngineMoves, SameQueue, SameList, SameMode, SameErrors
  <2>6. InEdma(r) = InEdma(o)
    BY <2>4 DEF SameQueue, InEdma, Used
  <2>7. /\ Rings(r)
        /\ \A i \in Slots : Responded(r, i) <=> Responded(o, i) \/ i = o.rspInPtr
    BY <1>6, <1>9, <2>3, <2>4, <2>6, RingsRespond
  <2>8. Reads(o, l)
    BY <1>1, <1>7 DEF Control, Reads, SameRings
  <2>9. Reads(r, l)
    BY <1>1, <1>2, <1>6, <2>3, <2>4, <2>7, <2>8, ReadsGrow
  <2>10. Engine(r, l) /\ Announced(r, l)
    BY <1>1, <1>2, <1>6, <2>3, <2>4, <2>5 DEF Control, Engine, Announced, Native
  <2>11. InError(s) \subseteq InError(r) /\ ~Native(r)
    BY <1>8, <2>5 DEF InError, Native
  <2>12. QED
    BY <1>1, <2>5, <2>7, <2>9, <2>10, <2>11, EngineKeeps
<1>12. QED
  BY <1>5, <1>10, <1>11

-----------------------------------------------------------------------------
(* Starting and stopping the engine.                                       *)

\* What deactivateEdma changes.
Deactivated(s, r) ==
  /\ SameQueue(s, r) /\ SameMode(s, r) /\ SameErrors(s, r) /\ SameRings(s, r)
  /\ r.EdmaActive = FALSE /\ r.edmaEnabled = FALSE /\ r.executing = {}
  /\ r.saDevMask = TRUE /\ r.errorCause = s.errorCause /\ r.responseDone = s.responseDone

\* deactivateEdma changes nothing else.
LEMMA DeactivateFields ==
  ASSUME NEW s \in Channel, NEW r, r = deactivateEdma(s)
  PROVE  r \in Channel /\ Deactivated(s, r)
<1>1. r \in Channel
  BY ZenonT(60) DEF Channel, deactivateEdma
<1>2. QED
  BY <1>1 DEF Channel, deactivateEdma, Deactivated, SameQueue, SameList, SameMode, SameErrors, SameRings

\* What activateEdma changes.
Activated(s, r) ==
  /\ SameQueue(s, r) /\ SameErrors(s, r) /\ SameRings(s, r)
  /\ r.queueCommandsEnabled = s.queueCommandsEnabled
  /\ r.queuedDMA = s.queuedDMA /\ r.pio = NoTag /\ r.phase = s.phase
  /\ r.EdmaActive = TRUE /\ r.edmaEnabled = TRUE /\ r.executing = s.executing
  /\ r.saDevMask = FALSE /\ r.responseDone = FALSE
  /\ "devErr" \notin r.errorCause /\ "selfDisable" \notin r.errorCause

\* activateEdma changes nothing else.
LEMMA ActivateFields ==
  ASSUME NEW s \in Channel, NEW r, r = activateEdma(s)
  PROVE  r \in Channel /\ Activated(s, r)
<1>1. s.errorCause \cap {"asyncNotify"} \in SUBSET Causes /\ NoTag \in Tags \cup {ReadLog}
  BY DEF Channel, Tags
<1>2. r \in Channel
  BY <1>1, ZenonT(60) DEF Channel, activateEdma
<1>3. r.errorCause = s.errorCause \cap {"asyncNotify"}
  BY <1>2 DEF Channel, activateEdma
<1>4. QED
  BY <1>2, <1>3 DEF Channel, activateEdma, Activated, SameQueue, SameList, SameErrors, SameRings

\* What _resetEdmaQPointers changes.
Emptied(s, r) ==
  /\ SameQueue(s, r) /\ SameMode(s, r) /\ SameErrors(s, r) /\ SameEngine(s, r)
  /\ Empty(r) /\ r.requestQueue = NoRing(NoTag)

\* _resetEdmaQPointers changes nothing else.
LEMMA ResetFields ==
  ASSUME NEW s \in Channel, NEW r, r = resetEdmaQPointers(s)
  PROVE  r \in Channel /\ Emptied(s, r)
<1>1. 0 \in Slots /\ NoTag \in Tags
  BY TagFacts DEF Slots, Tags
<1>2. NoResponse \in Response
  BY <1>1 DEF NoResponse, Response
<1>3. NoRing(NoTag) \in [Slots -> Tags] /\ NoRing(NoResponse) \in [Slots -> Response]
  BY <1>1, <1>2 DEF NoRing
<1>4. r \in Channel
  BY <1>1, <1>3, ZenonT(60) DEF Channel, resetEdmaQPointers
<1>5. QED
  BY <1>4 DEF Channel, resetEdmaQPointers, Emptied, SameQueue, SameList, SameMode, SameErrors,
     SameEngine, Empty

\* A channel whose engine is stopped and whose rings are empty.
Stopped(s) == /\ s.EdmaActive = FALSE /\ s.edmaEnabled = FALSE
              /\ s.executing = {} /\ Empty(s)

\* The parts of the invariant such a channel has of itself.
LEMMA StoppedKeeps ==
  ASSUME NEW r, NEW m \in Locals, QInv(r), Stopped(r), r.phase = "ready",
         FailingOK(r, m), Inserted(r, m), Reads(r, m), PioOK(r), Recovery(r, m), Heard(r, m),
         r.state # "WAIT_FOR_COMPLETIONS", Native(r) /\ r.state = "IDLE" => InError(r) = {},
         "selfDisable" \in r.errorCause => ~Native(r)
  PROVE  Inv(r, m)
<1>1. r \in Channel /\ ~r.EdmaActive /\ ~r.edmaEnabled /\ r.executing = {} /\ Empty(r)
  BY DEF QInv, Stopped
<1>2. Rings(r) /\ \A i \in Slots : ~Request(r, i) /\ ~Responded(r, i)
  BY <1>1, RingsEmpty
<1>3. RingsLive(r, m)
  BY <1>1, <1>2 DEF RingsLive
<1>4. Engine(r, m)
  BY <1>1 DEF Engine
<1>5. Announced(r, m) /\ NotReady(r, m) /\ Owner(r)
  BY <1>1 DEF Announced, NotReady, Empty, Owner
<1>6. QED
  BY <1>3, <1>4, <1>5 DEF Inv, Control

\* Nothing is in the EDMA: no error refers to a command.
LEMMA NothingFails ==
  ASSUME NEW r, NEW m, InEdma(r) = {}, Native(r) => InError(r) = {}
  PROVE  FailingOK(r, m)
BY DEF FailingOK, FailsOK, AbortsOK

\* A channel without commands is not in recovery.
LEMMA EmptyIsIdle ==
  ASSUME NEW s, NEW l, Inv(s, l), l.pc = "idle", Live(s, l), Used(s) = {}
  PROVE  /\ s.state = "IDLE" /\ s.pio = NoTag /\ s.commandsQueue = <<>>
         /\ InEdma(s) = {} /\ Empty(s) /\ s.executing = {} /\ (Native(s) => InError(s) = {})
<1>1. QInv(s) /\ s \in Channel /\ Control(s, l) /\ RingsLive(s, l) /\ FailingOK(s, l)
  BY DEF Inv, QInv
<1>2. InEdma(s) = {} /\ Rings(s) /\ (Native(s) => FailsOK(s))
  BY <1>1 DEF InEdma, RingsLive, FailingOK
<1>3. Native(s) => InError(s) = {}
  BY <1>2 DEF FailsOK, Failing, Loose
<1>4. s.state = "IDLE"
  <2>1. s.state \in States
    BY <1>1 DEF Channel
  <2>2. QED
    BY <1>1, <1>3, <2>1 DEF Control, Recovery, States
<1>5. Empty(s) /\ s.executing = {}
  BY <1>1, <1>2, RingsOccupied DEF Rings
<1>6. ReadLog \notin Elems(s.commandsQueue) /\ s.pio # ReadLog
  BY <1>1, <1>4 DEF Control, PioOK
<1>7. s.commandsQueue = <<>>
  BY <1>1, <1>6, HeldFacts
<1>8. s.pio = NoTag
  BY <1>1, <1>7 DEF Control, PioOK
<1>9. QED
  BY <1>2, <1>3, <1>4, <1>5, <1>7, <1>8

-----------------------------------------------------------------------------
(* mvSataQueueCommand.                                                     *)

\* What accepting a command gives.
Accepted(s, r, l, c) == /\ Inv(r, l) /\ Held(r) = Held(s) \cup {c} /\ r.phase = s.phase
                        /\ KeepsRing(s, r)

\* The caller of mvSataQueueCommand: a channel that is ready, with free tags.
MayQueue(s, l, c, p) ==
  /\ Inv(s, l) /\ l.pc = "idle" /\ s.phase = "ready" /\ s.queueCommandsEnabled
  /\ c \in Cmds /\ c \notin Held(s) /\ p \in Ports
  /\ s.HostTagsPool # <<>> /\ s.DeviceTagsPool[p] # <<>>

\* A command at the end of the list, t its tag.
NewLast(s, r, t) ==
  /\ t \in HostTags \ Used(s) /\ r.commandsQueue = Append(s.commandsQueue, t)
  /\ \A u \in Used(s) : r.entry[u] = s.entry[u]

\* The positions of the list.
LEMMA AppendedList ==
  ASSUME NEW s, NEW r, QInv(s), NEW t, NewLast(s, r, t)
  PROVE  /\ Len(r.commandsQueue) = Len(s.commandsQueue) + 1 /\ Len(s.commandsQueue) \in Nat
         /\ r.commandsQueue[Len(s.commandsQueue) + 1] = t
         /\ \A k \in 1..Len(s.commandsQueue) : r.commandsQueue[k] = s.commandsQueue[k]
         /\ \A k \in 1..Len(s.commandsQueue) :
              IsPIO(r, r.commandsQueue[k]) <=> IsPIO(s, s.commandsQueue[k])
         /\ Elems(r.commandsQueue) = Elems(s.commandsQueue) \cup {t}
         /\ s.commandsQueue # <<>> => Head(r.commandsQueue) = Head(s.commandsQueue)
         /\ r.commandsQueue # <<>>
<1>1. /\ s.commandsQueue \in Seq(Listable) /\ NoDuplicates(s.commandsQueue)
      /\ Elems(s.commandsQueue) \ {ReadLog} = Used(s)
  BY DEF QInv, Channel, QueueOK, ListOK
<1>2. t \in Listable /\ t \notin Elems(s.commandsQueue)
  BY <1>1, TagFacts DEF NewLast, Listable
<1>3. PICK q : q = s.commandsQueue /\ r.commandsQueue = Append(q, t)
  BY DEF NewLast
<1>4. /\ Append(q, t) # <<>>
      /\ Len(Append(q, t)) = Len(q) + 1 /\ Append(q, t)[Len(q) + 1] = t
      /\ \A i \in 1..Len(q) : Append(q, t)[i] = q[i]
      /\ Elems(Append(q, t)) = Elems(q) \cup {t}
      /\ Head(Append(q, t)) = IF q = <<>> THEN t ELSE Head(q)
  BY <1>1, <1>2, <1>3, Link
<1>5. Len(q) \in Nat /\ \A k \in 1..Len(q) : q[k] \in Elems(q)
  BY <1>1, <1>3, ElemsAt
<1>6. ASSUME NEW k \in 1..Len(q) PROVE IsPIO(r, r.commandsQueue[k]) <=> IsPIO(s, q[k])
  BY <1>1, <1>3, <1>4, <1>5 DEF IsPIO, NewLast
<1>7. QED
  BY <1>3, <1>4, <1>5, <1>6

\* A command that is only linked stands behind a PIO command, is one, or waits
\* for the end of a recovery.
LEMMA AddKeepsInserted ==
  ASSUME NEW s, NEW r, QInv(s), NEW t, NewLast(s, r, t), AllInserted(s), InEdma(r) = InEdma(s),
         r.entry[t].type = "NONE_UDMA" \/ s.noneUdmaOutstandingCommands # 0
  PROVE  AllInserted(r)
<1>1. /\ Len(r.commandsQueue) = Len(s.commandsQueue) + 1 /\ Len(s.commandsQueue) \in Nat
      /\ r.commandsQueue[Len(s.commandsQueue) + 1] = t
      /\ \A k \in 1..Len(s.commandsQueue) : r.commandsQueue[k] = s.commandsQueue[k]
      /\ \A k \in 1..Len(s.commandsQueue) :
           IsPIO(r, r.commandsQueue[k]) <=> IsPIO(s, s.commandsQueue[k])
  BY AppendedList
<1>2. \E j \in 1..Len(r.commandsQueue) : IsPIO(r, r.commandsQueue[j])
  <2>1. CASE r.entry[t].type = "NONE_UDMA"
    BY <1>1, <2>1 DEF IsPIO
  <2>2. CASE s.noneUdmaOutstandingCommands # 0
    <3>1. NoneUdma(s) # {}
      BY <2>2, FS_EmptySet DEF QInv, QueueOK, CountOK
    <3>2. PICK u \in Used(s) : s.entry[u].type = "NONE_UDMA"
      BY <3>1 DEF NoneUdma
    <3>3. s.commandsQueue \in Seq(Listable) /\ u \in Elems(s.commandsQueue)
      BY <3>2 DEF QInv, Channel, QueueOK, ListOK
    <3>4. PICK j \in 1..Len(s.commandsQueue) : s.commandsQueue[j] = u
      BY <3>3, ElemsAt
    <3>5. QED
      BY <1>1, <3>2, <3>4 DEF IsPIO
  <2>3. QED
    BY <2>1, <2>2
<1>3. ASSUME NEW k \in 1..Len(r.commandsQueue),
             \A j \in 1..k : ~IsPIO(r, r.commandsQueue[j])
      PROVE  r.commandsQueue[k] \in InEdma(r)
  <2>1. k # Len(r.commandsQueue)
    BY <1>1, <1>2, <1>3
  <2>2. k \in 1..Len(s.commandsQueue) /\ \A j \in 1..k : ~IsPIO(s, s.commandsQueue[j])
    BY <1>1, <1>3, <2>1
  <2>3. QED
    BY <1>1, <2>2 DEF AllInserted
<1>4. QED
  BY <1>3 DEF AllInserted

\* Commands keep their places and errors when others are linked behind them.
LEMMA AddKeepsPlaces ==
  ASSUME NEW s, NEW r, QInv(s), QInv(r), SameRings(s, r), r.executing = s.executing,
         r.erring = s.erring, r.PortsWithErrors = s.PortsWithErrors, InEdma(r) = InEdma(s),
         \A u \in Used(s) : r.entry[u] = s.entry[u]
  PROVE  /\ Rings(s) => Rings(r)
         /\ Rings(s) /\ FailsOK(s) => FailsOK(r)
         /\ AbortsOK(s) => AbortsOK(r)
<1>1. s \in Channel /\ r \in Channel
  BY DEF QInv
<1>2. Rings(s) => Rings(r) /\ StaysLoose(s, r)
  BY <1>1, RingsCovered
<1>3. \A t \in InEdma(s) : r.entry[t] = s.entry[t]
  BY DEF InEdma
<1>4. \A t \in HostTags : Loose(s, t) => r.entry[t] = s.entry[t]
  BY <1>3 DEF Loose
<1>5. InError(r) = InError(s)
  BY DEF InError
<1>6. Rings(s) /\ FailsOK(s) => FailsOK(r)
  BY <1>2, <1>4, <1>5 DEF FailsOK, Failing, StaysLoose
<1>7. AbortsOK(s) => AbortsOK(r)
  BY <1>3 DEF AbortsOK
<1>8. QED
  BY <1>2, <1>6, <1>7

\* mvSataQueueCommand only links the command.
LEMMA AddOnlyKeeps ==
  ASSUME NEW s, NEW l, NEW c, NEW p, MayQueue(s, l, c, p), NEW type \in {"UDMA", "NONE_UDMA"},
         NEW r, r = addCommand(s, c, type, p),
         type = "NONE_UDMA" \/ s.noneUdmaOutstandingCommands # 0 \/ s.state # "IDLE"
  PROVE  Accepted(s, r, l, c)
<1>1. /\ Inv(s, l) /\ QInv(s) /\ Control(s, l) /\ l.pc = "idle" /\ s.phase = "ready"
      /\ s.queueCommandsEnabled /\ c \in Cmds /\ c \notin Held(s) /\ p \in Ports
      /\ s.HostTagsPool # <<>> /\ s.DeviceTagsPool[p] # <<>>
      /\ l \in Locals /\ RingsLive(s, l) /\ FailingOK(s, l) /\ Inserted(s, l)
  BY DEF MayQueue, Inv
<1>2. PICK t : t = Head(s.HostTagsPool)
  OBVIOUS
<1>3. /\ QInv(r) /\ SameRest(s, r)
      /\ t \in HostTags \ Used(s)
      /\ Used(r) = Used(s) \cup {t} /\ Held(r) = Held(s) \cup {c}
      /\ InEdma(r) = InEdma(s)
      /\ r.commandsQueue = Append(s.commandsQueue, t)
      /\ \A u \in Used(s) : r.entry[u] = s.entry[u]
      /\ r.entry[t].type = type
  BY <1>1, <1>2, AddKeeps
<1>4. NewLast(s, r, t)
  BY <1>3 DEF NewLast
<1>5. /\ SameRings(s, r) /\ r.executing = s.executing /\ r.erring = s.erring
      /\ r.PortsWithErrors = s.PortsWithErrors /\ r.state = s.state /\ r.CurrPort = s.CurrPort
      /\ r.EdmaActive = s.EdmaActive /\ r.edmaEnabled = s.edmaEnabled
      /\ r.errorCause = s.errorCause /\ r.responseDone = s.responseDone
      /\ r.saDevMask = s.saDevMask /\ r.queueCommandsEnabled = s.queueCommandsEnabled
      /\ r.queuedDMA = s.queuedDMA /\ r.pio = s.pio /\ r.phase = s.phase
  BY <1>3 DEF SameRest, SameErrors, SameEngine, SameMode
<1>6. /\ Rings(s) => Rings(r)
      /\ Rings(s) /\ FailsOK(s) => FailsOK(r)
      /\ AbortsOK(s) => AbortsOK(r)
  BY <1>1, <1>3, <1>5, AddKeepsPlaces
<1>7. /\ Live(r, l) <=> Live(s, l)
      /\ Native(r) <=> Native(s)
      /\ Sensing(r) <=> Sensing(s)
      /\ InError(r) = InError(s)
      /\ Empty(r) <=> Empty(s)
  BY <1>5 DEF Live, Native, Sensing, InError, Empty, SameRings
<1>8. RingsLive(r, l) /\ FailingOK(r, l)
  BY <1>1, <1>5, <1>6, <1>7 DEF RingsLive, FailingOK
<1>9. Inserted(r, l)
  BY <1>1, <1>3, <1>4, <1>5, AddKeepsInserted DEF Inserted
<1>10. Engine(r, l) /\ Reads(r, l) /\ Announced(r, l)
  BY <1>1, <1>5, <1>7 DEF Control, Engine, Reads, Announced, SameRings, Responded
<1>11. PioOK(r)
  <2>1. /\ Elems(r.commandsQueue) = Elems(s.commandsQueue) \cup {t}
        /\ s.commandsQueue # <<>> => Head(r.commandsQueue) = Head(s.commandsQueue)
        /\ r.commandsQueue # <<>>
    BY <1>1, <1>4, AppendedList, ZenonT(60)
  <2>2. PioOK(s) /\ s.commandsQueue \in Seq(Listable) /\ ListOK(s)
    BY <1>1 DEF Control, QInv, Channel, QueueOK
  <2>3. s.pio \in HostTags => s.pio \in Used(s)
    BY <2>2, ElemsAt, TagFacts DEF PioOK, ListOK
  <2>4. QED
    BY <1>3, <1>5, <2>1, <2>2, <2>3, TagFacts DEF PioOK
<1>12. Recovery(r, l) /\ NotReady(r, l) /\ Heard(r, l) /\ Owner(r)
  BY <1>1, <1>5, <1>7 DEF Control, Recovery, NotReady, Heard, Owner
<1>13. KeepsRing(s, r)
  BY <1>5 DEF KeepsRing, SameRings
<1>14. QED
  BY <1>1, <1>3, <1>5, <1>8, <1>9, <1>10, <1>11, <1>12, <1>13 DEF Inv, Control, Accepted

\* The engine is started for a channel outside of a recovery.
LEMMA ActivateKeeps ==
  ASSUME NEW s, NEW l, NEW r, Inv(s, l), l.pc = "idle", s.phase = "ready",
         s.queueCommandsEnabled, s.state = "IDLE", s.pio = NoTag, ~s.EdmaActive,
         r = activateEdma(s)
  PROVE  Inv(r, l) /\ Held(r) = Held(s)
<1>1. /\ QInv(s) /\ s \in Channel /\ Control(s, l) /\ RingsLive(s, l) /\ FailingOK(s, l)
      /\ Inserted(s, l) /\ l \in Locals
  BY DEF Inv, QInv
<1>2. r \in Channel /\ Activated(s, r)
  BY <1>1, ActivateFields
<1>3. /\ SameQueue(s, r) /\ SameRings(s, r) /\ r.executing = s.executing /\ r.erring = s.erring
      /\ r.PortsWithErrors = s.PortsWithErrors /\ r.state = s.state /\ r.CurrPort = s.CurrPort
      /\ r.EdmaActive = TRUE /\ r.edmaEnabled = TRUE /\ r.saDevMask = FALSE
      /\ "devErr" \notin r.errorCause /\ "selfDisable" \notin r.errorCause
      /\ r.queueCommandsEnabled = s.queueCommandsEnabled
      /\ r.queuedDMA = s.queuedDMA /\ r.pio = s.pio /\ r.phase = s.phase
      /\ r.commandsQueue = s.commandsQueue /\ r.entry = s.entry
  BY <1>2 DEF Activated, SameErrors, SameMode, SameQueue, SameList
<1>4. /\ QInv(r) /\ Held(r) = Held(s)
      /\ Rings(s) => Rings(r)
      /\ Rings(s) /\ FailsOK(s) => FailsOK(r)
      /\ AbortsOK(s) => AbortsOK(r)
      /\ AllInserted(s) => AllInserted(r)
      /\ Empty(r) <=> Empty(s)
  BY <1>1, <1>2, <1>3, FrameKeeps
<1>5. Live(s, l) /\ Rings(s) /\ Empty(s)
  BY <1>1 DEF Live, RingsLive
<1>6. RingsLive(r, l) /\ FailingOK(r, l)
  BY <1>1, <1>3, <1>4, <1>5 DEF RingsLive, FailingOK, Native
<1>7. Inserted(r, l)
  BY <1>1, <1>3, <1>4 DEF Inserted
<1>8. Engine(r, l)
  <2>1. \A i \in Slots : ~Responded(r, i)
    BY <1>2, <1>4, <1>5, RingTypes, RingEmpty DEF Empty, Responded
  <2>2. QED
    BY <1>3, <2>1 DEF Engine
<1>9. Reads(r, l) /\ Announced(r, l)
  BY <1>4, <1>5 DEF Reads, Announced, Empty
<1>10. PioOK(r)
  BY <1>1, <1>3 DEF Control, PioOK
<1>11. Recovery(r, l) /\ NotReady(r, l) /\ Heard(r, l)
  BY <1>1, <1>3 DEF Control, Recovery, NotReady, Heard, Sensing
<1>12. Owner(r)
  BY <1>3 DEF Owner
<1>13. QED
  BY <1>1, <1>4, <1>6, <1>7, <1>8, <1>9, <1>10, <1>11, <1>12 DEF Inv, Control

\* What EdmaReqQueueInsert changes.
PutInto(s, r, t) ==
  /\ SameCommands(s, r) /\ SameMode(s, r) /\ SameErrors(s, r) /\ SameEngine(s, r)
  /\ SameResponses(s, r) /\ r.reqInPtr = Next1(s.reqInPtr) /\ r.reqOutPtr = s.reqOutPtr
  /\ r.requestQueue = [s.requestQueue EXCEPT ![s.reqInPtr] = t]
  /\ InEdma(r) = InEdma(s) \cup {t}
  /\ \A u \in HostTags \ {t} : r.entry[u] = s.entry[u]
  /\ r.entry[t].commandAborted = FALSE

\* EdmaReqQueueInsert marks the command, writes a slot and moves the pointer.
LEMMA PutFields ==
  ASSUME NEW s \in Channel, NEW t \in Used(s), NEW r, r = EdmaReqQueueInsert(s, t)
  PROVE  r \in Channel /\ PutInto(s, r, t)
<1>1. t \in HostTags /\ s.entry[t] \in UsedEntry /\ s.entry \in [HostTags -> Entry]
  BY UsedFacts DEF Channel
<1>2. PICK e : e = [s.entry[t] EXCEPT !.isCommandInEdma = TRUE, !.commandAborted = FALSE]
  OBVIOUS
<1>3. /\ e \in UsedEntry /\ e.cmd = s.entry[t].cmd /\ e.type = s.entry[t].type
      /\ e.PMPort = s.entry[t].PMPort /\ e.deviceTag = s.entry[t].deviceTag
      /\ e.isCommandInEdma = TRUE /\ e.commandAborted = FALSE
  BY <1>1, <1>2 DEF UsedEntry
<1>4. PICK f : f = [s.entry EXCEPT ![t] = e]
  OBVIOUS
<1>5. /\ f \in [HostTags -> Entry] /\ f[t] = e
      /\ \A u \in HostTags \ {t} : f[u] = s.entry[u]
  BY <1>1, <1>3, <1>4 DEF Entry
<1>6. PICK g : g = [s.requestQueue EXCEPT ![s.reqInPtr] = t]
  OBVIOUS
<1>7. PICK n : n = Next1(s.reqInPtr)
  OBVIOUS
<1>8. r \in Channel /\ r = [s EXCEPT !.requestQueue = g, !.reqInPtr = n, !.entry = f]
  <2>1. t \in Tags /\ n \in Slots
    BY <1>1, <1>7, RingTypes, NextSlot DEF Tags
  <2>2. g \in [Slots -> Tags]
    BY <1>6, <2>1, RingTypes
  <2>3. f = [s.entry EXCEPT ![t].isCommandInEdma = TRUE, ![t].commandAborted = FALSE]
    BY <1>1, <1>2, <1>4
  <2>4. r = [s EXCEPT !.requestQueue = g, !.reqInPtr = n, !.entry = f]
    <3>1. PICK u : u = [s EXCEPT !.requestQueue = g, !.reqInPtr = n]
      OBVIOUS
    <3>2. u = [s EXCEPT !.requestQueue[s.reqInPtr] = t, !.reqInPtr = Next1(@)]
      BY <1>6, <1>7, <3>1 DEF Channel
    <3>3. u.entry = s.entry
      BY <3>1 DEF Channel
    <3>4. r = [u EXCEPT !.entry[t].isCommandInEdma = TRUE, !.entry[t].commandAborted = FALSE]
      BY <3>2, Zenon DEF EdmaReqQueueInsert
    <3>5. r = [u EXCEPT !.entry = f]
      BY <2>3, <3>1, <3>3, <3>4, ZenonT(60) DEF Channel
    <3>6. QED
      BY <3>1, <3>5, Zenon
  <2>5. f \in [HostTags -> Entry]
    BY <1>5
  <2>6. [s EXCEPT !.requestQueue = g, !.reqInPtr = n, !.entry = f] \in Channel
    BY <2>1, <2>2, <2>5 DEF Channel
  <2>7. QED
    BY <2>4, <2>6
<1>9. /\ SameList(s, r) /\ SameMode(s, r) /\ SameErrors(s, r) /\ SameEngine(s, r)
      /\ SameResponses(s, r) /\ r.reqInPtr = Next1(s.reqInPtr) /\ r.reqOutPtr = s.reqOutPtr
      /\ r.requestQueue = [s.requestQueue EXCEPT ![s.reqInPtr] = t] /\ r.entry = f
  BY <1>6, <1>7, <1>8 DEF Channel, SameList, SameMode, SameErrors, SameEngine, SameResponses
<1>10. e # FreeEntry /\ s.entry[t] # FreeEntry
  BY <1>1, <1>3, UsedIsNotFree
<1>11. SameCommands(s, r)
  BY <1>3, <1>5, <1>9, <1>10 DEF SameCommands
<1>12. InEdma(r) = InEdma(s) \cup {t}
  BY <1>1, <1>3, <1>5, <1>9, <1>10 DEF InEdma, Used
<1>13. QED
  BY <1>3, <1>5, <1>8, <1>9, <1>11, <1>12 DEF PutInto

\* Without PIO commands and outside of a recovery every command is in the EDMA.
LEMMA AllUdmaInserted ==
  ASSUME NEW s, NEW l, Inv(s, l), l.pc = "idle", s.queueCommandsEnabled, s.state = "IDLE",
         s.noneUdmaOutstandingCommands = 0
  PROVE  Used(s) \subseteq InEdma(s) /\ s.pio = NoTag /\ ReadLog \notin Elems(s.commandsQueue)
<1>1. /\ QInv(s) /\ s \in Channel /\ PioOK(s) /\ AllInserted(s)
  BY DEF Inv, QInv, Control, Inserted
<1>2. s.commandsQueue \in Seq(Listable) /\ Elems(s.commandsQueue) \ {ReadLog} = Used(s)
  BY <1>1 DEF Channel, QInv, QueueOK, ListOK
<1>3. ReadLog \notin Elems(s.commandsQueue)
  BY <1>1 DEF PioOK
<1>4. NoneUdma(s) = {}
  <2>1. IsFiniteSet(NoneUdma(s))
    BY <1>1, UsedFacts, FS_Subset DEF NoneUdma
  <2>2. Cardinality(NoneUdma(s)) = 0
    BY <1>1 DEF QInv, QueueOK, CountOK
  <2>3. QED
    BY <2>1, <2>2, FS_EmptySet
<1>5. \A k \in 1..Len(s.commandsQueue) :
        s.commandsQueue[k] \in Used(s) /\ ~IsPIO(s, s.commandsQueue[k])
  <2>1. ASSUME NEW k \in 1..Len(s.commandsQueue)
        PROVE  s.commandsQueue[k] \in Used(s) /\ s.commandsQueue[k] # ReadLog
    BY <1>2, <1>3, ElemsAt
  <2>2. QED
    BY <1>4, <2>1 DEF IsPIO, NoneUdma
<1>6. ASSUME NEW t \in Used(s) PROVE t \in InEdma(s)
  <2>1. PICK k \in 1..Len(s.commandsQueue) : s.commandsQueue[k] = t
    BY <1>2, ElemsAt
  <2>2. \A j \in 1..k : j \in 1..Len(s.commandsQueue)
    BY <1>2, ElemsAt
  <2>3. QED
    BY <1>1, <1>5, <2>1, <2>2 DEF AllInserted
<1>7. s.pio = NoTag
  <2>1. s.pio \in HostTags \cup {NoTag, ReadLog}
    BY <1>1 DEF Channel, Tags
  <2>2. s.pio \in HostTags => s.pio \in NoneUdma(s)
    BY <1>1, <1>2, ElemsAt, TagFacts DEF PioOK, NoneUdma
  <2>3. QED
    BY <1>1, <1>3, <1>4, <2>1, <2>2 DEF PioOK
<1>8. QED
  BY <1>3, <1>6, <1>7

\* mvSataQueueCommand puts a UDMA command into the request ring.
LEMMA QueueActiveKeeps ==
  ASSUME NEW s, NEW l, NEW c, NEW p, MayQueue(s, l, c, p), s.EdmaActive,
         s.noneUdmaOutstandingCommands = 0, s.state = "IDLE",
         NEW r, r = EdmaReqQueueInsert(addCommand(s, c, "UDMA", p), Head(s.HostTagsPool))
  PROVE  Accepted(s, r, l, c)
<1>1. /\ Inv(s, l) /\ QInv(s) /\ Control(s, l) /\ l.pc = "idle" /\ s.phase = "ready"
      /\ s.queueCommandsEnabled /\ c \in Cmds /\ c \notin Held(s) /\ p \in Ports
      /\ s.HostTagsPool # <<>> /\ s.DeviceTagsPool[p] # <<>> /\ l \in Locals /\ s \in Channel
  BY DEF MayQueue, Inv, QInv
<1>2. /\ Used(s) \subseteq InEdma(s) /\ s.pio = NoTag /\ ReadLog \notin Elems(s.commandsQueue)
  BY <1>1, AllUdmaInserted
<1>3. Rings(s) /\ AbortsOK(s) /\ (Native(s) => FailsOK(s))
  BY <1>1, EngineWorks
<1>4. PICK t : t = Head(s.HostTagsPool)
  OBVIOUS
<1>5. PICK a : a = addCommand(s, c, "UDMA", p)
  OBVIOUS
<1>6. /\ QInv(a) /\ SameRest(s, a)
      /\ t \in HostTags \ Used(s) /\ t \notin Elems(s.commandsQueue)
      /\ Used(a) = Used(s) \cup {t} /\ Held(a) = Held(s) \cup {c}
      /\ InEdma(a) = InEdma(s)
      /\ a.commandsQueue = Append(s.commandsQueue, t)
      /\ \A u \in Used(s) : a.entry[u] = s.entry[u]
      /\ a.entry[t].type = "UDMA"
  BY <1>1, <1>4, <1>5, AddKeeps
<1>7. a \in Channel /\ t \in Used(a)
  BY <1>6 DEF QInv
<1>8. r \in Channel /\ PutInto(a, r, t)
  BY <1>4, <1>5, <1>7, PutFields
<1>9. /\ SameCommands(a, r) /\ SameResponses(a, r) /\ r.reqInPtr = Next1(a.reqInPtr)
      /\ r.reqOutPtr = a.reqOutPtr
      /\ r.requestQueue = [a.requestQueue EXCEPT ![a.reqInPtr] = t]
      /\ InEdma(r) = InEdma(a) \cup {t}
      /\ \A u \in HostTags \ {t} : r.entry[u] = a.entry[u]
      /\ r.entry[t].commandAborted = FALSE
      /\ r.executing = a.executing /\ r.commandsQueue = a.commandsQueue
  BY <1>8 DEF PutInto, SameEngine, SameCommands, SameList
<1>10. /\ QInv(r) /\ Used(r) = Used(a) /\ Held(r) = Held(a)
  <2>1. Used(a) \subseteq InEdma(a) \cup {t}
    BY <1>2, <1>6
  <2>2. QED
    BY <1>6, <1>7, <1>8, <1>9, <2>1, InsertOneKeeps
<1>11. SameRings(s, a) /\ a.executing = s.executing /\ a.erring = s.erring
       /\ a.PortsWithErrors = s.PortsWithErrors
  BY <1>6 DEF SameRest, SameErrors, SameEngine
<1>12. /\ Rings(a) /\ AbortsOK(a) /\ (Native(s) => FailsOK(a))
  BY <1>1, <1>3, <1>6, <1>11, AddKeepsPlaces
<1>13. Rings(r) /\ StaysLoose(a, r)
  <2>1. t \notin InEdma(a)
    BY <1>1, <1>6, UsedFacts
  <2>2. QED
    BY <1>6, <1>7, <1>8, <1>9, <1>12, <2>1, RingsInsert
<1>14. /\ r.executing = s.executing /\ r.erring = s.erring
       /\ r.PortsWithErrors = s.PortsWithErrors /\ r.state = s.state /\ r.CurrPort = s.CurrPort
       /\ r.EdmaActive = s.EdmaActive /\ r.edmaEnabled = s.edmaEnabled
       /\ r.errorCause = s.errorCause /\ r.responseDone = s.responseDone
       /\ r.saDevMask = s.saDevMask /\ r.queueCommandsEnabled = s.queueCommandsEnabled
       /\ r.queuedDMA = s.queuedDMA /\ r.pio = s.pio /\ r.phase = s.phase
       /\ SameResponses(s, r)
  <2>1. SameRings(s, a) /\ SameErrors(s, a) /\ SameEngine(s, a) /\ SameMode(s, a)
    BY <1>6 DEF SameRest
  <2>2. SameMode(a, r) /\ SameErrors(a, r) /\ SameEngine(a, r) /\ SameResponses(a, r)
    BY <1>8 DEF PutInto
  <2>3. QED
    BY <2>1, <2>2 DEF SameErrors, SameEngine, SameMode, SameRings, SameResponses
<1>15. Native(r) => FailsOK(r)
  <2>1. InError(r) = InError(a) /\ r.erring = a.erring /\ (Native(r) <=> Native(s))
    BY <1>11, <1>14 DEF InError, Native
  <2>2. \A u \in HostTags : /\ r.entry[u].PMPort = a.entry[u].PMPort
                            /\ r.entry[u].deviceTag = a.entry[u].deviceTag
    BY <1>9 DEF SameCommands
  <2>3. QED
    BY <1>12, <1>13, <2>1, <2>2 DEF FailsOK, Failing, StaysLoose
<1>16. AbortsOK(r)
  BY <1>9, <1>11, <1>12, <1>14, UsedFacts, <1>7 DEF AbortsOK
<1>17. Inserted(r, l)
  <2>1. Used(r) \subseteq InEdma(r)
    BY <1>2, <1>6, <1>9, <1>10
  <2>2. /\ r.commandsQueue \in Seq(Listable)
        /\ Elems(r.commandsQueue) \ {ReadLog} = Used(r)
    BY <1>10 DEF QInv, Channel, QueueOK, ListOK
  <2>3. \A k \in 1..Len(r.commandsQueue) : ~IsPIO(r, r.commandsQueue[k]) => r.commandsQueue[k] \in InEdma(r)
    BY <2>1, <2>2, ElemsAt DEF IsPIO
  <2>4. AllInserted(r)
    BY <2>2, <2>3, ElemsAt DEF AllInserted
  <2>5. QED
    BY <2>4 DEF Inserted
<1>18. RingsLive(r, l) /\ FailingOK(r, l)
  BY <1>1, <1>13, <1>14, <1>15, <1>16 DEF RingsLive, FailingOK
<1>19. Engine(r, l) /\ Reads(r, l) /\ Announced(r, l)
  BY <1>1, <1>14 DEF Control, Engine, Reads, Announced, SameResponses, Responded, Native
<1>20. PioOK(r) /\ ReadLog \notin Elems(r.commandsQueue)
  <2>1. NewLast(s, a, t)
    BY <1>6 DEF NewLast
  <2>2. /\ Elems(a.commandsQueue) = Elems(s.commandsQueue) \cup {t}
        /\ a.commandsQueue # <<>>
    BY <1>1, <2>1, AppendedList
  <2>3. Elems(r.commandsQueue) = Elems(s.commandsQueue) \cup {t}
    BY <1>9, <2>2
  <2>4. QED
    BY <1>2, <1>6, <1>14, <2>3, TagFacts DEF PioOK
<1>21. Recovery(r, l) /\ NotReady(r, l) /\ Heard(r, l) /\ Owner(r)
  <2>1. Recovery(r, l) /\ NotReady(r, l) /\ Heard(r, l)
    BY <1>1, <1>14, ZenonT(60) DEF Control, Recovery, NotReady, Heard, InError, Sensing, Native
  <2>2. ~r.saDevMask
    BY <1>1, <1>14 DEF Control, Owner
  <2>3. QED
    BY <2>1, <2>2 DEF Owner
<1>22. QED
  BY <1>1, <1>6, <1>10, <1>14, <1>17, <1>18, <1>19, <1>20, <1>21 DEF Inv, Control, Accepted, KeepsRing

\* The engine is started first when it is off.
LEMMA QueueInsertKeeps ==
  ASSUME NEW s, NEW l, NEW c, NEW p, MayQueue(s, l, c, p),
         s.noneUdmaOutstandingCommands = 0, s.state = "IDLE",
         NEW u, u = (IF s.EdmaActive THEN s ELSE activateEdma(s)),
         NEW r, r = EdmaReqQueueInsert(addCommand(u, c, "UDMA", p), Head(s.HostTagsPool))
  PROVE  Accepted(s, r, l, c)
<1>1. CASE s.EdmaActive
  BY <1>1, QueueActiveKeeps
<1>2. CASE ~s.EdmaActive
  <2>1. /\ Inv(s, l) /\ s \in Channel /\ l.pc = "idle" /\ s.phase = "ready" /\ s.queueCommandsEnabled
    BY DEF MayQueue, Inv, QInv
  <2>2. s.pio = NoTag /\ u = activateEdma(s) /\ ReadLog \notin Elems(s.commandsQueue)
    BY <1>2, <2>1, AllUdmaInserted
  <2>3. Inv(u, l) /\ Held(u) = Held(s)
    BY <1>2, <2>1, <2>2, ActivateKeeps
  <2>4. Activated(s, u)
    BY <2>1, <2>2, ActivateFields
  <2>5. /\ u.HostTagsPool = s.HostTagsPool /\ u.DeviceTagsPool = s.DeviceTagsPool
        /\ u.noneUdmaOutstandingCommands = s.noneUdmaOutstandingCommands
        /\ u.state = s.state /\ u.phase = s.phase /\ u.commandsQueue = s.commandsQueue
        /\ u.queueCommandsEnabled = s.queueCommandsEnabled /\ u.EdmaActive = TRUE
    BY <2>4 DEF Activated, SameQueue, SameList, SameMode, SameErrors
  <2>6. MayQueue(u, l, c, p)
    BY <2>3, <2>5 DEF MayQueue
  <2>7. Accepted(u, r, l, c)
    BY <2>5, <2>6, QueueActiveKeeps
  <2>8. QED
    BY <2>2, <2>3, <2>5, <2>7 DEF Accepted, KeepsRing
<1>3. QED
  BY <1>1, <1>2

\* A list of one command.
Single(q, t) == q # <<>> /\ Len(q) = 1 /\ q[1] = t /\ Head(q) = t /\ Elems(q) = {t}

\* A channel with one PIO command, before it is sent: the engine is stopped.
AlonePIO(s, r, c, t) ==
  /\ QInv(r) /\ Stopped(r) /\ Used(r) = {t} /\ Held(r) = Held(s) \cup {c} /\ InEdma(r) = {}
  /\ t \in HostTags /\ Single(r.commandsQueue, t) /\ r.entry[t].type = "NONE_UDMA"
  /\ SameErrors(s, r) /\ SameMode(s, r) /\ r.errorCause = s.errorCause
  /\ r.entry[t].cmd = c /\ ("spurious" \notin Faults => r.saDevMask)

\* mvSataQueueCommand links a PIO command and stops the engine for it.
LEMMA AloneFacts ==
  ASSUME NEW s, NEW l, NEW c, NEW p, MayQueue(s, l, c, p),
         NEW a, a = addCommand(s, c, "NONE_UDMA", p), a.outstandingCommands = 1,
         NEW r, r = (IF a.EdmaActive THEN deactivateEdma(a) ELSE a),
         NEW t, t = Head(s.HostTagsPool)
  PROVE  /\ AlonePIO(s, r, c, t) /\ Used(s) = {} /\ s.state = "IDLE" /\ s.pio = NoTag
         /\ (Native(s) => InError(s) = {}) /\ s.commandsQueue = <<>>
<1>1. /\ Inv(s, l) /\ QInv(s) /\ Control(s, l) /\ l.pc = "idle" /\ s.phase = "ready"
      /\ s.queueCommandsEnabled /\ c \in Cmds /\ c \notin Held(s) /\ p \in Ports
      /\ s.HostTagsPool # <<>> /\ s.DeviceTagsPool[p] # <<>> /\ l \in Locals /\ s \in Channel
  BY DEF MayQueue, Inv, QInv
<1>2. /\ QInv(a) /\ SameRest(s, a) /\ t \in HostTags \ Used(s)
      /\ Used(a) = Used(s) \cup {t} /\ Held(a) = Held(s) \cup {c}
      /\ InEdma(a) = InEdma(s)
      /\ a.commandsQueue = Append(s.commandsQueue, t)
      /\ \A u \in Used(s) : a.entry[u] = s.entry[u]
      /\ a.entry[t].type = "NONE_UDMA"
  BY <1>1, AddKeeps
<1>3. a \in Channel
  BY <1>2 DEF QInv
<1>4. Used(s) = {}
  <2>1. Cardinality(Used(s) \cup {t}) = 1 /\ IsFiniteSet(Used(s)) /\ t \notin Used(s)
    BY <1>1, <1>2, UsedFacts DEF QInv, QueueOK, CountOK
  <2>2. Cardinality(Used(s) \cup {t}) = Cardinality(Used(s)) + 1
    BY <2>1, FS_AddElement
  <2>3. Cardinality(Used(s)) \in Nat
    BY <2>1, FS_CardinalityType
  <2>4. Cardinality(Used(s)) = 0
    BY <2>1, <2>2, <2>3
  <2>5. QED
    BY <2>1, <2>4, FS_EmptySet
<1>5. Live(s, l)
  BY <1>1 DEF Live
<1>6. /\ s.state = "IDLE" /\ s.pio = NoTag /\ s.commandsQueue = <<>>
      /\ InEdma(s) = {} /\ Empty(s) /\ s.executing = {} /\ (Native(s) => InError(s) = {})
  BY <1>1, <1>4, <1>5, EmptyIsIdle
<1>7. Single(a.commandsQueue, t)
  <2>1. NewLast(s, a, t)
    BY <1>2 DEF NewLast
  <2>2. /\ Len(a.commandsQueue) = Len(s.commandsQueue) + 1
        /\ a.commandsQueue[Len(s.commandsQueue) + 1] = t /\ a.commandsQueue # <<>>
        /\ Elems(a.commandsQueue) = Elems(s.commandsQueue) \cup {t}
    BY <1>1, <2>1, AppendedList, SMTT(40)
  <2>3. Len(s.commandsQueue) = 0 /\ Elems(s.commandsQueue) = {}
    BY <1>6 DEF Elems
  <2>4. a.commandsQueue \in Seq(Listable)
    BY <1>3 DEF Channel
  <2>5. Head(a.commandsQueue) = a.commandsQueue[1]
    BY <2>2, <2>4, ElemsAt
  <2>6. QED
    BY <2>2, <2>3, <2>5 DEF Single
<1>8. a.entry[t].cmd = c
  <2>1. s.HostTagsPool \in Seq(HostTags) /\ s.entry \in [HostTags -> Entry]
        /\ "entry" \in DOMAIN s
    BY <1>1 DEF Channel
  <2>2. Held(a) = {c} /\ Used(a) = {t}
    BY <1>2, <1>4, <1>6 DEF Held
  <2>3. QED
    BY <2>2 DEF Held
<1>9. /\ SameErrors(s, a) /\ SameMode(s, a) /\ SameRings(s, a)
      /\ a.EdmaActive = s.EdmaActive /\ a.edmaEnabled = s.edmaEnabled
      /\ a.executing = s.executing /\ a.saDevMask = s.saDevMask /\ a.errorCause = s.errorCause
  BY <1>2 DEF SameRest, SameEngine
<1>10. s.EdmaActive \in BOOLEAN /\ s.edmaEnabled \in BOOLEAN
  BY <1>1 DEF Channel
<1>11. CASE s.EdmaActive
  <2>1. r = deactivateEdma(a)
    BY <1>9, <1>11
  <2>2. r \in Channel /\ Deactivated(a, r)
    BY <1>3, <2>1, DeactivateFields
  <2>3. QInv(r) /\ Used(r) = Used(a) /\ InEdma(r) = InEdma(a) /\ Held(r) = Held(a)
    BY <1>2, <2>2, SameQueueKeeps DEF Deactivated
  <2>4. /\ r.EdmaActive = FALSE /\ r.edmaEnabled = FALSE /\ r.executing = {} /\ r.saDevMask = TRUE
        /\ SameRings(a, r) /\ SameErrors(a, r) /\ SameMode(a, r) /\ r.errorCause = a.errorCause
        /\ r.commandsQueue = a.commandsQueue /\ r.entry = a.entry
    BY <2>2 DEF Deactivated, SameQueue, SameList
  <2>5. Stopped(r) /\ SameErrors(s, r) /\ SameMode(s, r)
    BY <1>6, <1>9, <2>4 DEF Stopped, Empty, SameRings, SameErrors, SameMode
  <2>6. QED
    BY <1>2, <1>4, <1>6, <1>7, <1>8, <1>9, <2>3, <2>4, <2>5 DEF AlonePIO
<1>12. CASE ~s.EdmaActive
  <2>1. r = a /\ s.EdmaActive = FALSE /\ s.edmaEnabled = FALSE
    BY <1>1, <1>9, <1>10, <1>12 DEF Control, Engine
  <2>2. Stopped(a)
    BY <1>6, <1>9, <2>1 DEF Stopped, Empty, SameRings
  <2>3. "spurious" \notin Faults => s.saDevMask
    BY <1>1, <1>5, <1>12 DEF Control, Heard
  <2>4. QED
    BY <1>2, <1>4, <1>6, <1>7, <1>8, <1>9, <2>1, <2>2, <2>3 DEF AlonePIO
<1>13. QED
  BY <1>4, <1>6, <1>11, <1>12

\* Another PIO command runs, or none.
Runs(s, r, t) ==
  /\ SameQueue(s, r) /\ SameErrors(s, r) /\ SameRings(s, r) /\ SameEngine(s, r)
  /\ r.pio = t /\ r.phase = s.phase /\ r.queuedDMA = s.queuedDMA
  /\ r.queueCommandsEnabled = s.queueCommandsEnabled

\* Sending a PIO command, or being done with it.
LEMMA PioFields ==
  ASSUME NEW s \in Channel, NEW t \in Tags \cup {ReadLog}, NEW r, r = [s EXCEPT !.pio = t]
  PROVE  r \in Channel /\ Runs(s, r, t)
<1>1. r \in Channel
  BY DEF Channel
<1>2. QED
  BY <1>1, ZenonT(60) DEF Channel, Runs, SameQueue, SameList, SameErrors, SameRings, SameEngine

\* The PIO command is sent at once.
LEMMA QueueAloneKeeps ==
  ASSUME NEW s, NEW l, NEW c, NEW p, MayQueue(s, l, c, p),
         NEW a, a = addCommand(s, c, "NONE_UDMA", p), a.outstandingCommands = 1,
         NEW u, u = (IF a.EdmaActive THEN deactivateEdma(a) ELSE a),
         NEW t, t = Head(s.HostTagsPool), NEW r, r = [u EXCEPT !.pio = t]
  PROVE  Accepted(s, r, l, c)
<1>1. /\ Control(s, l) /\ l.pc = "idle" /\ s.phase = "ready" /\ l \in Locals
      /\ s.queueCommandsEnabled
  BY DEF MayQueue, Inv
<1>2. /\ AlonePIO(s, u, c, t) /\ Used(s) = {} /\ s.state = "IDLE" /\ s.pio = NoTag
      /\ (Native(s) => InError(s) = {}) /\ s.commandsQueue = <<>>
  BY AloneFacts
<1>3. /\ QInv(u) /\ Stopped(u) /\ Used(u) = {t} /\ Held(u) = Held(s) \cup {c} /\ InEdma(u) = {}
      /\ t \in HostTags /\ Single(u.commandsQueue, t) /\ u.entry[t].type = "NONE_UDMA"
      /\ SameErrors(s, u) /\ SameMode(s, u) /\ u.errorCause = s.errorCause
      /\ ("spurious" \notin Faults => u.saDevMask)
  BY <1>2 DEF AlonePIO
<1>4. u \in Channel
  BY <1>3 DEF QInv
<1>5. t \in Tags \cup {ReadLog} /\ t \in Listable
  BY <1>3 DEF Tags, Listable
<1>6. /\ r \in Channel /\ SameQueue(u, r) /\ SameErrors(u, r) /\ SameRings(u, r) /\ SameEngine(u, r)
      /\ r.pio = t /\ r.phase = u.phase /\ r.queuedDMA = u.queuedDMA
      /\ r.commandsQueue = u.commandsQueue /\ r.entry = u.entry
  <2>1. r \in Channel /\ Runs(u, r, t)
    BY <1>4, <1>5, PioFields
  <2>2. QED
    BY <2>1 DEF Runs, SameQueue, SameList
<1>7. /\ QInv(r) /\ InEdma(r) = {} /\ Held(r) = Held(u)
  BY <1>3, <1>6, SameQueueKeeps
<1>8. Stopped(r) /\ r.phase = "ready"
  BY <1>1, <1>3, <1>6 DEF Stopped, Empty, SameRings, SameEngine, SameMode
<1>9. /\ r.state = s.state /\ r.PortsWithErrors = s.PortsWithErrors /\ r.CurrPort = s.CurrPort
      /\ r.erring = s.erring /\ r.queuedDMA = s.queuedDMA /\ r.errorCause = s.errorCause
      /\ r.saDevMask = u.saDevMask
  BY <1>3, <1>6 DEF SameErrors, SameMode, SameEngine
<1>10. FailingOK(r, l)
  BY <1>2, <1>7, <1>9, NothingFails, ZenonT(60) DEF InError, Native
<1>11. Elems(r.commandsQueue) = {t} /\ Head(r.commandsQueue) = t /\ r.commandsQueue # <<>>
       /\ Len(r.commandsQueue) = 1 /\ r.commandsQueue[1] = t
  BY <1>3, <1>6 DEF Single
<1>12. Inserted(r, l)
  <2>1. IsPIO(r, r.commandsQueue[1])
    BY <1>3, <1>6, <1>11 DEF IsPIO
  <2>2. QED
    BY <1>11, <2>1 DEF Inserted, AllInserted
<1>13. PioOK(r)
  BY <1>2, <1>3, <1>6, <1>8, <1>9, <1>11, TagFacts DEF PioOK, Stopped
<1>14. Recovery(r, l) /\ Reads(r, l) /\ Heard(r, l)
  BY <1>1, <1>2, <1>3, <1>8, <1>9 DEF Control, Recovery, Reads, Heard, Sensing, Stopped
<1>15. /\ "selfDisable" \in r.errorCause => ~Native(r)
       /\ r.state # "WAIT_FOR_COMPLETIONS" /\ (Native(r) => InError(r) = {})
  BY <1>1, <1>2, <1>9 DEF Control, Engine, Native, InError
<1>16. Inv(r, l)
  BY <1>1, <1>7, <1>8, <1>10, <1>12, <1>13, <1>14, <1>15, StoppedKeeps
<1>17. KeepsRing(s, r)
  BY <1>1, <1>2 DEF KeepsRing, Control, PioOK
<1>18. QED
  BY <1>1, <1>3, <1>7, <1>8, <1>16, <1>17 DEF Accepted

\* The list without a command.
LEMMA RemovedList ==
  ASSUME NEW s, NEW r, QInv(s), QInv(r), NEW t \in Used(s), InEdma(r) = InEdma(s) \ {t},
         r.commandsQueue = Without(s.commandsQueue, t),
         \A u \in HostTags \ {t} : r.entry[u] = s.entry[u]
  PROVE  /\ Elems(r.commandsQueue) = Elems(s.commandsQueue) \ {t}
         /\ ReadLog \in Elems(r.commandsQueue) <=> ReadLog \in Elems(s.commandsQueue)
         /\ AllInserted(s) /\ t \in InEdma(s) => AllInserted(r)
<1>1. PICK q : q = s.commandsQueue
  OBVIOUS
<1>2. PICK w : w = r.commandsQueue
  OBVIOUS
<1>3. /\ q \in Seq(Listable) /\ NoDuplicates(q) /\ Elems(q) \ {ReadLog} = Used(s)
      /\ w \in Seq(Listable) /\ w = Without(q, t) /\ t \in HostTags
  BY <1>1, <1>2, UsedFacts DEF QInv, Channel, QueueOK, ListOK
<1>4. t \in Elems(q) /\ t # ReadLog
  BY <1>3, TagFacts
<1>5. /\ Len(w) = Len(q) - 1 /\ Elems(w) = Elems(q) \ {t}
      /\ \E k \in 1..Len(q) : q[k] = t /\ ClosesGap(q, w, k)
  BY <1>3, <1>4, Unlink
<1>6. ASSUME AllInserted(s), t \in InEdma(s) PROVE AllInserted(r)
  <2>1. PICK k \in 1..Len(q) : q[k] = t /\ ClosesGap(q, w, k)
    BY <1>5
  <2>2. Len(q) \in Nat /\ DOMAIN q = 1..Len(q) /\ \A i \in 1..Len(q) : q[i] \in Listable
    BY <1>3, ElemsAt
  <2>3. \A i \in 1..Len(q) : i # k => q[i] # t
    BY <2>1, <2>2, <1>3 DEF NoDuplicates
  <2>4. \A i \in 1..Len(q) : i # k => (IsPIO(r, q[i]) <=> IsPIO(s, q[i]))
    BY <2>2, <2>3 DEF IsPIO, Listable
  <2>5. ~IsPIO(s, t)
    BY <1>4, <1>6 DEF IsPIO, QInv, EntriesOK
  <2>6. ASSUME NEW i \in 1..Len(w), \A j \in 1..i : ~IsPIO(r, w[j])
        PROVE  w[i] \in InEdma(r)
    <3>1. PICK n \in 1..Len(q) : n # k /\ w[i] = q[n] /\ n = IF i < k THEN i ELSE i + 1
      BY <1>5, <2>1, <2>2 DEF ClosesGap
    <3>2. ASSUME NEW j \in 1..n, j # k PROVE ~IsPIO(s, q[j])
      <4>1. CASE j < k
        <5>1. j \in 1..i /\ j \in 1..Len(q) /\ w[j] = q[j]
          BY <1>5, <2>1, <2>2, <3>1, <4>1, SMTT(40) DEF ClosesGap
        <5>2. QED
          BY <2>4, <2>6, <4>1, <3>2, <5>1
      <4>2. CASE j > k
        <5>1. j - 1 \in 1..i /\ j \in 1..Len(q) /\ w[j - 1] = q[j]
          BY <1>5, <2>1, <2>2, <3>1, <4>2 DEF ClosesGap
        <5>2. QED
          BY <2>4, <2>6, <3>2, <5>1
      <4>3. QED
        BY <3>2, <4>1, <4>2, <2>1, <2>2
    <3>3. \A j \in 1..n : ~IsPIO(s, q[j])
      BY <2>1, <2>5, <3>2
    <3>4. q[n] \in InEdma(s)
      BY <1>1, <1>6, <3>3 DEF AllInserted
    <3>5. QED
      BY <2>3, <3>1, <3>4
  <2>7. QED
    BY <1>2, <2>6 DEF AllInserted
<1>7. QED
  BY <1>1, <1>2, <1>4, <1>5, <1>6

\* The drive is not ready: the PIO command is removed again and refused.
LEMMA QueueRefusedKeeps ==
  ASSUME NEW s, NEW l, NEW c, NEW p, MayQueue(s, l, c, p),
         NEW a, a = addCommand(s, c, "NONE_UDMA", p), a.outstandingCommands = 1,
         NEW u, u = (IF a.EdmaActive THEN deactivateEdma(a) ELSE a),
         NEW t, t = Head(s.HostTagsPool), NEW r, r = removeCommand(u, t)
  PROVE  Outcome(s, r, l, {})
<1>1. /\ Control(s, l) /\ QInv(s) /\ l.pc = "idle" /\ s.phase = "ready" /\ l \in Locals
      /\ s.queueCommandsEnabled
  BY DEF MayQueue, Inv
<1>2. /\ AlonePIO(s, u, c, t) /\ Used(s) = {} /\ s.state = "IDLE" /\ s.pio = NoTag
      /\ (Native(s) => InError(s) = {}) /\ s.commandsQueue = <<>>
  BY AloneFacts
<1>3. /\ QInv(u) /\ Stopped(u) /\ Used(u) = {t} /\ Held(u) = Held(s) \cup {c} /\ InEdma(u) = {}
      /\ t \in HostTags /\ Single(u.commandsQueue, t) /\ u.entry[t].type = "NONE_UDMA"
      /\ SameErrors(s, u) /\ SameMode(s, u) /\ u.errorCause = s.errorCause
      /\ ("spurious" \notin Faults => u.saDevMask)
  BY <1>2 DEF AlonePIO
<1>4. /\ QInv(r) /\ SameRest(u, r) /\ Used(r) = {} /\ InEdma(r) = {}
      /\ r.commandsQueue = Without(u.commandsQueue, t)
      /\ \A x \in HostTags \ {t} : r.entry[x] = u.entry[x]
  <2>1. /\ QInv(r) /\ SameRest(u, r) /\ Used(r) = Used(u) \ {t} /\ InEdma(r) = InEdma(u) \ {t}
        /\ r.commandsQueue = Without(u.commandsQueue, t)
        /\ \A x \in HostTags \ {t} : r.entry[x] = u.entry[x]
    BY <1>3, RemoveKeeps
  <2>2. QED
    BY <1>3, <2>1
<1>5. Elems(r.commandsQueue) = {}
  <2>1. Elems(r.commandsQueue) = Elems(u.commandsQueue) \ {t}
        /\ (ReadLog \in Elems(r.commandsQueue) <=> ReadLog \in Elems(u.commandsQueue))
    BY <1>3, <1>4, RemovedList
  <2>2. QED
    BY <1>3, <2>1 DEF Single
<1>6. r.commandsQueue = <<>> /\ Held(r) = {} /\ Held(s) = {} /\ Len(r.commandsQueue) = 0
  BY <1>1, <1>2, <1>4, <1>5, HeldFacts
<1>7. /\ r.state = s.state /\ r.PortsWithErrors = s.PortsWithErrors /\ r.CurrPort = s.CurrPort
      /\ r.erring = s.erring /\ r.queuedDMA = s.queuedDMA /\ r.errorCause = s.errorCause
      /\ r.saDevMask = u.saDevMask /\ r.pio = s.pio /\ r.phase = s.phase /\ Stopped(r)
  <2>1. SameRings(u, r) /\ SameErrors(u, r) /\ SameEngine(u, r) /\ SameMode(u, r)
    BY <1>4 DEF SameRest
  <2>2. Stopped(r)
    BY <1>3, <2>1 DEF Stopped, Empty, SameRings, SameEngine
  <2>3. QED
    BY <1>3, <2>1, <2>2, ZenonT(60) DEF SameErrors, SameMode, SameEngine
<1>8. FailingOK(r, l)
  BY <1>2, <1>4, <1>7, NothingFails DEF InError, Native
<1>9. Inserted(r, l)
  BY <1>6 DEF Inserted, AllInserted
<1>10. PioOK(r)
  BY <1>2, <1>5, <1>7, TagFacts DEF PioOK
<1>11. Recovery(r, l) /\ Reads(r, l) /\ Heard(r, l)
  <2>1. Recovery(s, l) /\ Reads(s, l) /\ r.state = "IDLE" /\ ~r.EdmaActive
    BY <1>1, <1>2, <1>7 DEF Control, Stopped
  <2>2. InError(r) = InError(s) /\ (Native(r) <=> Native(s))
    BY <1>7 DEF InError, Native
  <2>3. Recovery(r, l)
    BY <1>2, <1>7, <2>1, <2>2 DEF Recovery, Sensing
  <2>4. Reads(r, l)
    BY <1>1, <2>1 DEF Reads
  <2>5. Heard(r, l)
    BY <1>3, <1>7 DEF Heard
  <2>6. QED
    BY <2>3, <2>4, <2>5
<1>12. /\ "selfDisable" \in r.errorCause => ~Native(r)
       /\ r.state # "WAIT_FOR_COMPLETIONS" /\ (Native(r) => InError(r) = {})
  BY <1>1, <1>2, <1>7 DEF Control, Engine, Native, InError
<1>13. Inv(r, l)
  BY <1>1, <1>4, <1>7, <1>8, <1>9, <1>10, <1>11, <1>12, StoppedKeeps
<1>14. KeepsRing(s, r) /\ Served(s, r, {})
  BY <1>5, <1>6, <1>7, ServedNone DEF KeepsRing
<1>15. QED
  BY <1>13, <1>14 DEF Outcome

-----------------------------------------------------------------------------
(* The IAL initialises and restarts the channel.                           *)

\* What resetEdmaChannel leaves.
Reset(s, r) ==
  /\ EmptyQueue(r) /\ Stopped(r) /\ r.queueCommandsEnabled = FALSE /\ r.state = "IDLE"
  /\ r.PortsWithErrors = {} /\ r.CurrPort = 0 /\ r.pio = NoTag /\ InError(r) = {}
  /\ r.errorCause = s.errorCause /\ r.queuedDMA = s.queuedDMA /\ r.phase = s.phase
  /\ r.responseDone = s.responseDone

\* resetEdmaChannel empties the queue and the rings.
LEMMA ResetChannelFields ==
  ASSUME NEW s \in Channel, NEW r, r = resetEdmaChannel(s)
  PROVE  r \in Channel /\ Reset(s, r)
<1>1. PICK u : u = resetEdmaQPointers(s)
  OBVIOUS
<1>2. u \in Channel /\ Emptied(s, u)
  BY <1>1, ResetFields
<1>3. /\ Empty(u) /\ u.errorCause = s.errorCause /\ u.queuedDMA = s.queuedDMA /\ u.phase = s.phase
      /\ u.responseDone = s.responseDone
  BY <1>2 DEF Emptied, SameEngine, SameMode
<1>4. PICK f, g, h, e, n :
        /\ f = FullStack(HostTags) /\ g = [p \in Ports |-> FullStack(DeviceTags)]
        /\ h = [t \in HostTags |-> FreeEntry] /\ e = [p \in Ports |-> NoTag]
        /\ n = [p \in Ports |-> 0]
  OBVIOUS
<1>5. r = [u EXCEPT !.edmaEnabled = FALSE, !.EdmaActive = FALSE, !.queueCommandsEnabled = FALSE,
             !.outstandingCommands = 0, !.noneUdmaOutstandingCommands = 0,
             !.portQueuedCommands = n, !.HostTagsPool = f, !.DeviceTagsPool = g,
             !.entry = h, !.commandsQueue = <<>>,
             !.state = "IDLE", !.PortsWithErrors = {}, !.CurrPort = 0,
             !.executing = {}, !.pio = NoTag, !.erring = e]
  BY <1>1, <1>4, Zenon DEF resetEdmaChannel
<1>6. /\ f \in Seq(HostTags) /\ g \in [Ports -> Seq(DeviceTags)]
  <2>1. f \in Seq(HostTags) /\ FullStack(DeviceTags) \in Seq(DeviceTags)
    BY <1>4, EdmaAssumption, FullStackFacts
  <2>2. QED
    BY <1>4, <2>1
<1>7. h \in [HostTags -> Entry] /\ e \in [Ports -> DeviceTags \cup {NoTag}]
  BY <1>4 DEF Entry
<1>8. n \in [Ports -> Int]
  BY <1>4
<1>9. <<>> \in Seq(Listable) /\ NoTag \in Tags \cup {ReadLog} /\ "IDLE" \in States
  BY DEF Tags, States
<1>10. r \in Channel
  <2>1. PICK v : v = [u EXCEPT !.edmaEnabled = FALSE, !.EdmaActive = FALSE,
                               !.queueCommandsEnabled = FALSE]
    OBVIOUS
  <2>2. v \in Channel
    BY <1>2, <2>1, ZenonT(60) DEF Channel
  <2>3. PICK w : w = [v EXCEPT !.outstandingCommands = 0, !.noneUdmaOutstandingCommands = 0,
                               !.portQueuedCommands = n]
    OBVIOUS
  <2>4. w \in Channel
    <3>1. 0 \in Int
      OBVIOUS
    <3>2. QED
      BY <1>8, <2>2, <2>3, <3>1, ZenonT(60) DEF Channel
  <2>5. PICK x : x = [w EXCEPT !.HostTagsPool = f, !.DeviceTagsPool = g, !.entry = h,
                               !.commandsQueue = <<>>]
    OBVIOUS
  <2>6. x \in Channel
    BY <1>6, <1>7, <1>9, <2>4, <2>5, ZenonT(60) DEF Channel
  <2>7. PICK y : y = [x EXCEPT !.state = "IDLE", !.PortsWithErrors = {}, !.CurrPort = 0]
    OBVIOUS
  <2>8. y \in Channel
    BY <1>9, <2>6, <2>7, ZenonT(60) DEF Channel
  <2>9. r = [y EXCEPT !.executing = {}, !.pio = NoTag, !.erring = e]
    BY <1>5, <2>1, <2>3, <2>5, <2>7, Zenon
  <2>10. QED
    <3>1. e \in [Ports -> DeviceTags \cup {NoTag}]
      BY <1>7
    <3>2. NoTag \in Tags \cup {ReadLog}
      BY <1>9
    <3>3. [y EXCEPT !.executing = {}, !.pio = NoTag, !.erring = e] \in Channel
      BY <2>8, <3>1, <3>2 DEF Channel
    <3>4. QED
      BY <2>9, <3>3, Zenon
<1>11. /\ r.commandsQueue = <<>> /\ r.entry = h /\ r.HostTagsPool = f /\ r.DeviceTagsPool = g
       /\ r.outstandingCommands = 0 /\ r.noneUdmaOutstandingCommands = 0
       /\ r.portQueuedCommands = n /\ r.EdmaActive = FALSE /\ r.edmaEnabled = FALSE
       /\ r.executing = {} /\ r.queueCommandsEnabled = FALSE /\ r.state = "IDLE"
       /\ r.PortsWithErrors = {} /\ r.CurrPort = 0 /\ r.pio = NoTag /\ r.erring = e
       /\ r.errorCause = u.errorCause /\ r.queuedDMA = u.queuedDMA /\ r.phase = u.phase
       /\ r.responseDone = u.responseDone /\ SameRings(u, r)
  BY <1>2, <1>5 DEF Channel, SameRings
<1>12. EmptyQueue(r)
  BY <1>4, <1>11 DEF EmptyQueue
<1>13. Stopped(r)
  BY <1>3, <1>11 DEF Stopped, Empty, SameRings
<1>14. InError(r) = {}
  BY <1>4, <1>11 DEF InError
<1>15. QED
  BY <1>3, <1>10, <1>11, <1>12, <1>13, <1>14 DEF Reset

\* An empty channel that is disabled, while no interrupt routine runs.
LEMMA ResetKeeps ==
  ASSUME NEW r \in Channel, NEW m \in Locals, EmptyQueue(r), Stopped(r),
         r.queueCommandsEnabled = FALSE, r.state = "IDLE", r.PortsWithErrors = {},
         r.CurrPort = 0, r.pio = NoTag, InError(r) = {}, m.pc = "idle",
         r.phase = "configured" =>
           r.errorCause \cap {"devErr", "selfDisable"} = {} /\ ~r.responseDone,
         "selfDisable" \in r.errorCause => ~Native(r)
  PROVE  Inv(r, m) /\ Held(r) = {} /\ ReadLog \notin Elems(r.commandsQueue)
<1>1. QInv(r) /\ Used(r) = {} /\ Held(r) = {} /\ InEdma(r) = {}
  BY EmptyKeeps
<1>2. ~Live(r, m)
  BY DEF Live, Sensing, Stopped
<1>3. r.commandsQueue = <<>> /\ Elems(r.commandsQueue) = {}
  BY DEF EmptyQueue, Elems
<1>4. Inserted(r, m) /\ RingsLive(r, m) /\ FailingOK(r, m)
  BY <1>2 DEF Inserted, RingsLive, FailingOK
<1>5. Engine(r, m) /\ Reads(r, m) /\ Announced(r, m) /\ Heard(r, m)
  BY <1>2 DEF Engine, Reads, Announced, Heard, Stopped, Empty
<1>6. PioOK(r)
  BY <1>3, TagFacts DEF PioOK
<1>7. Recovery(r, m)
  BY DEF Recovery, Sensing, Stopped
<1>8. NotReady(r, m) /\ Owner(r)
  BY <1>3 DEF NotReady, Stopped, Owner
<1>9. QED
  BY <1>1, <1>3, <1>4, <1>5, <1>6, <1>7, <1>8 DEF Inv, Control

\* The channel without its queue, as mvSataDisableChannelDma leaves it.
LEMMA DisableFields ==
  ASSUME NEW s \in Channel, NEW r, r = disableChannelDma(s)
  PROVE  /\ r \in Channel /\ r.queueCommandsEnabled = FALSE /\ Held(r) = Held(s)
         /\ r.errorCause = s.errorCause /\ r.queuedDMA = s.queuedDMA
         /\ r.responseDone = s.responseDone
<1>1. PICK u : u = [s EXCEPT !.queueCommandsEnabled = FALSE]
  OBVIOUS
<1>2. u \in Channel
  BY <1>1, ZenonT(60) DEF Channel
<1>3. /\ u.queueCommandsEnabled = FALSE /\ u.errorCause = s.errorCause
      /\ u.queuedDMA = s.queuedDMA /\ u.entry = s.entry /\ u.responseDone = s.responseDone
  BY <1>1 DEF Channel
<1>4. r = deactivateEdma(u)
  BY <1>1, Zenon DEF disableChannelDma
<1>5. r \in Channel /\ Deactivated(u, r)
  BY <1>2, <1>4, DeactivateFields
<1>6. /\ r.queueCommandsEnabled = FALSE /\ r.entry = s.entry
      /\ r.errorCause = s.errorCause /\ r.queuedDMA = s.queuedDMA
      /\ r.responseDone = s.responseDone
  BY <1>3, <1>5 DEF Deactivated, SameQueue, SameMode
<1>7. Held(r) = Held(s)
  BY <1>6 DEF Held, Used
<1>8. QED
  BY <1>5, <1>6, <1>7

\* The phase of the IAL moves on.
LEMMA PhaseFields ==
  ASSUME NEW s \in Channel, NEW phase \in {"restarted", "configured", "ready"},
         NEW r, r = [s EXCEPT !.phase = phase]
  PROVE  /\ r \in Channel /\ SameQueue(s, r) /\ SameErrors(s, r) /\ SameRings(s, r)
         /\ SameEngine(s, r) /\ r.phase = phase /\ r.queuedDMA = s.queuedDMA
         /\ r.queueCommandsEnabled = s.queueCommandsEnabled /\ r.pio = s.pio
<1>1. r \in Channel
  BY ZenonT(60) DEF Channel
<1>2. QED
  BY <1>1, ZenonT(60) DEF Channel, SameQueue, SameList, SameErrors, SameRings, SameEngine

\* Every command is called back and the channel is empty.
LEMMA RestartKeeps ==
  ASSUME NEW s, NEW l, NEW u \in Channel, NEW m \in Locals, Inv(s, l), m.pc = "idle",
         Held(u) = Held(s), "selfDisable" \in u.errorCause => ~Native(u),
         NEW r, r = restartChannel(u)
  PROVE  Outcome(s, r.ch, m, r.called)
<1>1. PICK d : d = disableChannelDma(u)
  OBVIOUS
<1>2. /\ d \in Channel /\ d.queueCommandsEnabled = FALSE /\ Held(d) = Held(u)
      /\ d.errorCause = u.errorCause /\ d.queuedDMA = u.queuedDMA
  BY <1>1, DisableFields
<1>3. PICK e : e = resetEdmaChannel(d)
  OBVIOUS
<1>4. flushDmaQueue(d) = e /\ flushedCommands(d) = Held(s)
  BY <1>2, <1>3 DEF flushDmaQueue, flushedCommands
<1>5. PICK x : x = [e EXCEPT !.phase = "restarted"]
  OBVIOUS
<1>6. r.ch = x /\ r.called = Held(s)
  BY <1>1, <1>4, <1>5 DEF restartChannel
<1>7. e \in Channel /\ Reset(d, e)
  BY <1>2, <1>3, ResetChannelFields
<1>8. /\ x \in Channel /\ SameQueue(e, x) /\ SameErrors(e, x) /\ SameRings(e, x)
      /\ SameEngine(e, x) /\ x.phase = "restarted" /\ x.queuedDMA = e.queuedDMA
      /\ x.queueCommandsEnabled = e.queueCommandsEnabled /\ x.pio = e.pio
  BY <1>5, <1>7, PhaseFields
<1>9. /\ EmptyQueue(x) /\ Stopped(x) /\ x.queueCommandsEnabled = FALSE /\ x.state = "IDLE"
      /\ x.PortsWithErrors = {} /\ x.CurrPort = 0 /\ x.pio = NoTag /\ InError(x) = {}
      /\ x.errorCause = d.errorCause /\ x.queuedDMA = d.queuedDMA
  BY <1>7, <1>8 DEF Reset, SameQueue, SameList, SameErrors, SameRings, SameEngine, EmptyQueue,
     Stopped, Empty, InError
<1>10. "selfDisable" \in x.errorCause => ~Native(x)
  BY <1>2, <1>9 DEF Native
<1>11. Inv(x, m) /\ Held(x) = {} /\ ReadLog \notin Elems(x.commandsQueue)
  BY <1>8, <1>9, <1>10, ResetKeeps
<1>12. Served(s, x, Held(s)) /\ KeepsRing(s, x)
  BY <1>8, <1>11 DEF Served, KeepsRing
<1>13. QED
  BY <1>6, <1>11, <1>12 DEF Outcome

\* A channel the IAL has not made ready is empty.
LEMMA NotReadyFacts ==
  ASSUME NEW s, NEW l, Inv(s, l), s.phase # "ready"
  PROVE  /\ s \in Channel /\ QInv(s) /\ l \in Locals /\ Control(s, l)
         /\ s.commandsQueue = <<>> /\ s.state = "IDLE" /\ s.EdmaActive = FALSE
         /\ s.edmaEnabled = FALSE /\ s.executing = {} /\ Stopped(s)
         /\ s.pio = NoTag /\ InError(s) = {} /\ Empty(s) /\ s.PortsWithErrors = {}
         /\ Used(s) = {} /\ Held(s) = {} /\ InEdma(s) = {} /\ Elems(s.commandsQueue) = {}
         /\ Len(s.commandsQueue) = 0
<1>1. s \in Channel /\ QInv(s) /\ l \in Locals /\ Control(s, l)
  BY DEF Inv, QInv
<1>2. /\ s.commandsQueue = <<>> /\ s.state = "IDLE" /\ ~s.EdmaActive
      /\ s.pio = NoTag /\ InError(s) = {} /\ Empty(s)
  BY <1>1 DEF Control, NotReady
<1>3. s.PortsWithErrors = {}
  BY <1>1, <1>2 DEF Control, Recovery
<1>4. s.EdmaActive = FALSE /\ s.edmaEnabled = FALSE /\ s.executing = {}
  <2>1. s.EdmaActive \in BOOLEAN /\ s.edmaEnabled \in BOOLEAN
    BY <1>1 DEF Channel
  <2>2. QED
    BY <1>1, <1>2, <2>1 DEF Control, Engine
<1>5. Used(s) = {} /\ Held(s) = {}
  BY <1>1, <1>2, HeldFacts
<1>6. InEdma(s) = {}
  BY <1>5 DEF InEdma
<1>7. Elems(s.commandsQueue) = {} /\ Len(s.commandsQueue) = 0
  BY <1>2 DEF Elems
<1>8. QED
  BY <1>1, <1>2, <1>3, <1>4, <1>5, <1>6, <1>7 DEF Stopped

\* mvSataConfigureChannel, and its interrupt is masked.
Configured(s) == [resetEdmaChannel(s) EXCEPT !.saDevMask = FALSE, !.phase = "configured"]

\* mvStartChannelInit configures the channel.
LEMMA ConfigureKeeps ==
  ASSUME NEW s, NEW l, Inv(s, l), l.pc = "idle", s.phase = "restarted",
         s.errorCause = {}, ~s.responseDone, NEW r, r = Configured(s)
  PROVE  Outcome(s, r, l, {})
<1>1. s \in Channel /\ l \in Locals /\ Held(s) = {}
  BY NotReadyFacts
<1>2. PICK u : u = resetEdmaChannel(s)
  OBVIOUS
<1>3. u \in Channel /\ Reset(s, u)
  BY <1>1, <1>2, ResetChannelFields
<1>4. r = [u EXCEPT !.saDevMask = FALSE, !.phase = "configured"]
  BY <1>2, Zenon DEF Configured
<1>5. [u EXCEPT !.saDevMask = FALSE, !.phase = "configured"] \in Channel
  BY <1>3 DEF Channel
<1>6. r \in Channel
  BY <1>4, <1>5, Zenon
<1>7. /\ SameQueue(u, r) /\ SameErrors(u, r) /\ SameRings(u, r)
      /\ r.EdmaActive = u.EdmaActive /\ r.edmaEnabled = u.edmaEnabled
      /\ r.executing = u.executing /\ r.errorCause = u.errorCause
      /\ r.responseDone = u.responseDone /\ r.pio = u.pio /\ r.phase = "configured"
      /\ r.queueCommandsEnabled = u.queueCommandsEnabled
  BY <1>3, <1>4 DEF Channel, SameQueue, SameList, SameErrors, SameRings
<1>8. /\ EmptyQueue(r) /\ Stopped(r) /\ r.queueCommandsEnabled = FALSE /\ r.state = "IDLE"
      /\ r.PortsWithErrors = {} /\ r.CurrPort = 0 /\ r.pio = NoTag /\ InError(r) = {}
      /\ r.errorCause = {} /\ ~r.responseDone
  BY <1>3, <1>7 DEF Reset, SameQueue, SameList, SameErrors, SameRings, EmptyQueue,
     Stopped, Empty, InError
<1>9. Inv(r, l) /\ Held(r) = {} /\ ReadLog \notin Elems(r.commandsQueue)
  BY <1>1, <1>6, <1>8, ResetKeeps
<1>10. Served(s, r, {}) /\ KeepsRing(s, r)
  BY <1>1, <1>9 DEF Served, KeepsRing
<1>11. QED
  BY <1>9, <1>10 DEF Outcome

\* mvSataConfigEdmaMode and mvSataEnableChannelDma.
Enabled(s, mode) ==
  [activateEdma([s EXCEPT !.queuedDMA = mode]) EXCEPT !.queueCommandsEnabled = TRUE, !.phase = "ready"]

\* The IAL enables the channel.
LEMMA EnableKeeps ==
  ASSUME NEW s, NEW l, Inv(s, l), l.pc = "idle", s.phase = "configured",
         NEW mode \in Modes, NEW r, r = Enabled(s, mode)
  PROVE  Outcome(s, r, l, {})
<1>1. /\ s \in Channel /\ QInv(s) /\ l \in Locals /\ Control(s, l)
      /\ s.commandsQueue = <<>> /\ s.state = "IDLE" /\ s.executing = {}
      /\ s.pio = NoTag /\ InError(s) = {} /\ Empty(s) /\ s.PortsWithErrors = {}
      /\ Used(s) = {} /\ Held(s) = {} /\ InEdma(s) = {} /\ Elems(s.commandsQueue) = {}
      /\ Len(s.commandsQueue) = 0
  BY NotReadyFacts
<1>2. PICK u : u = [s EXCEPT !.queuedDMA = mode]
  OBVIOUS
<1>3. u \in Channel
  BY <1>1, <1>2, ZenonT(60) DEF Channel
<1>4. PICK v : v = activateEdma(u)
  OBVIOUS
<1>5. v \in Channel /\ Activated(u, v)
  BY <1>3, <1>4, ActivateFields
<1>6. r = [v EXCEPT !.queueCommandsEnabled = TRUE, !.phase = "ready"]
  BY <1>2, <1>4, Zenon DEF Enabled
<1>7. [v EXCEPT !.queueCommandsEnabled = TRUE, !.phase = "ready"] \in Channel
  BY <1>5 DEF Channel
<1>8. r \in Channel
  BY <1>6, <1>7, Zenon
<1>9. SameQueue(s, u) /\ SameErrors(s, u) /\ SameRings(s, u) /\ u.executing = s.executing
      /\ u.pio = s.pio
  BY <1>1, <1>2 DEF Channel, SameQueue, SameList, SameErrors, SameRings
<1>10. /\ SameQueue(v, r) /\ SameErrors(v, r) /\ SameRings(v, r) /\ r.executing = v.executing
       /\ r.pio = v.pio /\ r.EdmaActive = v.EdmaActive /\ r.edmaEnabled = v.edmaEnabled
       /\ r.errorCause = v.errorCause /\ r.phase = "ready" /\ r.saDevMask = v.saDevMask
  BY <1>5, <1>6 DEF Channel, SameQueue, SameList, SameErrors, SameRings
<1>11. /\ SameQueue(s, r) /\ r.PortsWithErrors = s.PortsWithErrors /\ r.erring = s.erring
       /\ r.state = s.state /\ SameRings(s, r) /\ r.executing = s.executing
       /\ r.pio = s.pio /\ r.EdmaActive = TRUE /\ r.edmaEnabled = TRUE /\ r.saDevMask = FALSE
       /\ "devErr" \notin r.errorCause /\ "selfDisable" \notin r.errorCause
  BY <1>1, <1>5, <1>9, <1>10 DEF Activated, SameQueue, SameList, SameErrors, SameRings
<1>12. QInv(r) /\ Used(r) = Used(s) /\ InEdma(r) = InEdma(s) /\ Held(r) = Held(s)
  BY <1>1, <1>8, <1>11, SameQueueKeeps
<1>13. r.commandsQueue = s.commandsQueue /\ Empty(r) /\ InError(r) = {}
  BY <1>1, <1>11 DEF SameQueue, SameList, Empty, SameRings, InError
<1>14. Rings(r) /\ \A i \in Slots : ~Request(r, i) /\ ~Responded(r, i)
  BY <1>1, <1>8, <1>11, <1>13, RingsEmpty
<1>15. Inserted(r, l) /\ RingsLive(r, l)
  BY <1>1, <1>11, <1>13, <1>14 DEF Inserted, AllInserted, RingsLive
<1>16. FailingOK(r, l)
  BY <1>1, <1>12, <1>13, NothingFails
<1>17. Engine(r, l) /\ Reads(r, l) /\ Announced(r, l)
  BY <1>11, <1>13, <1>14 DEF Engine, Reads, Announced, Empty
<1>18. PioOK(r)
  BY <1>1, <1>11, <1>13, TagFacts DEF PioOK
<1>19. Recovery(r, l) /\ NotReady(r, l) /\ Heard(r, l) /\ Owner(r)
  BY <1>1, <1>10, <1>11, <1>13 DEF Recovery, NotReady, Heard, Sensing, Owner
<1>20. Inv(r, l)
  BY <1>1, <1>12, <1>15, <1>16, <1>17, <1>18, <1>19 DEF Inv, Control
<1>21. Served(s, r, {}) /\ KeepsRing(s, r)
  BY <1>1, <1>12 DEF Served, KeepsRing
<1>22. QED
  BY <1>20, <1>21 DEF Outcome

\* The channel before the IAL first configures it.
LEMMA InitKeeps ==
  ASSUME Init
  PROVE  Inv(ch, isr) /\ Held(ch) = {}
<1>1. PICK mode \in Modes : mode = CHOOSE m \in Modes : TRUE
  BY EdmaAssumption, Zenon
<1>2. PICK f, g, h, e, n, a, b :
        /\ f = FullStack(HostTags) /\ g = [p \in Ports |-> FullStack(DeviceTags)]
        /\ h = [t \in HostTags |-> FreeEntry] /\ e = [p \in Ports |-> NoTag]
        /\ n = [p \in Ports |-> 0] /\ a = NoRing(NoTag) /\ b = NoRing(NoResponse)
  OBVIOUS
<1>3. ch = [queueCommandsEnabled |-> FALSE, EdmaActive |-> FALSE, queuedDMA |-> mode,
            commandsQueue |-> <<>>, entry |-> h, HostTagsPool |-> f, DeviceTagsPool |-> g,
            outstandingCommands |-> 0, noneUdmaOutstandingCommands |-> 0,
            portQueuedCommands |-> n, state |-> "IDLE", PortsWithErrors |-> {}, CurrPort |-> 0,
            reqInPtr |-> 0, rspOutPtr |-> 0, requestQueue |-> a, responseQueue |-> b,
            reqOutPtr |-> 0, rspInPtr |-> 0, edmaEnabled |-> FALSE,
            errorCause |-> {}, responseDone |-> FALSE, saDevMask |-> FALSE,
            executing |-> {}, erring |-> e, pio |-> NoTag, phase |-> "restarted"]
  BY <1>1, <1>2, Zenon DEF Init
<1>4. f \in Seq(HostTags) /\ g \in [Ports -> Seq(DeviceTags)]
  <2>1. f \in Seq(HostTags) /\ FullStack(DeviceTags) \in Seq(DeviceTags)
    BY <1>2, EdmaAssumption, FullStackFacts
  <2>2. QED
    BY <1>2, <2>1
<1>5. h \in [HostTags -> Entry] /\ e \in [Ports -> DeviceTags \cup {NoTag}]
  BY <1>2 DEF Entry
<1>6. n \in [Ports -> Int]
  BY <1>2
<1>7. a \in [Slots -> Tags] /\ b \in [Slots -> Response]
  BY <1>2 DEF NoRing, NoResponse, Response, Tags
<1>8. 0 \in Slots /\ 0 \in Int /\ 0 \in Nat
  BY TagFacts DEF Slots
<1>9. <<>> \in Seq(Listable) /\ NoTag \in Tags \cup {ReadLog} /\ "IDLE" \in States
  BY DEF Tags, States
<1>10. ch \in Channel
  BY <1>3, <1>4, <1>5, <1>6, <1>7, <1>8, <1>9 DEF Channel
<1>11. /\ EmptyQueue(ch) /\ Stopped(ch)
       /\ ch.queueCommandsEnabled = FALSE /\ ch.state = "IDLE" /\ ch.PortsWithErrors = {}
       /\ ch.CurrPort = 0 /\ ch.pio = NoTag /\ ch.phase = "restarted" /\ ch.errorCause = {}
       /\ ch.erring = e
  BY <1>2, <1>3 DEF EmptyQueue, Stopped, Empty
<1>12. InError(ch) = {}
  BY <1>2, <1>11 DEF InError
<1>13. isr \in Locals /\ isr.pc = "idle"
  BY LocalsFacts DEF Init
<1>14. Inv(ch, isr) /\ Held(ch) = {} /\ ReadLog \notin Elems(ch.commandsQueue)
  <2>1. ASSUME NEW r, NEW m, r = ch, m = isr
        PROVE  Inv(r, m) /\ Held(r) = {} /\ ReadLog \notin Elems(r.commandsQueue)
    BY <1>10, <1>11, <1>12, <1>13, <2>1, ResetKeeps
  <2>2. QED
    BY <2>1
<1>15. QED
  BY <1>14

-----------------------------------------------------------------------------
(* The loop over the responses.                                            *)

\* A response is taken from the ring.
ReadOne(s, out) == [s EXCEPT !.rspOutPtr = Next1(out), !.responseQueue[out] = NoResponse]

\* What that changes.
Consumed(s, r) ==
  /\ SameQueue(s, r) /\ SameErrors(s, r) /\ SameMode(s, r) /\ SameEngine(s, r) /\ SameRequests(s, r)
  /\ r.rspOutPtr = Next1(s.rspOutPtr) /\ r.rspInPtr = s.rspInPtr
  /\ r.responseQueue = [s.responseQueue EXCEPT ![s.rspOutPtr] = NoResponse]

\* Nothing else changes.
LEMMA ConsumeFields ==
  ASSUME NEW s \in Channel, NEW r, r = ReadOne(s, s.rspOutPtr)
  PROVE  r \in Channel /\ Consumed(s, r)
<1>1. PICK a : a = s.rspOutPtr
  OBVIOUS
<1>2. a \in Slots /\ Next1(a) \in Slots
  BY <1>1, RingTypes, NextSlot
<1>3. PICK n, g : n = Next1(a) /\ g = [s.responseQueue EXCEPT ![a] = NoResponse]
  OBVIOUS
<1>4. g \in [Slots -> Response] /\ n \in Slots
  <2>1. NoResponse \in Response
    BY DEF NoResponse, Response, Tags
  <2>2. QED
    BY <1>2, <1>3, <2>1, RingTypes
<1>5. r = [s EXCEPT !.rspOutPtr = n, !.responseQueue = g]
  BY <1>1, <1>3 DEF ReadOne, Channel
<1>6. [s EXCEPT !.rspOutPtr = n, !.responseQueue = g] \in Channel
  BY <1>4 DEF Channel
<1>7. r \in Channel
  BY <1>5, <1>6, Zenon
<1>8. /\ SameQueue(s, r) /\ SameErrors(s, r) /\ SameMode(s, r) /\ SameEngine(s, r)
      /\ SameRequests(s, r) /\ r.rspOutPtr = n /\ r.rspInPtr = s.rspInPtr /\ r.responseQueue = g
  BY <1>5 DEF Channel, SameQueue, SameList, SameErrors, SameMode, SameEngine, SameRequests
<1>9. QED
  BY <1>1, <1>3, <1>7, <1>8 DEF Consumed

\* The routine's copies of the pointers after a response.
Advanced(l) == [l EXCEPT !.rspOutPtr = Next1(@)]

\* A response the routine has seen is in the ring, and so are the others.
LEMMA ReadsFacts ==
  ASSUME NEW s, NEW l, Inv(s, l), l.pc = "responses", l.rspOutPtr # l.rspInPtr,
         NEW r \in Channel, r.rspOutPtr = Next1(s.rspOutPtr), r.rspInPtr = s.rspInPtr
  PROVE  /\ l.rspOutPtr = s.rspOutPtr /\ s.rspOutPtr # s.rspInPtr
         /\ Responded(s, s.rspOutPtr) /\ s.phase = "ready"
         /\ Advanced(l) \in Locals /\ Advanced(l).pc = "responses"
         /\ Advanced(l).ret = l.ret /\ Reads(r, Advanced(l))
         /\ r.rspOutPtr = r.rspInPtr => Advanced(l).rspOutPtr = Advanced(l).rspInPtr
         /\ l.rspInPtr = s.rspInPtr => /\ Advanced(l).rspInPtr = r.rspInPtr
                                       /\ Advanced(l).rspOutPtr = r.rspOutPtr
<1>1. l \in Locals /\ s \in Channel /\ Reads(s, l) /\ NotReady(s, l)
  BY DEF Inv, QInv, Control
<1>2. /\ l.rspOutPtr = s.rspOutPtr
      /\ l.rspInPtr = s.rspInPtr \/ InRing(l.rspInPtr, s.rspOutPtr, s.rspInPtr)
  BY <1>1 DEF Reads
<1>3. /\ s.rspOutPtr \in Slots /\ s.rspInPtr \in Slots /\ l.rspInPtr \in Slots
      /\ Next1(s.rspOutPtr) \in Slots
  BY <1>1, RingTypes, NextSlot DEF Locals
<1>4. s.rspOutPtr # s.rspInPtr
  BY <1>2, <1>3, RingEmpty
<1>5. /\ Responded(s, s.rspOutPtr)
      /\ \A i \in Slots : InRing(i, r.rspOutPtr, r.rspInPtr) <=>
                          InRing(i, s.rspOutPtr, s.rspInPtr) /\ i # s.rspOutPtr
  BY <1>3, <1>4, RingShrinks DEF Responded
<1>6. s.phase = "ready"
  BY <1>1, <1>4 DEF NotReady, Empty
<1>7. PICK m : m = Advanced(l)
  OBVIOUS
<1>8. /\ m \in Locals /\ m.pc = "responses" /\ m.ret = l.ret
      /\ m.rspOutPtr = Next1(s.rspOutPtr) /\ m.rspInPtr = l.rspInPtr
  BY <1>1, <1>2, <1>3, <1>7 DEF Advanced, Locals
<1>9. m.rspOutPtr = r.rspOutPtr /\ (m.rspInPtr = r.rspInPtr \/ InRing(m.rspInPtr, r.rspOutPtr, r.rspInPtr))
  BY <1>2, <1>3, <1>5, <1>8
<1>10. Reads(r, m)
  BY <1>8, <1>9 DEF Reads
<1>11. r.rspOutPtr = r.rspInPtr => m.rspOutPtr = m.rspInPtr
  BY <1>3, <1>8, <1>9, RingEmpty
<1>12. QED
  BY <1>2, <1>4, <1>5, <1>6, <1>7, <1>8, <1>9, <1>10, <1>11

\* A channel that is disabled, with whatever is left in the rings.
LEMMA DeadKeeps ==
  ASSUME NEW r, NEW m \in Locals, QInv(r), ~r.queueCommandsEnabled, ~r.EdmaActive,
         ~r.edmaEnabled, r.executing = {}, r.pio = NoTag, ~Sensing(r), r.phase = "ready",
         ReadLog \notin Elems(r.commandsQueue), m.pc \notin {"insert", "ports"},
         Reads(r, m), Recovery(r, m), "selfDisable" \in r.errorCause => ~Native(r), Owner(r)
  PROVE  Inv(r, m)
<1>1. ~Live(r, m)
  BY DEF Live
<1>2. Inserted(r, m) /\ RingsLive(r, m) /\ FailingOK(r, m) /\ Heard(r, m)
  BY <1>1 DEF Inserted, RingsLive, FailingOK, Heard
<1>3. Engine(r, m) /\ Announced(r, m) /\ NotReady(r, m)
  BY DEF Engine, Announced, NotReady
<1>4. PioOK(r)
  BY TagFacts DEF PioOK
<1>5. QED
  BY <1>2, <1>3, <1>4 DEF Inv, Control

\* A channel whose rings mean nothing.
LEMMA DeadFacts ==
  ASSUME NEW s, NEW l, Inv(s, l), ~Live(s, l)
  PROVE  /\ ~s.queueCommandsEnabled /\ ~s.EdmaActive /\ ~s.edmaEnabled /\ s.executing = {}
         /\ s.pio = NoTag /\ ~Sensing(s) /\ ReadLog \notin Elems(s.commandsQueue)
<1>1. s \in Channel /\ Control(s, l)
  BY DEF Inv, QInv
<1>2. ~s.queueCommandsEnabled /\ ~s.EdmaActive /\ s.pio = NoTag /\ ~Sensing(s)
  BY DEF Live
<1>3. ~s.edmaEnabled /\ s.executing = {} /\ ReadLog \notin Elems(s.commandsQueue)
  BY <1>1, <1>2, TagFacts DEF Control, Engine, PioOK
<1>4. QED
  BY <1>2, <1>3

\* A response is read while the channel is disabled: its command, if it has
\* one, is called back and nothing else happens.
LEMMA DeadReadKeeps ==
  ASSUME NEW s, NEW l, Inv(s, l), ~Live(s, l), l.pc = "responses", l.rspOutPtr # l.rspInPtr,
         NEW c, c = ReadOne(s, s.rspOutPtr)
  PROVE  /\ Outcome(s, c, Advanced(l), {})
         /\ \A t \in Used(c) : Outcome(s, removeCommand(c, t), Advanced(l), {c.entry[t].cmd})
<1>1. s \in Channel /\ QInv(s) /\ Control(s, l) /\ l \in Locals
  BY DEF Inv, QInv
<1>2. /\ ~s.queueCommandsEnabled /\ ~s.EdmaActive /\ ~s.edmaEnabled /\ s.executing = {}
      /\ s.pio = NoTag /\ ~Sensing(s) /\ ReadLog \notin Elems(s.commandsQueue)
  BY DeadFacts
<1>3. c \in Channel /\ Consumed(s, c)
  BY <1>1, ConsumeFields
<1>4. /\ SameQueue(s, c) /\ SameErrors(s, c) /\ SameMode(s, c) /\ SameEngine(s, c)
      /\ c.rspOutPtr = Next1(s.rspOutPtr) /\ c.rspInPtr = s.rspInPtr
  BY <1>3 DEF Consumed
<1>5. QInv(c) /\ Used(c) = Used(s) /\ Held(c) = Held(s)
  BY <1>1, <1>3, <1>4, SameQueueKeeps
<1>6. PICK m : m = Advanced(l)
  OBVIOUS
<1>7. /\ s.phase = "ready" /\ m \in Locals /\ m.pc = "responses"
      /\ s.rspOutPtr # s.rspInPtr
  BY <1>3, <1>4, <1>6, ReadsFacts
<1>8. ASSUME NEW r, QInv(r), SameErrors(c, r), SameMode(c, r), SameEngine(c, r),
             r.rspOutPtr = c.rspOutPtr, r.rspInPtr = c.rspInPtr,
             ReadLog \notin Elems(r.commandsQueue)
      PROVE  Inv(r, m) /\ KeepsRing(s, r) /\ r.phase = s.phase
  <2>1. r \in Channel
    BY <1>8 DEF QInv
  <2>2. Reads(r, m)
    BY <1>4, <1>6, <1>8, <2>1, ReadsFacts
  <2>3. /\ ~r.queueCommandsEnabled /\ ~r.EdmaActive /\ ~r.edmaEnabled /\ r.executing = {}
        /\ r.pio = NoTag /\ ~Sensing(r) /\ r.phase = s.phase /\ r.errorCause = s.errorCause
        /\ r.state = s.state /\ r.PortsWithErrors = s.PortsWithErrors /\ r.erring = s.erring
        /\ r.CurrPort = s.CurrPort /\ r.queuedDMA = s.queuedDMA
    BY <1>2, <1>4, <1>8 DEF SameErrors, SameMode, SameEngine, Sensing
  <2>4. Recovery(r, m)
    BY <1>1, <1>7, <2>3 DEF Control, Recovery, Sensing, Native, InError
  <2>5. ("selfDisable" \in r.errorCause => ~Native(r)) /\ Owner(r)
    <3>1. ~s.saDevMask /\ r.saDevMask = s.saDevMask
      BY <1>1, <1>4, <1>7, <1>8 DEF Control, Owner, SameEngine, Empty
    <3>2. QED
      BY <1>1, <2>3, <3>1 DEF Control, Engine, Native, Owner
  <2>6. Inv(r, m)
    BY <1>7, <1>8, <2>2, <2>3, <2>4, <2>5, DeadKeeps
  <2>7. QED
    BY <1>2, <2>3, <2>6 DEF KeepsRing
<1>9. Outcome(s, c, m, {})
  <2>1. c.commandsQueue = s.commandsQueue
    BY <1>4 DEF SameQueue, SameList
  <2>2. SameErrors(c, c) /\ SameMode(c, c) /\ SameEngine(c, c)
    BY DEF SameErrors, SameMode, SameEngine
  <2>3. Inv(c, m) /\ KeepsRing(s, c) /\ c.phase = s.phase
    BY <1>2, <1>5, <1>8, <2>1, <2>2
  <2>4. QED
    BY <1>5, <2>3, ServedNone DEF Outcome
<1>10. ASSUME NEW t \in Used(c) PROVE Outcome(s, removeCommand(c, t), m, {c.entry[t].cmd})
  <2>1. PICK r : r = removeCommand(c, t)
    OBVIOUS
  <2>2. /\ QInv(r) /\ SameRest(c, r) /\ Held(r) = Held(c) \ {c.entry[t].cmd}
        /\ c.entry[t].cmd \in Held(c) /\ InEdma(r) = InEdma(c) \ {t}
        /\ r.commandsQueue = Without(c.commandsQueue, t)
        /\ \A u \in HostTags \ {t} : r.entry[u] = c.entry[u]
    BY <1>5, <2>1, RemoveKeeps
  <2>3. ReadLog \notin Elems(r.commandsQueue)
    <3>1. c.commandsQueue = s.commandsQueue
      BY <1>4 DEF SameQueue, SameList
    <3>2. QED
      BY <1>2, <1>5, <2>2, <3>1, RemovedList
  <2>4. /\ SameErrors(c, r) /\ SameMode(c, r) /\ SameEngine(c, r)
        /\ r.rspOutPtr = c.rspOutPtr /\ r.rspInPtr = c.rspInPtr
    BY <2>2 DEF SameRest, SameRings
  <2>5. Inv(r, m) /\ KeepsRing(s, r) /\ r.phase = s.phase
    BY <1>8, <2>2, <2>3, <2>4
  <2>6. Served(s, r, {c.entry[t].cmd})
    <3>1. PICK k : k = c.entry[t].cmd
      OBVIOUS
    <3>2. Served(s, r, {k})
      BY <1>1, <1>5, <2>2, <2>5, <3>1, ServedOne
    <3>3. QED
      BY <3>1, <3>2
  <2>7. QED
    BY <2>1, <2>5, <2>6 DEF Outcome
<1>11. QED
  BY <1>6, <1>9, <1>10

\* The routine reads a response and completes the command t it names: c is the
\* channel without the response, r without the command.
ReadsLive(s, l, c, t, r) ==
  /\ Inv(s, l) /\ Live(s, l) /\ l.pc = "responses" /\ l.rspOutPtr # l.rspInPtr
  /\ c = ReadOne(s, s.rspOutPtr) /\ t = s.responseQueue[s.rspOutPtr].id
  /\ r = removeCommand(c, t)

\* What that does: the command leaves the queue and is called back.
CompletesOne(s, l, c, t, r) ==
  /\ s.EdmaActive /\ t \in Used(c) /\ Outcome(s, r, Advanced(l), {c.entry[t].cmd})
  /\ r.queueCommandsEnabled = c.queueCommandsEnabled /\ r.EdmaActive = s.EdmaActive
  /\ r.phase = s.phase /\ Held(r) = Held(s) \ {c.entry[t].cmd} /\ c.entry[t].cmd \in Held(s)

\* A response is read while the rings mean something: the engine is active,
\* and the command of the response is in the EDMA and leaves the queue.
LEMMA LiveReadKeeps ==
  ASSUME NEW s, NEW l, NEW c, NEW t, NEW r, ReadsLive(s, l, c, t, r)
  PROVE  CompletesOne(s, l, c, t, r)
<1>0. /\ Inv(s, l) /\ Live(s, l) /\ l.pc = "responses" /\ l.rspOutPtr # l.rspInPtr
      /\ c = ReadOne(s, s.rspOutPtr) /\ t = s.responseQueue[s.rspOutPtr].id
      /\ r = removeCommand(c, t)
  BY DEF ReadsLive
<1>1. /\ s \in Channel /\ QInv(s) /\ Control(s, l) /\ l \in Locals /\ RingsLive(s, l)
      /\ Inserted(s, l)
  BY <1>0 DEF Inv, QInv
<1>2. c \in Channel /\ Consumed(s, c)
  BY <1>0, <1>1, ConsumeFields
<1>3. /\ SameQueue(s, c) /\ SameErrors(s, c) /\ SameMode(s, c) /\ SameEngine(s, c)
      /\ SameRequests(s, c) /\ c.rspOutPtr = Next1(s.rspOutPtr) /\ c.rspInPtr = s.rspInPtr
      /\ c.responseQueue = [s.responseQueue EXCEPT ![s.rspOutPtr] = NoResponse]
  BY <1>2 DEF Consumed
<1>4. /\ s.rspOutPtr # s.rspInPtr /\ Responded(s, s.rspOutPtr) /\ s.phase = "ready"
  BY <1>0, <1>2, <1>3, ReadsFacts
<1>5. s.EdmaActive
  BY <1>0, <1>1, <1>4 DEF RingsLive, Empty
<1>6. /\ Rings(s) /\ s.pio = NoTag /\ ~Sensing(s) /\ ReadLog \notin Elems(s.commandsQueue)
      /\ AbortsOK(s) /\ (Native(s) => FailsOK(s))
  BY <1>0, <1>5, EngineWorks
<1>7. QInv(c) /\ Used(c) = Used(s) /\ Held(c) = Held(s) /\ InEdma(c) = InEdma(s)
  BY <1>1, <1>2, <1>3, SameQueueKeeps
<1>8. t \in InEdma(s) /\ t \in Used(c)
  <2>1. s.rspOutPtr \in Slots
    BY <1>1, RingTypes
  <2>2. t \in InEdma(s)
    BY <1>0, <1>4, <1>6, <2>1 DEF Rings
  <2>3. QED
    BY <1>1, <1>7, <2>2, UsedFacts
<1>9. /\ QInv(r) /\ SameRest(c, r) /\ Held(r) = Held(c) \ {c.entry[t].cmd}
      /\ c.entry[t].cmd \in Held(c) /\ InEdma(r) = InEdma(c) \ {t}
      /\ r.commandsQueue = Without(c.commandsQueue, t)
      /\ \A u \in HostTags \ {t} : r.entry[u] = c.entry[u]
  <2>1. r = removeCommand(c, t)
    BY <1>0
  <2>2. QED
    BY <1>7, <1>8, <2>1, RemoveKeeps, SMTT(40)
<1>10. r \in Channel /\ c.commandsQueue = s.commandsQueue /\ c.entry = s.entry
  BY <1>3, <1>9 DEF QInv, SameQueue, SameList
<1>11. /\ r.state = s.state /\ r.PortsWithErrors = s.PortsWithErrors /\ r.erring = s.erring
       /\ r.CurrPort = s.CurrPort /\ r.queuedDMA = s.queuedDMA /\ r.pio = s.pio
       /\ r.phase = s.phase /\ r.queueCommandsEnabled = s.queueCommandsEnabled
       /\ r.EdmaActive = s.EdmaActive /\ r.edmaEnabled = s.edmaEnabled
       /\ r.executing = s.executing /\ r.errorCause = s.errorCause
       /\ r.responseDone = s.responseDone /\ r.saDevMask = s.saDevMask
       /\ r.queueCommandsEnabled = c.queueCommandsEnabled
  BY <1>3, <1>9, ZenonT(60) DEF SameRest, SameErrors, SameMode, SameEngine
<1>12. /\ SameRequests(s, r) /\ r.rspOutPtr = Next1(s.rspOutPtr) /\ r.rspInPtr = s.rspInPtr
       /\ r.responseQueue = [s.responseQueue EXCEPT ![s.rspOutPtr] = NoResponse]
  <2>1. SameRings(c, r)
    BY <1>9 DEF SameRest
  <2>2. QED
    BY <1>3, <2>1 DEF SameRings, SameRequests
<1>13. Rings(r) /\ StaysLoose(s, r)
  <2>1. InEdma(r) = InEdma(s) \ {t} /\ r.executing \subseteq s.executing
    BY <1>7, <1>9, <1>11
  <2>2. QED
    <3>1. t = s.responseQueue[s.rspOutPtr].id
      BY <1>0
    <3>2. QED
      BY <1>1, <1>4, <1>6, <1>10, <1>12, <2>1, <3>1, RingsRead
<1>14. /\ ReadLog \notin Elems(r.commandsQueue)
       /\ AllInserted(s) => AllInserted(r)
  <2>1. t \in Used(s) /\ InEdma(r) = InEdma(s) \ {t}
        /\ r.commandsQueue = Without(s.commandsQueue, t)
        /\ \A u \in HostTags \ {t} : r.entry[u] = s.entry[u]
    BY <1>7, <1>8, <1>9, <1>10
  <2>2. /\ ReadLog \in Elems(r.commandsQueue) <=> ReadLog \in Elems(s.commandsQueue)
        /\ AllInserted(s) /\ t \in InEdma(s) => AllInserted(r)
    <3>1. QInv(s) /\ QInv(r)
      BY <1>1, <1>9
    <3>2. QED
      BY <2>1, <3>1, RemovedList
  <2>3. QED
    BY <1>6, <1>8, <2>2
<1>15. Native(r) => FailsOK(r)
  <2>1. \A u \in HostTags : Loose(r, u) => r.entry[u] = s.entry[u]
    BY <1>9, <1>10 DEF Loose
  <2>2. InError(r) = InError(s) /\ (Native(r) <=> Native(s)) /\ r.erring = s.erring
    BY <1>11 DEF InError, Native
  <2>3. \A u \in HostTags : Loose(s, u) => Loose(r, u)
    BY <1>13 DEF StaysLoose
  <2>4. ASSUME NEW p \in InError(s), Failing(s, p) PROVE Failing(r, p)
    BY <2>1, <2>2, <2>3, <2>4 DEF Failing
  <2>5. QED
    BY <1>6, <2>2, <2>4 DEF FailsOK
<1>16. AbortsOK(r)
  <2>1. ASSUME NEW u \in InEdma(r) PROVE u \in InEdma(s) /\ r.entry[u] = s.entry[u]
    <3>1. u \in InEdma(s) /\ u # t
      BY <1>7, <1>9
    <3>2. u \in HostTags
      BY <1>1, <3>1, RingTypes
    <3>3. QED
      BY <1>9, <1>10, <3>1, <3>2
  <2>2. r.PortsWithErrors = s.PortsWithErrors
    BY <1>11
  <2>3. QED
    BY <1>6, <2>1, <2>2 DEF AbortsOK
<1>17. PICK m : m = Advanced(l)
  OBVIOUS
<1>18. /\ m \in Locals /\ m.pc = "responses" /\ Reads(r, m)
       /\ l.rspInPtr = s.rspInPtr => m.rspInPtr = r.rspInPtr /\ m.rspOutPtr = r.rspOutPtr
  <2>1. Inv(s, l) /\ l.pc = "responses" /\ l.rspOutPtr # l.rspInPtr
    BY <1>0
  <2>2. QED
    BY <1>10, <1>12, <1>17, <2>1, ReadsFacts
<1>19. Inserted(r, m)
  BY <1>0, <1>1, <1>11, <1>14 DEF Inserted
<1>20. RingsLive(r, m) /\ FailingOK(r, m)
  BY <1>5, <1>11, <1>13, <1>15, <1>16 DEF RingsLive, FailingOK
<1>21. Engine(r, m)
  <2>1. \A i \in Slots : Responded(r, i) => Responded(s, i) /\ r.responseQueue[i] = s.responseQueue[i]
    <3>1. \A i \in Slots : Responded(r, i) <=> Responded(s, i) /\ i # s.rspOutPtr
      BY <1>1, <1>4, <1>12, RingTypes, RingShrinks DEF Responded
    <3>2. QED
      BY <1>1, <1>12, <3>1, RingTypes
  <2>2. QED
    BY <1>1, <1>11, <1>18, <2>1 DEF Control, Engine, Native
<1>22. Announced(r, m)
  <2>1. Announced(s, l) /\ l.pc = "responses"
    BY <1>0, <1>1 DEF Control
  <2>2. QED
    BY <1>4, <1>11, <1>12, <1>18, <2>1 DEF Announced
<1>23. PioOK(r)
  BY <1>6, <1>11, <1>14, TagFacts DEF PioOK
<1>24. Recovery(r, m) /\ NotReady(r, m) /\ Heard(r, m) /\ Owner(r)
  <2>1. InError(r) = InError(s)
    BY <1>11 DEF InError
  <2>2. Recovery(s, l) /\ Heard(s, l) /\ Owner(s)
    BY <1>1 DEF Control
  <2>3. Recovery(r, m)
    BY <1>6, <1>11, <1>18, <2>1, <2>2 DEF Recovery, Sensing, Native
  <2>4. NotReady(r, m)
    BY <1>4, <1>11 DEF NotReady
  <2>5. Heard(r, m) /\ Owner(r)
    BY <1>5, <1>11, <2>2 DEF Heard, Owner
  <2>6. QED
    BY <2>3, <2>4, <2>5
<1>25. Inv(r, m)
  BY <1>9, <1>18, <1>19, <1>20, <1>21, <1>22, <1>23, <1>24 DEF Inv, Control
<1>26. PICK k : k = c.entry[t].cmd
  OBVIOUS
<1>27. k \in Held(s) /\ Held(r) = Held(s) \ {k}
  BY <1>7, <1>9, <1>26
<1>28. Served(s, r, {k}) /\ KeepsRing(s, r)
  BY <1>1, <1>6, <1>11, <1>27, ServedOne DEF KeepsRing
<1>29. Outcome(s, r, m, {k})
  BY <1>25, <1>28 DEF Outcome
<1>30. QED
  BY <1>5, <1>8, <1>11, <1>17, <1>26, <1>27, <1>29 DEF CompletesOne

=============================================================================
