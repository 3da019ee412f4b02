------------------------- MODULE SataRecoveryProofs -------------------------
(***************************************************************************)
(* The error paths of the core SATA driver's channel keep the invariant of *)
(* SataEdmaProofs, and with them every action of SataEdma does: the        *)
(* theorems about SataEdma.                                                *)
(***************************************************************************)
EXTENDS SataEdmaProofs

-----------------------------------------------------------------------------
(* The queue is disabled.                                                  *)

\* The driver disables the queue and takes the EDMA for stopped.
Off(s) == [s EXCEPT !.queueCommandsEnabled = FALSE, !.EdmaActive = FALSE]

\* What that leaves alone.
TurnedOff(s, r) ==
  /\ SameQueue(s, r) /\ SameErrors(s, r) /\ SameRings(s, r)
  /\ r.queueCommandsEnabled = FALSE /\ r.EdmaActive = FALSE
  /\ r.edmaEnabled = s.edmaEnabled /\ r.executing = s.executing
  /\ r.errorCause = s.errorCause /\ r.responseDone = s.responseDone
  /\ r.saDevMask = s.saDevMask /\ r.queuedDMA = s.queuedDMA
  /\ r.pio = s.pio /\ r.phase = s.phase

\* It changes the two fields.
LEMMA OffFields ==
  ASSUME NEW s \in Channel, NEW r, r = Off(s)
  PROVE  r \in Channel /\ TurnedOff(s, r)
<1>1. r = [s EXCEPT !.queueCommandsEnabled = FALSE, !.EdmaActive = FALSE]
  BY DEF Off
<1>2. r \in Channel
  BY <1>1, ZenonT(60) DEF Channel
<1>3. QED
  BY <1>1, <1>2 DEF Channel, TurnedOff, SameQueue, SameList, SameErrors, SameRings

\* A channel that is disabled outside of the states that stop the engine.
LEMMA OffKeeps ==
  ASSUME NEW s, NEW l, Inv(s, l), NEW r, NEW m \in Locals, QInv(r), SameErrors(s, r),
         r.queuedDMA = s.queuedDMA, r.phase = "ready", ~r.queueCommandsEnabled,
         ~r.EdmaActive, ~r.edmaEnabled, r.executing = {}, r.pio = NoTag, ~Sensing(s),
         ReadLog \notin Elems(r.commandsQueue), m.pc \notin {"insert", "ports"},
         Reads(r, m), "selfDisable" \in r.errorCause => ~Native(r), Owner(r)
  PROVE  Inv(r, m)
<1>1. Recovery(s, l)
  BY DEF Inv, Control
<1>2. /\ r.state = s.state /\ r.PortsWithErrors = s.PortsWithErrors /\ r.erring = s.erring
      /\ r.CurrPort = s.CurrPort
  BY DEF SameErrors
<1>3. ~Sensing(r) /\ InError(r) = InError(s) /\ (Native(r) <=> Native(s))
  BY <1>2 DEF Sensing, InError, Native
<1>4. Recovery(r, m)
  BY <1>1, <1>2, <1>3 DEF Recovery, Sensing
<1>5. QED
  BY <1>3, <1>4, DeadKeeps

\* A response whose flags disable the queue: the engine has stopped.
LEMMA BadReadKeeps ==
  ASSUME NEW s, NEW l, Inv(s, l), l.pc = "responses", l.rspOutPtr # l.rspInPtr, ~Native(s),
         s.responseQueue[s.rspOutPtr].err, NEW c, c = ReadOne(s, s.rspOutPtr),
         NEW o, o = Off(c)
  PROVE  /\ Outcome(s, o, Advanced(l), {}) /\ Used(o) = Used(c)
         /\ \A t \in Used(o) : Outcome(s, removeCommand(o, t), Advanced(l), {c.entry[t].cmd})
<1>1. s \in Channel /\ QInv(s) /\ Control(s, l) /\ l \in Locals /\ RingsLive(s, l)
  BY DEF Inv, QInv
<1>2. c \in Channel /\ Consumed(s, c)
  BY <1>1, ConsumeFields
<1>3. /\ SameQueue(s, c) /\ SameErrors(s, c) /\ SameMode(s, c) /\ SameEngine(s, c)
      /\ c.rspOutPtr = Next1(s.rspOutPtr) /\ c.rspInPtr = s.rspInPtr
  BY <1>2 DEF Consumed
<1>4. s.rspOutPtr # s.rspInPtr /\ Responded(s, s.rspOutPtr) /\ s.phase = "ready"
  BY <1>2, <1>3, ReadsFacts
<1>5. ~s.edmaEnabled /\ s.executing = {} /\ ~s.saDevMask
  <2>1. s.rspOutPtr \in Slots
    BY <1>1, RingTypes
  <2>2. ~s.saDevMask
    BY <1>1, <1>4 DEF Control, Owner, Empty
  <2>3. QED
    BY <1>1, <1>4, <2>1, <2>2 DEF Control, Engine
<1>6. s.state = "IDLE" /\ ~Sensing(s)
  BY <1>1 DEF Control, Recovery, Sensing
<1>7. s.pio = NoTag
  <2>1. s.pio # NoTag => Live(s, l) /\ ~s.EdmaActive
    BY <1>1 DEF Live, Control, PioOK
  <2>2. QED
    BY <1>1, <1>4, <2>1 DEF RingsLive, Empty
<1>8. ReadLog \notin Elems(s.commandsQueue)
  BY <1>1, <1>7, TagFacts DEF Control, PioOK
<1>9. o \in Channel /\ TurnedOff(c, o)
  BY <1>2, OffFields
<1>10. /\ SameQueue(s, o) /\ SameErrors(s, o)
       /\ o.rspOutPtr = Next1(s.rspOutPtr) /\ o.rspInPtr = s.rspInPtr
  BY <1>3, <1>9 DEF TurnedOff, SameQueue, SameList, SameErrors, SameRings
<1>11. /\ ~o.queueCommandsEnabled /\ ~o.EdmaActive /\ ~o.edmaEnabled /\ o.executing = {}
       /\ o.pio = NoTag /\ o.phase = "ready" /\ o.queuedDMA = s.queuedDMA /\ ~o.saDevMask
  BY <1>3, <1>4, <1>5, <1>7, <1>9 DEF TurnedOff, SameEngine, SameMode
<1>12. QInv(o) /\ Used(o) = Used(s) /\ Held(o) = Held(s)
  BY <1>1, <1>9, <1>10, SameQueueKeeps
<1>13. Used(o) = Used(c) /\ c.entry = o.entry
  <2>1. QInv(c) /\ Used(c) = Used(s)
    BY <1>1, <1>2, <1>3, SameQueueKeeps
  <2>2. QED
    BY <1>3, <1>10, <1>12, <2>1 DEF SameQueue
<1>14. PICK m : m = Advanced(l)
  OBVIOUS
<1>15. m \in Locals /\ m.pc = "responses"
  BY <1>2, <1>3, <1>14, ReadsFacts
<1>16. ASSUME NEW r, QInv(r), SameErrors(o, r), SameMode(o, r), SameEngine(o, r),
              r.rspOutPtr = o.rspOutPtr, r.rspInPtr = o.rspInPtr,
              ReadLog \notin Elems(r.commandsQueue)
       PROVE  Inv(r, m) /\ KeepsRing(s, r) /\ r.phase = s.phase
  <2>1. r \in Channel
    BY <1>16 DEF QInv
  <2>2. Reads(r, m)
    BY <1>10, <1>14, <1>16, <2>1, ReadsFacts
  <2>3. /\ ~r.queueCommandsEnabled /\ ~r.EdmaActive /\ ~r.edmaEnabled /\ r.executing = {}
        /\ r.pio = NoTag /\ r.phase = "ready" /\ r.queuedDMA = s.queuedDMA /\ ~r.saDevMask
    BY <1>11, <1>16 DEF SameMode, SameEngine
  <2>4. SameErrors(s, r)
    BY <1>10, <1>16 DEF SameErrors
  <2>5. "selfDisable" \in r.errorCause => ~Native(r)
    BY <2>3 DEF Native
  <2>6. Inv(r, m)
    <3>1. Owner(r)
      BY <2>3 DEF Owner
    <3>2. QED
      BY <1>6, <1>15, <1>16, <2>2, <2>3, <2>4, <2>5, <3>1, OffKeeps
  <2>7. QED
    BY <1>4, <1>8, <2>3, <2>6 DEF KeepsRing
<1>17. o.commandsQueue = s.commandsQueue
  BY <1>10 DEF SameQueue, SameList
<1>18. Outcome(s, o, m, {})
  <2>1. SameErrors(o, o) /\ SameMode(o, o) /\ SameEngine(o, o)
    BY DEF SameErrors, SameMode, SameEngine
  <2>2. Inv(o, m) /\ KeepsRing(s, o) /\ o.phase = s.phase
    BY <1>8, <1>12, <1>16, <1>17, <2>1
  <2>3. QED
    BY <1>12, <2>2, ServedNone DEF Outcome
<1>19. ASSUME NEW t \in Used(o) PROVE Outcome(s, removeCommand(o, t), m, {c.entry[t].cmd})
  <2>1. PICK r : r = removeCommand(o, t)
    OBVIOUS
  <2>2. /\ QInv(r) /\ SameRest(o, r) /\ Held(r) = Held(o) \ {o.entry[t].cmd}
        /\ o.entry[t].cmd \in Held(o) /\ InEdma(r) = InEdma(o) \ {t}
        /\ r.commandsQueue = Without(o.commandsQueue, t)
        /\ \A u \in HostTags \ {t} : r.entry[u] = o.entry[u]
    BY <1>12, <2>1, RemoveKeeps
  <2>3. ReadLog \notin Elems(r.commandsQueue)
    BY <1>8, <1>12, <1>17, <2>2, RemovedList
  <2>4. /\ SameErrors(o, r) /\ SameMode(o, r) /\ SameEngine(o, r)
        /\ r.rspOutPtr = o.rspOutPtr /\ r.rspInPtr = o.rspInPtr
    BY <2>2 DEF SameRest, SameRings
  <2>5. Inv(r, m) /\ KeepsRing(s, r) /\ r.phase = s.phase
    BY <1>16, <2>2, <2>3, <2>4
  <2>6. PICK k : k = c.entry[t].cmd
    OBVIOUS
  <2>7. Served(s, r, {k})
    BY <1>1, <1>12, <1>13, <2>2, <2>5, <2>6, ServedOne
  <2>8. QED
    BY <2>1, <2>5, <2>6, <2>7 DEF Outcome
<1>20. QED
  BY <1>13, <1>14, <1>18, <1>19

-----------------------------------------------------------------------------
(* enterRequestSenseState.                                                 *)

\* The engine is stopped and the device error is acknowledged; a drive that is
\* busy is waited for, otherwise the first port is asked.
Sense(s)  == [deactivateEdma(s) EXCEPT !.errorCause = @ \ {"devErr"}]
Busy(s)   == [Sense(s) EXCEPT !.state = "WAIT_FOR_BUSY"]
Asking(s) == [Sense(s) EXCEPT !.state = "REQUEST_SENSE", !.CurrPort = 0]

\* What both change.
Sensed(s, r) ==
  /\ SameQueue(s, r) /\ SameRings(s, r) /\ SameMode(s, r)
  /\ r.PortsWithErrors = s.PortsWithErrors /\ r.erring = s.erring
  /\ r.EdmaActive = FALSE /\ r.edmaEnabled = FALSE /\ r.executing = {}
  /\ r.saDevMask = TRUE /\ r.errorCause = s.errorCause \ {"devErr"}

\* They change the state of the recovery besides.
LEMMA SenseFields ==
  ASSUME NEW s \in Channel, NEW r
  PROVE  /\ r = Busy(s) => r \in Channel /\ Sensed(s, r) /\ r.state = "WAIT_FOR_BUSY"
         /\ r = Asking(s) => /\ r \in Channel /\ Sensed(s, r)
                             /\ r.state = "REQUEST_SENSE" /\ r.CurrPort = 0
<1>1. PICK d : d = deactivateEdma(s)
  OBVIOUS
<1>2. d \in Channel /\ Deactivated(s, d)
  BY <1>1, DeactivateFields
<1>3. PICK C : C = d.errorCause \ {"devErr"}
  OBVIOUS
<1>4. PICK v : v = [d EXCEPT !.errorCause = C]
  OBVIOUS
<1>5. v = Sense(s)
  BY <1>1, <1>3, <1>4 DEF Sense
<1>6. C \in SUBSET Causes
  BY <1>2, <1>3 DEF Channel
<1>7. v \in Channel
  BY <1>2, <1>4, <1>6, ZenonT(60) DEF Channel
<1>8. Sensed(s, v)
  <2>1. /\ SameQueue(d, v) /\ SameRings(d, v) /\ SameMode(d, v) /\ SameErrors(d, v)
        /\ v.EdmaActive = d.EdmaActive /\ v.edmaEnabled = d.edmaEnabled
        /\ v.executing = d.executing /\ v.saDevMask = d.saDevMask /\ v.errorCause = C
    BY <1>2, <1>4, <1>7 DEF Channel, SameQueue, SameList, SameRings, SameMode, SameErrors
  <2>2. QED
    BY <1>2, <1>3, <2>1 DEF Deactivated, Sensed, SameQueue, SameList, SameRings, SameMode, SameErrors
<1>9. ASSUME r = Busy(s)
      PROVE  r \in Channel /\ Sensed(s, r) /\ r.state = "WAIT_FOR_BUSY"
  <2>1. r = [v EXCEPT !.state = "WAIT_FOR_BUSY"]
    BY <1>5, <1>9, Zenon DEF Busy
  <2>2. "WAIT_FOR_BUSY" \in States
    BY DEF States
  <2>3. r \in Channel
    BY <1>7, <2>1, <2>2, ZenonT(60) DEF Channel
  <2>4. /\ SameQueue(v, r) /\ SameRings(v, r) /\ SameMode(v, r) /\ SameEngine(v, r)
        /\ r.PortsWithErrors = v.PortsWithErrors /\ r.erring = v.erring
        /\ r.state = "WAIT_FOR_BUSY"
    BY <1>7, <2>1, <2>3 DEF Channel, SameQueue, SameList, SameRings, SameMode, SameEngine
  <2>5. QED
    BY <1>8, <2>3, <2>4 DEF Sensed, SameQueue, SameList, SameRings, SameMode, SameEngine
<1>10. ASSUME r = Asking(s)
       PROVE  r \in Channel /\ Sensed(s, r) /\ r.state = "REQUEST_SENSE" /\ r.CurrPort = 0
  <2>1. r = [v EXCEPT !.state = "REQUEST_SENSE", !.CurrPort = 0]
    BY <1>5, <1>10, Zenon DEF Asking
  <2>2. "REQUEST_SENSE" \in States /\ 0 \in Nat
    BY DEF States
  <2>3. r \in Channel
    BY <1>7, <2>1, <2>2, ZenonT(60) DEF Channel
  <2>4. /\ SameQueue(v, r) /\ SameRings(v, r) /\ SameMode(v, r) /\ SameEngine(v, r)
        /\ r.PortsWithErrors = v.PortsWithErrors /\ r.erring = v.erring
        /\ r.state = "REQUEST_SENSE" /\ r.CurrPort = 0
    BY <1>7, <2>1, <2>3 DEF Channel, SameQueue, SameList, SameRings, SameMode, SameEngine
  <2>5. QED
    BY <1>8, <2>3, <2>4 DEF Sensed, SameQueue, SameList, SameRings, SameMode, SameEngine
<1>11. QED
  BY <1>9, <1>10

\* No good completion is expected any more: every command in the EDMA was
\* aborted at a port in error, the rings are empty, and the driver knows all the
\* ports in error.
LEMMA NoneExpected ==
  ASSUME NEW s, NEW l, Inv(s, l), s.EdmaActive, s.state = "WAIT_FOR_COMPLETIONS",
         ~isGoodCompletionsExpected(s)
  PROVE  Empty(s) /\ Native(s) /\ InError(s) = s.PortsWithErrors /\ s.PortsWithErrors # {}
<1>1. QInv(s) /\ Recovery(s, l)
  BY DEF Inv, Control
<1>2. Empty(s) /\ \A t \in LeadingInEdma(s) : s.entry[t].commandAborted
  BY DEF isGoodCompletionsExpected, Empty
<1>3. Native(s) /\ s.PortsWithErrors # {} /\ s.PortsWithErrors \subseteq InError(s)
  BY <1>1 DEF Recovery
<1>4. ReadLog \notin Elems(s.commandsQueue) /\ AbortsOK(s) /\ FailsOK(s)
  BY <1>3, EngineWorks
<1>5. LeadingInEdma(s) = InEdma(s)
  BY <1>1, <1>4, LeadingFacts
<1>6. ASSUME NEW p \in InError(s) PROVE p \in s.PortsWithErrors
  <2>1. PICK t \in HostTags : t \in InEdma(s) /\ s.entry[t].PMPort = p
    BY <1>4 DEF FailsOK, Failing, Loose
  <2>2. QED
    BY <1>2, <1>4, <1>5, <2>1 DEF AbortsOK
<1>7. QED
  BY <1>2, <1>3, <1>6

\* The request sense state is entered.
LEMMA SenseKeeps ==
  ASSUME NEW s, NEW l, Inv(s, l), s.EdmaActive, s.state = "WAIT_FOR_COMPLETIONS",
         ~isGoodCompletionsExpected(s), NEW m \in Locals, NEW r,
         m.pc = "responses" \/ m.ret = "responses" => m.rspOutPtr = m.rspInPtr,
         \/ r = Busy(s) /\ m.pc \notin {"insert", "ports"}
         \/ r = Asking(s) /\ m.pc = "ports"
  PROVE  /\ Inv(r, m) /\ Held(r) = Held(s) /\ r.phase = s.phase
         /\ ReadLog \notin Elems(r.commandsQueue) /\ ReadLog \notin Elems(s.commandsQueue)
<1>1. s \in Channel /\ QInv(s) /\ Control(s, l)
  BY DEF Inv, QInv
<1>2. Empty(s) /\ Native(s) /\ InError(s) = s.PortsWithErrors /\ s.PortsWithErrors # {}
  BY NoneExpected
<1>3. /\ Rings(s) /\ s.phase = "ready" /\ s.pio = NoTag
      /\ ReadLog \notin Elems(s.commandsQueue) /\ AbortsOK(s) /\ FailsOK(s)
  BY <1>2, EngineWorks
<1>4. /\ r \in Channel /\ Sensed(s, r)
      /\ \/ r.state = "WAIT_FOR_BUSY" /\ m.pc \notin {"insert", "ports"}
         \/ r.state = "REQUEST_SENSE" /\ r.CurrPort = 0 /\ m.pc = "ports"
  BY <1>1, SenseFields
<1>5. /\ SameQueue(s, r) /\ SameRings(s, r) /\ r.PortsWithErrors = s.PortsWithErrors
      /\ r.erring = s.erring /\ r.EdmaActive = FALSE /\ r.edmaEnabled = FALSE /\ r.executing = {}
      /\ r.saDevMask /\ r.errorCause \subseteq s.errorCause /\ r.phase = "ready"
      /\ r.pio = NoTag /\ r.queuedDMA = s.queuedDMA
  BY <1>3, <1>4 DEF Sensed, SameMode
<1>6. /\ QInv(r) /\ Held(r) = Held(s) /\ FailsOK(r) /\ AbortsOK(r) /\ Empty(r)
      /\ InError(r) = InError(s)
  BY <1>1, <1>2, <1>3, <1>4, <1>5, FrameKeeps
<1>7. r.commandsQueue = s.commandsQueue /\ Native(r)
  BY <1>2, <1>5 DEF SameQueue, SameList, Native
<1>8. Stopped(r) /\ FailingOK(r, m)
  BY <1>5, <1>6 DEF Stopped, FailingOK
<1>9. Inserted(r, m) /\ Reads(r, m) /\ Heard(r, m)
  BY <1>4, <1>5 DEF Inserted, Reads, Heard
<1>10. PioOK(r)
  BY <1>3, <1>5, <1>7, TagFacts DEF PioOK
<1>11. Recovery(r, m)
  <2>1. InError(r) = r.PortsWithErrors /\ r.PortsWithErrors # {}
    BY <1>2, <1>5, <1>6
  <2>2. r.CurrPort = 0 => {p \in r.PortsWithErrors : p >= r.CurrPort} = r.PortsWithErrors
    <3>1. r.PortsWithErrors \subseteq Ports
      BY <1>4 DEF Channel
    <3>2. Ports \subseteq Nat
      BY TagFacts
    <3>3. \A p \in r.PortsWithErrors : p \in Nat
      BY <3>1, <3>2
    <3>4. \A p \in Nat : p >= 0
      OBVIOUS
    <3>5. QED
      BY <3>3, <3>4
  <2>3. QED
    BY <1>4, <1>5, <1>7, <2>1, <2>2 DEF Recovery, Sensing
<1>12. "selfDisable" \in r.errorCause => ~Native(r)
  BY <1>1, <1>2, <1>5 DEF Control, Engine
<1>13. Inv(r, m)
  BY <1>4, <1>5, <1>6, <1>8, <1>9, <1>10, <1>11, <1>12, StoppedKeeps
<1>14. QED
  BY <1>3, <1>5, <1>6, <1>7, <1>13

\* Behind a PIO command at the head of the list nothing is in the EDMA.
LEMMA HeadPio ==
  ASSUME NEW s, QInv(s), HeadIsPIO(s), ReadLog \notin Elems(s.commandsQueue)
  PROVE  /\ InEdma(s) = {} /\ Head(s.commandsQueue) \in Used(s)
         /\ s.entry[Head(s.commandsQueue)].type = "NONE_UDMA"
<1>1. s \in Channel
  BY DEF QInv
<1>2. PICK q : q = s.commandsQueue
  OBVIOUS
<1>3. q \in Seq(Listable) /\ q # <<>> /\ IsPIO(s, Head(q))
  BY <1>1, <1>2 DEF HeadIsPIO, Channel
<1>4. /\ Len(q) \in Nat /\ Len(q) > 0 /\ Head(q) = q[1] /\ q[1] \in Elems(q)
      /\ q[1] \in Listable
  BY <1>3, ElemsAt
<1>5. q[1] # ReadLog /\ q[1] \in HostTags
  BY <1>2, <1>4 DEF Listable
<1>6. s.entry[q[1]].type = "NONE_UDMA"
  BY <1>3, <1>4, <1>5 DEF IsPIO
<1>7. q[1] \notin InEdma(s)
  BY <1>5, <1>6 DEF QInv, EntriesOK
<1>8. q[1] \in Used(s)
  BY <1>2, <1>4, <1>5 DEF QInv, QueueOK, ListOK
<1>9. ASSUME NEW t \in InEdma(s) PROVE FALSE
  <2>1. t \in Elems(q)
    <3>1. t \in Used(s)
      BY <1>1, UsedFacts
    <3>2. QED
      BY <1>2, <3>1 DEF QInv, QueueOK, ListOK
  <2>2. PICK j \in 1..Len(q) : q[j] = t
    BY <1>3, <2>1, ElemsAt
  <2>3. j # 1
    BY <1>7, <2>2
  <2>4. 1 < j /\ 1 \in 1..Len(q)
    BY <1>4, <2>2, <2>3
  <2>5. PrefixOK(s)
    BY DEF QInv
  <2>6. QED
    BY <1>2, <1>5, <1>7, <2>2, <2>4, <2>5 DEF PrefixOK
<1>10. QED
  BY <1>2, <1>4, <1>6, <1>8, <1>9

\* Nor is an error, when the engine is active.
LEMMA PioTurn ==
  ASSUME NEW s, NEW l, Inv(s, l), s.EdmaActive, HeadIsPIO(s)
  PROVE  /\ InEdma(s) = {} /\ Empty(s) /\ s.executing = {} /\ s.state = "IDLE"
         /\ Native(s) => InError(s) = {}
<1>1. s \in Channel /\ QInv(s) /\ Recovery(s, l)
  BY DEF Inv, QInv, Control
<1>2. /\ Rings(s) /\ ~Sensing(s) /\ ReadLog \notin Elems(s.commandsQueue)
      /\ (Native(s) => FailsOK(s))
  BY EngineWorks
<1>3. InEdma(s) = {}
  BY <1>1, <1>2, HeadPio
<1>4. Empty(s) /\ s.executing = {}
  BY <1>1, <1>2, <1>3, RingsOccupied DEF Rings
<1>5. Native(s) => InError(s) = {}
  BY <1>2, <1>3 DEF FailsOK, Failing, Loose
<1>6. s.state = "IDLE"
  BY <1>1, <1>2, <1>5 DEF Recovery, Sensing, Channel, States
<1>7. QED
  BY <1>3, <1>4, <1>5, <1>6

\* The EDMA is stopped for it.
LEMMA PioTurnKeeps ==
  ASSUME NEW s, NEW l, Inv(s, l), s.EdmaActive, HeadIsPIO(s), NEW m \in Locals,
         m.pc = "insert", m.ret = "responses" => m.rspOutPtr = m.rspInPtr,
         NEW r, r = deactivateEdma(s)
  PROVE  /\ Inv(r, m) /\ Held(r) = Held(s) /\ r.phase = s.phase
         /\ ReadLog \notin Elems(s.commandsQueue)
<1>1. s \in Channel /\ QInv(s) /\ Control(s, l)
  BY DEF Inv, QInv
<1>2. /\ InEdma(s) = {} /\ Empty(s) /\ s.executing = {} /\ s.state = "IDLE"
      /\ Native(s) => InError(s) = {}
  BY PioTurn
<1>3. s.phase = "ready" /\ s.pio = NoTag /\ ReadLog \notin Elems(s.commandsQueue)
  BY EngineWorks
<1>4. r \in Channel /\ Deactivated(s, r)
  BY <1>1, DeactivateFields
<1>5. /\ SameQueue(s, r) /\ SameRings(s, r) /\ r.EdmaActive = FALSE /\ r.edmaEnabled = FALSE
      /\ r.executing = {} /\ r.saDevMask /\ r.errorCause = s.errorCause
      /\ r.phase = s.phase /\ r.pio = s.pio /\ r.queuedDMA = s.queuedDMA
      /\ r.state = s.state /\ r.PortsWithErrors = s.PortsWithErrors /\ r.erring = s.erring
  BY <1>4 DEF Deactivated, SameMode, SameErrors
<1>6. QInv(r) /\ Held(r) = Held(s) /\ InEdma(r) = {}
  BY <1>1, <1>2, <1>4, <1>5, SameQueueKeeps
<1>7. /\ r.commandsQueue = s.commandsQueue /\ (Native(r) <=> Native(s)) /\ Stopped(r)
      /\ InError(r) = InError(s)
  BY <1>2, <1>5 DEF SameQueue, SameList, Native, Stopped, Empty, SameRings, InError
<1>8. FailingOK(r, m)
  BY <1>2, <1>6, <1>7, NothingFails
<1>9. Inserted(r, m) /\ Reads(r, m) /\ Heard(r, m)
  BY <1>5 DEF Inserted, Reads, Heard
<1>10. PioOK(r)
  BY <1>3, <1>5, <1>7, TagFacts DEF PioOK
<1>11. Recovery(r, m)
  BY <1>1, <1>2, <1>5, <1>7 DEF Control, Recovery, Sensing
<1>12. "selfDisable" \in r.errorCause => ~Native(r)
  BY <1>1, <1>5, <1>7 DEF Control, Engine
<1>13. Inv(r, m)
  BY <1>2, <1>3, <1>5, <1>6, <1>7, <1>8, <1>9, <1>10, <1>11, <1>12, StoppedKeeps
<1>14. QED
  BY <1>3, <1>5, <1>6, <1>13

\* The routine has seen every response when the ring is empty.
LEMMA ReadAll ==
  ASSUME NEW s, NEW l, Inv(s, l), l.pc = "responses", s.rspOutPtr = s.rspInPtr
  PROVE  l.rspOutPtr = l.rspInPtr
<1>1. s \in Channel /\ Reads(s, l) /\ l \in Locals
  BY DEF Inv, QInv, Control
<1>2. s.rspOutPtr \in Slots /\ l.rspInPtr \in Slots
  BY <1>1, RingTypes DEF Locals
<1>3. ~InRing(l.rspInPtr, s.rspOutPtr, s.rspInPtr)
  BY <1>2, RingEmpty
<1>4. QED
  BY <1>1, <1>3 DEF Reads

\* One turn of the loop over the responses, for a response that completes its
\* command: c the channel without the response, r without the command.
LEMMA GoodReadKeeps ==
  ASSUME NEW s, NEW l, Inv(s, l), l.pc = "responses", l.rspOutPtr # l.rspInPtr,
         NEW c, c = ReadOne(s, s.rspOutPtr), NEW t, t = s.responseQueue[s.rspOutPtr].id,
         NEW k, k = c.entry[t].cmd, NEW r, r = removeCommand(c, t), NEW a, a = Advanced(l)
  PROVE  /\ t \notin Used(c) => Outcome(s, c, a, {})
         /\ t \in Used(c) => Outcome(s, r, a, {k})
         /\ t \in Used(c) /\ r.queueCommandsEnabled /\ r.state = "WAIT_FOR_COMPLETIONS"
              /\ ~isGoodCompletionsExpected(r) =>
              /\ Outcome(s, Busy(r), [a EXCEPT !.pc = "responses"], {k})
              /\ Outcome(s, Asking(r), [a EXCEPT !.pc = "ports", !.ret = "responses"], {k})
         /\ t \in Used(c) /\ r.queueCommandsEnabled /\ HeadIsPIO(r) =>
              Outcome(s, deactivateEdma(r), [a EXCEPT !.pc = "insert", !.ret = "responses"], {k})
<1>1. s \in Channel /\ QInv(s)
  BY DEF Inv, QInv
<1>2. CASE ~Live(s, l)
  <2>1. /\ Outcome(s, c, a, {})
        /\ \A u \in Used(c) : Outcome(s, removeCommand(c, u), a, {c.entry[u].cmd})
    BY <1>2, DeadReadKeeps
  <2>2. c \in Channel /\ Consumed(s, c)
    BY <1>1, ConsumeFields
  <2>3. c.queueCommandsEnabled = s.queueCommandsEnabled /\ SameQueue(s, c)
    BY <2>2 DEF Consumed, SameMode
  <2>4. ~s.queueCommandsEnabled
    BY <1>2 DEF Live
  <2>5. QInv(c)
    BY <1>1, <2>2, <2>3, SameQueueKeeps
  <2>6. t \in Used(c) => SameRest(c, r)
    BY <2>5, RemoveKeeps
  <2>7. t \in Used(c) => ~r.queueCommandsEnabled
    BY <2>3, <2>4, <2>6 DEF SameRest, SameMode
  <2>8. t \in Used(c) => Outcome(s, r, a, {k})
    BY <2>1
  <2>9. QED
    BY <2>1, <2>7, <2>8
<1>3. CASE Live(s, l)
  <2>1. /\ s.EdmaActive /\ t \in Used(c) /\ Outcome(s, r, a, {k}) /\ r.EdmaActive
        /\ r.phase = s.phase /\ Held(r) = Held(s) \ {k} /\ k \in Held(s)
    <3>1. ReadsLive(s, l, c, t, r)
      BY <1>3 DEF ReadsLive
    <3>2. CompletesOne(s, l, c, t, r)
      BY <3>1, LiveReadKeeps
    <3>3. QED
      BY <3>2 DEF CompletesOne
  <2>2. Inv(r, a)
    BY <2>1 DEF Outcome
  <2>3. ReadLog \notin Elems(s.commandsQueue)
    BY <2>1, EngineWorks
  <2>4. a \in Locals /\ a.pc = "responses"
    <3>1. c \in Channel /\ Consumed(s, c)
      BY <1>1, ConsumeFields
    <3>2. QED
      BY <3>1, ReadsFacts DEF Consumed
  <2>5. ASSUME NEW x, NEW m, Inv(x, m), Held(x) = Held(r), x.phase = r.phase
        PROVE  Outcome(s, x, m, {k})
    <3>1. Served(s, x, {k})
      BY <1>1, <2>1, <2>5, ServedOne
    <3>2. QED
      BY <2>3, <2>5, <3>1 DEF Outcome, KeepsRing
  <2>6. ASSUME r.state = "WAIT_FOR_COMPLETIONS", ~isGoodCompletionsExpected(r)
        PROVE  /\ Outcome(s, Busy(r), [a EXCEPT !.pc = "responses"], {k})
               /\ Outcome(s, Asking(r), [a EXCEPT !.pc = "ports", !.ret = "responses"], {k})
    <3>1. a.rspOutPtr = a.rspInPtr
      <4>1. r.rspOutPtr = r.rspInPtr
        BY <2>6 DEF isGoodCompletionsExpected
      <4>2. QED
        BY <2>2, <2>4, <4>1, ReadAll
    <3>2. PICK b, n : /\ b = [a EXCEPT !.pc = "responses"]
                      /\ n = [a EXCEPT !.pc = "ports", !.ret = "responses"]
      OBVIOUS
    <3>3. /\ b \in Locals /\ b.pc = "responses" /\ b.rspOutPtr = b.rspInPtr
          /\ n \in Locals /\ n.pc = "ports" /\ n.rspOutPtr = n.rspInPtr
      BY <2>4, <3>1, <3>2 DEF Locals, Pcs
    <3>4. PICK x, y : x = Busy(r) /\ y = Asking(r)
      OBVIOUS
    <3>5. Inv(x, b) /\ Held(x) = Held(r) /\ x.phase = r.phase
      <4>1. x = Busy(r) /\ b.pc \notin {"insert", "ports"}
        BY <3>3, <3>4
      <4>2. b.pc = "responses" \/ b.ret = "responses" => b.rspOutPtr = b.rspInPtr
        BY <3>3
      <4>3. /\ Inv(r, a) /\ r.EdmaActive /\ r.state = "WAIT_FOR_COMPLETIONS"
            /\ ~isGoodCompletionsExpected(r) /\ b \in Locals
        BY <2>1, <2>2, <2>6, <3>3, Zenon
      <4>4. QED
        BY <4>1, <4>2, <4>3, SenseKeeps
    <3>6. Inv(y, n) /\ Held(y) = Held(r) /\ y.phase = r.phase
      <4>1. y = Asking(r) /\ n.pc = "ports"
        BY <3>3, <3>4
      <4>2. n.pc = "responses" \/ n.ret = "responses" => n.rspOutPtr = n.rspInPtr
        BY <3>3
      <4>3. /\ Inv(r, a) /\ r.EdmaActive /\ r.state = "WAIT_FOR_COMPLETIONS"
            /\ ~isGoodCompletionsExpected(r) /\ n \in Locals
        BY <2>1, <2>2, <2>6, <3>3, Zenon
      <4>4. QED
        BY <4>1, <4>2, <4>3, SenseKeeps
    <3>7. Outcome(s, x, b, {k}) /\ Outcome(s, y, n, {k})
      BY <2>5, <3>5, <3>6
    <3>8. QED
      BY <3>2, <3>4, <3>7
  <2>7. ASSUME HeadIsPIO(r)
        PROVE  Outcome(s, deactivateEdma(r), [a EXCEPT !.pc = "insert", !.ret = "responses"], {k})
    <3>1. a.rspOutPtr = a.rspInPtr
      <4>1. Empty(r)
        BY <2>1, <2>2, <2>7, PioTurn
      <4>2. QED
        BY <2>2, <2>4, <4>1, ReadAll DEF Empty
    <3>2. PICK n : n = [a EXCEPT !.pc = "insert", !.ret = "responses"]
      OBVIOUS
    <3>3. n \in Locals /\ n.pc = "insert" /\ n.rspOutPtr = n.rspInPtr
      BY <2>4, <3>1, <3>2 DEF Locals, Pcs
    <3>4. PICK x : x = deactivateEdma(r)
      OBVIOUS
    <3>5. Inv(x, n) /\ Held(x) = Held(r) /\ x.phase = r.phase
      <4>1. n.ret = "responses" => n.rspOutPtr = n.rspInPtr
        BY <3>3
      <4>2. Inv(r, a) /\ r.EdmaActive /\ HeadIsPIO(r) /\ n \in Locals
        BY <2>1, <2>2, <2>7, <3>3, Zenon
      <4>3. QED
        BY <3>3, <3>4, <4>1, <4>2, PioTurnKeeps, ZenonT(40)
    <3>6. Outcome(s, x, n, {k})
      BY <2>5, <3>5
    <3>7. QED
      BY <3>2, <3>4, <3>6
  <2>8. QED
    BY <2>1, <2>6, <2>7
<1>4. QED
  BY <1>2, <1>3

-----------------------------------------------------------------------------
(* handleEdmaError.                                                        *)

\* A connect event whose drive is gone again, after a disconnect.
Gone(s) ==
  [[s EXCEPT !.errorCause = {}] EXCEPT !.queueCommandsEnabled = FALSE, !.EdmaActive = FALSE,
                                       !.edmaEnabled = FALSE, !.executing = {}]

\* The channel is left disabled.
LEMMA GoneKeeps ==
  ASSUME NEW s, NEW l, NEW r, Inv(s, l), l.pc = "error", r = Gone(s)
  PROVE  Outcome(s, r, Idle, {})
<1>1. s \in Channel /\ QInv(s) /\ Control(s, l) /\ RingsLive(s, l) /\ FailingOK(s, l)
  BY DEF Inv, QInv
<1>2. PICK u : u = [s EXCEPT !.errorCause = {}]
  OBVIOUS
<1>3. u \in Channel
  BY <1>1, <1>2, ZenonT(60) DEF Channel
<1>4. /\ SameQueue(s, u) /\ SameErrors(s, u) /\ SameRings(s, u) /\ SameMode(s, u)
      /\ u.errorCause = {} /\ u.responseDone = s.responseDone /\ u.saDevMask = s.saDevMask
  BY <1>1, <1>2, <1>3 DEF Channel, SameQueue, SameList, SameErrors, SameRings, SameMode
<1>5. r = [u EXCEPT !.queueCommandsEnabled = FALSE, !.EdmaActive = FALSE,
                    !.edmaEnabled = FALSE, !.executing = {}]
  BY <1>2, Zenon DEF Gone
<1>6. r \in Channel
  BY <1>3, <1>5, ZenonT(60) DEF Channel
<1>7. /\ SameQueue(u, r) /\ SameErrors(u, r) /\ SameRings(u, r) /\ r.errorCause = u.errorCause
      /\ r.responseDone = u.responseDone /\ r.saDevMask = u.saDevMask
      /\ r.queuedDMA = u.queuedDMA /\ r.pio = u.pio /\ r.phase = u.phase
      /\ r.queueCommandsEnabled = FALSE /\ r.EdmaActive = FALSE
      /\ r.edmaEnabled = FALSE /\ r.executing = {}
  BY <1>3, <1>5, <1>6 DEF Channel, SameQueue, SameList, SameErrors, SameRings
<1>8. /\ SameQueue(s, r) /\ SameErrors(s, r) /\ SameRings(s, r)
      /\ r.queuedDMA = s.queuedDMA /\ r.pio = s.pio /\ r.phase = s.phase
      /\ r.saDevMask = s.saDevMask /\ r.errorCause = {} /\ r.commandsQueue = s.commandsQueue
      /\ r.responseDone = s.responseDone
      /\ r.state = s.state /\ r.PortsWithErrors = s.PortsWithErrors /\ r.erring = s.erring
      /\ r.CurrPort = s.CurrPort
  BY <1>4, <1>7 DEF SameQueue, SameList, SameErrors, SameRings, SameMode
<1>9. /\ QInv(r) /\ Held(r) = Held(s) /\ (Rings(s) => Rings(r))
      /\ (Rings(s) /\ FailsOK(s) => FailsOK(r)) /\ (AbortsOK(s) => AbortsOK(r))
      /\ (Empty(r) <=> Empty(s)) /\ InError(r) = InError(s)
  BY <1>1, <1>6, <1>7, <1>8, FrameKeeps DEF SameErrors
<1>10. Idle \in Locals /\ Idle.pc = "idle"
  BY LocalsFacts
<1>11. Reads(r, Idle)
  BY <1>10 DEF Reads
<1>12. Inv(r, Idle)
  <2>1. CASE s.EdmaActive
    <3>1. /\ s.phase = "ready" /\ s.pio = NoTag /\ ~Sensing(s)
          /\ ReadLog \notin Elems(s.commandsQueue)
      BY <2>1, EngineWorks
    <3>2. Owner(r)
      BY <1>1, <1>8, <2>1 DEF Control, Owner
    <3>3. QED
      BY <1>7, <1>8, <1>9, <1>10, <1>11, <3>1, <3>2, OffKeeps
  <2>2. CASE ~s.EdmaActive
    <3>1. (Native(r) <=> Native(s)) /\ (Sensing(r) <=> Sensing(s))
      BY <1>8 DEF Native, Sensing
    <3>2. Live(r, Idle) => Live(s, l)
      BY <1>7, <1>8, <1>10, <3>1 DEF Live
    <3>3. RingsLive(r, Idle) /\ FailingOK(r, Idle)
      BY <1>1, <1>9, <2>2, <3>1, <3>2 DEF RingsLive, FailingOK
    <3>4. Inserted(r, Idle) /\ Engine(r, Idle) /\ Announced(r, Idle)
      BY <1>7, <1>8 DEF Inserted, Engine, Announced
    <3>5. PioOK(r)
      BY <1>1, <1>7, <1>8 DEF Control, PioOK, SameQueue
    <3>6. Recovery(r, Idle)
      BY <1>1, <1>7, <1>8, <1>9, <1>10, <3>1 DEF Control, Recovery
    <3>7. NotReady(r, Idle)
      BY <1>1, <1>7, <1>8, <1>9, <1>10 DEF Control, NotReady
    <3>8. Heard(r, Idle)
      BY <1>1, <1>8, <2>2, <3>2 DEF Control, Heard
    <3>9. Owner(r)
      BY <1>1, <1>7, <1>8, <1>9, <3>1 DEF Control, Owner
    <3>10. QED
      BY <1>9, <1>10, <1>11, <3>3, <3>4, <3>5, <3>6, <3>7, <3>8, <3>9 DEF Inv, Control
  <2>3. QED
    BY <2>1, <2>2
<1>13. KeepsRing(s, r) /\ Served(s, r, {})
  BY <1>8, <1>9, ServedNone DEF KeepsRing, SameRings
<1>14. QED
  BY <1>12, <1>13 DEF Outcome

\* _doDevErrorRecovery before it inserts the list again.
Recovered(s) ==
  [resetEdmaQPointers(s) EXCEPT !.queueCommandsEnabled = TRUE, !.saDevMask = TRUE,
                                !.erring = [p \in Ports |-> NoTag]]

\* What it changes.
Restored(s, r) ==
  /\ SameQueue(s, r) /\ Empty(r) /\ InError(r) = {} /\ r.saDevMask = TRUE
  /\ r.state = s.state /\ r.PortsWithErrors = s.PortsWithErrors
  /\ r.EdmaActive = s.EdmaActive /\ r.edmaEnabled = s.edmaEnabled
  /\ r.executing = s.executing /\ r.errorCause = s.errorCause
  /\ r.queuedDMA = s.queuedDMA /\ r.pio = s.pio /\ r.phase = s.phase

\* The rings are empty and no drive is in error.
LEMMA RecoveredFields ==
  ASSUME NEW s \in Channel, NEW r, r = Recovered(s)
  PROVE  r \in Channel /\ Restored(s, r)
<1>1. PICK u : u = resetEdmaQPointers(s)
  OBVIOUS
<1>2. u \in Channel /\ Emptied(s, u)
  BY <1>1, ResetFields
<1>3. PICK f : f = [p \in Ports |-> NoTag]
  OBVIOUS
<1>4. f \in [Ports -> DeviceTags \cup {NoTag}]
  BY <1>3
<1>5. r = [u EXCEPT !.queueCommandsEnabled = TRUE, !.saDevMask = TRUE, !.erring = f]
  BY <1>1, <1>3, Zenon DEF Recovered
<1>6. r \in Channel
  BY <1>2, <1>4, <1>5, ZenonT(60) DEF Channel
<1>7. /\ SameQueue(u, r) /\ SameRings(u, r) /\ r.saDevMask = TRUE /\ r.erring = f
      /\ r.state = u.state /\ r.PortsWithErrors = u.PortsWithErrors
      /\ r.EdmaActive = u.EdmaActive /\ r.edmaEnabled = u.edmaEnabled
      /\ r.executing = u.executing /\ r.errorCause = u.errorCause
      /\ r.queuedDMA = u.queuedDMA /\ r.pio = u.pio /\ r.phase = u.phase
  BY <1>2, <1>5, <1>6 DEF Channel, SameQueue, SameList, SameRings
<1>8. InError(r) = {}
  BY <1>3, <1>7 DEF InError
<1>9. Empty(r)
  BY <1>2, <1>7 DEF Emptied, Empty, SameRings
<1>10. Restored(s, r)
  BY <1>2, <1>7, <1>8, <1>9
  DEF Restored, Emptied, SameQueue, SameList, SameErrors, SameEngine, SameMode
<1>11. QED
  BY <1>6, <1>10

\* The list is about to be inserted again, into empty rings; an interrupt of a
\* former life may bring a channel here that the IAL has restarted.
LEMMA RecoverKeeps ==
  ASSUME NEW u, QInv(u), u.EdmaActive = FALSE, u.edmaEnabled = FALSE, u.executing = {},
         u.state = "IDLE", u.PortsWithErrors = {}, PioOK(u), u.phase # "configured",
         u.phase # "ready" => u.commandsQueue = <<>> /\ u.pio = NoTag,
         "selfDisable" \in u.errorCause => ~Native(u), NEW m \in Locals, m.pc = "insert",
         m.ret = "responses" => m.rspOutPtr = m.rspInPtr, NEW r, r = Recovered(u)
  PROVE  /\ Inv(r, m) /\ Held(r) = Held(u) /\ r.phase = u.phase
         /\ r.commandsQueue = u.commandsQueue
<1>1. u \in Channel
  BY DEF QInv
<1>2. r \in Channel /\ Restored(u, r)
  BY <1>1, RecoveredFields
<1>3. /\ SameQueue(u, r) /\ Empty(r) /\ InError(r) = {} /\ r.saDevMask = TRUE
      /\ r.state = "IDLE" /\ r.PortsWithErrors = {} /\ ~r.EdmaActive /\ ~r.edmaEnabled
      /\ r.executing = {} /\ r.errorCause = u.errorCause /\ r.queuedDMA = u.queuedDMA
      /\ r.pio = u.pio /\ r.phase = u.phase
  BY <1>2 DEF Restored
<1>4. QInv(r) /\ Held(r) = Held(u) /\ r.commandsQueue = u.commandsQueue /\ r.entry = u.entry
  BY <1>2, <1>3, SameQueueKeeps DEF SameQueue, SameList
<1>5. Rings(r) /\ \A i \in Slots : ~Request(r, i) /\ ~Responded(r, i)
  BY <1>2, <1>3, RingsEmpty
<1>6. Inserted(r, m) /\ RingsLive(r, m) /\ FailingOK(r, m)
  BY <1>3, <1>5 DEF Inserted, RingsLive, FailingOK, FailsOK
<1>7. Engine(r, m) /\ Reads(r, m) /\ Announced(r, m) /\ Heard(r, m) /\ Owner(r)
  BY <1>3, <1>5 DEF Engine, Reads, Announced, Heard, Owner, Empty, Native
<1>8. PioOK(r)
  <2>1. /\ r.pio # NoTag => /\ ~r.EdmaActive /\ r.commandsQueue # <<>>
                            /\ r.pio = Head(r.commandsQueue)
        /\ ReadLog \in Elems(r.commandsQueue) <=> r.pio = ReadLog
    BY <1>3, <1>4 DEF PioOK
  <2>2. /\ r.pio \in HostTags => r.entry[r.pio].type = "NONE_UDMA" /\ r.state = "IDLE"
        /\ r.pio = ReadLog => r.state = "REQUEST_SENSE"
    BY <1>3, <1>4 DEF PioOK
  <2>3. QED
    BY <2>1, <2>2 DEF PioOK
<1>9. Recovery(r, m)
  BY <1>3 DEF Recovery, Sensing
<1>10. NotReady(r, m)
  BY <1>3, <1>4 DEF NotReady
<1>11. Inv(r, m)
  BY <1>4, <1>6, <1>7, <1>8, <1>9, <1>10 DEF Inv, Control
<1>12. QED
  BY <1>3, <1>4, <1>11

\* The error register is cleared.
Clear(s) == [s EXCEPT !.errorCause = {}]

\* Nothing else changes.
LEMMA ClearFields ==
  ASSUME NEW s \in Channel, NEW r, r = Clear(s)
  PROVE  /\ r \in Channel /\ SameQueue(s, r) /\ SameErrors(s, r) /\ SameRings(s, r)
         /\ SameMode(s, r) /\ r.EdmaActive = s.EdmaActive /\ r.edmaEnabled = s.edmaEnabled
         /\ r.executing = s.executing /\ r.errorCause = {}
         /\ r.responseDone = s.responseDone /\ r.saDevMask = s.saDevMask
<1>1. r \in Channel
  BY DEF Channel, Clear
<1>2. QED
  BY <1>1, ZenonT(60) DEF Channel, Clear, SameQueue, SameList, SameErrors, SameRings, SameMode

\* The command the drive names is one of the queue.
LEMMA FailedUsed ==
  ASSUME NEW s, QInv(s)
  PROVE  FailedCommand(s) \subseteq Used(s)
<1>1. LeadingInEdma(s) \subseteq Used(s)
  BY LeadingFacts, UsedFacts DEF QInv
<1>2. \A p, d : HostTagsByDeviceTag(s, d, p) \subseteq LeadingInEdma(s)
  BY DEF HostTagsByDeviceTag
<1>3. QED
  BY <1>1, <1>2 DEF FailedCommand

\* The engine has disabled itself: not in NATIVE_QUEUING mode, so no recovery is
\* under way.
LEMMA SelfDisabled ==
  ASSUME NEW s, NEW l, Inv(s, l), l.pc = "error", "selfDisable" \in s.errorCause
  PROVE  /\ ~Native(s) /\ s.state = "IDLE" /\ s.PortsWithErrors = {} /\ s.edmaEnabled = FALSE
         /\ s.executing = {} /\ ReadLog \notin Elems(s.commandsQueue) /\ s.phase # "configured"
         /\ s.phase # "ready" => s.commandsQueue = <<>> /\ s.pio = NoTag
<1>1. s \in Channel /\ Control(s, l)
  BY DEF Inv, QInv
<1>2. ~Native(s) /\ ~s.edmaEnabled /\ s.executing = {}
  BY <1>1 DEF Control, Engine
<1>3. s.edmaEnabled = FALSE
  BY <1>1, <1>2 DEF Channel
<1>4. s.state = "IDLE" /\ s.PortsWithErrors = {}
  BY <1>1, <1>2 DEF Control, Recovery
<1>5. ReadLog \notin Elems(s.commandsQueue)
  BY <1>1, <1>4 DEF Control, PioOK
<1>6. s.phase # "configured"
  BY <1>1 DEF Control, NotReady
<1>7. s.phase # "ready" => s.commandsQueue = <<>> /\ s.pio = NoTag
  BY <1>1 DEF Control, NotReady
<1>8. QED
  BY <1>2, <1>3, <1>4, <1>5, <1>6, <1>7

\* The engine was stopped in the meantime.
LEMMA SelfStoppedKeeps ==
  ASSUME NEW s, NEW l, Inv(s, l), l.pc = "error", "selfDisable" \in s.errorCause,
         ~s.EdmaActive, NEW u, u = Clear(s), NEW r, r = Recovered(u),
         NEW m, m = [l EXCEPT !.pc = "insert", !.ret = "idle"]
  PROVE  Outcome(s, r, m, {})
<1>1. s \in Channel /\ QInv(s) /\ l \in Locals /\ PioOK(s)
  BY DEF Inv, QInv, Control
<1>2. /\ ~Native(s) /\ s.state = "IDLE" /\ s.PortsWithErrors = {} /\ s.edmaEnabled = FALSE
      /\ s.executing = {} /\ ReadLog \notin Elems(s.commandsQueue) /\ s.phase # "configured"
      /\ s.phase # "ready" => s.commandsQueue = <<>> /\ s.pio = NoTag
  BY SelfDisabled
<1>3. /\ u \in Channel /\ SameQueue(s, u) /\ SameErrors(s, u) /\ SameMode(s, u)
      /\ u.EdmaActive = s.EdmaActive /\ u.edmaEnabled = s.edmaEnabled
      /\ u.executing = s.executing /\ u.errorCause = {}
  BY <1>1, ClearFields
<1>4. QInv(u) /\ Held(u) = Held(s)
  BY <1>1, <1>3, SameQueueKeeps
<1>5. /\ u.state = "IDLE" /\ u.PortsWithErrors = {} /\ u.pio = s.pio /\ u.phase = s.phase
      /\ u.commandsQueue = s.commandsQueue /\ u.entry = s.entry /\ u.executing = {}
  BY <1>2, <1>3 DEF SameErrors, SameMode, SameQueue, SameList
<1>6. u.EdmaActive = FALSE /\ u.edmaEnabled = FALSE
  BY <1>1, <1>2, <1>3 DEF Channel
<1>7. PioOK(u)
  BY <1>1, <1>2, <1>5, <1>6 DEF PioOK
<1>8. m \in Locals /\ m.pc = "insert" /\ m.ret = "idle"
  BY <1>1 DEF Locals, Pcs
<1>9. "selfDisable" \in u.errorCause => ~Native(u)
  BY <1>3
<1>10. u.phase # "configured" /\ (u.phase # "ready" => u.commandsQueue = <<>> /\ u.pio = NoTag)
  BY <1>2, <1>5
<1>11. m.ret = "responses" => m.rspOutPtr = m.rspInPtr
  BY <1>8
<1>12. Inv(r, m) /\ Held(r) = Held(u) /\ r.phase = u.phase
  BY <1>4, <1>5, <1>6, <1>7, <1>8, <1>9, <1>10, <1>11, RecoverKeeps, ZenonT(60)
<1>13. Served(s, r, {}) /\ KeepsRing(s, r)
  BY <1>2, <1>4, <1>5, <1>12, ServedNone DEF KeepsRing
<1>14. QED
  BY <1>12, <1>13 DEF Outcome

\* A channel the engine of which is off and taken for off, without PIO command:
\* it is recovered, or left disabled when the soft reset fails.
LEMMA OffRecovers ==
  ASSUME NEW s, NEW l, Inv(s, l), NEW x, QInv(x), SameErrors(s, x), s.state = "IDLE",
         "selfDisable" \in x.errorCause => ~Native(x), x.queuedDMA = s.queuedDMA,
         s.phase = "ready", x.phase = "ready",
         x.queueCommandsEnabled = FALSE, x.EdmaActive = FALSE,
         x.edmaEnabled = FALSE, x.executing = {}, x.pio = NoTag, Owner(x),
         ReadLog \notin Elems(x.commandsQueue), ReadLog \notin Elems(s.commandsQueue),
         NEW k, \/ k = {} /\ Held(x) = Held(s)
                \/ \E c \in Held(s) : k = {c} /\ Held(x) = Held(s) \ {c},
         NEW m \in Locals,
         m.pc = "responses" \/ m.ret = "responses" => m.rspOutPtr = m.rspInPtr,
         m.pc # "ports"
  PROVE  /\ m.pc = "insert" => Outcome(s, Recovered(x), m, k)
         /\ m.pc # "insert" => Outcome(s, x, m, k)
<1>1. s \in Channel /\ QInv(s) /\ Recovery(s, l)
  BY DEF Inv, QInv, Control
<1>2. s.PortsWithErrors = {} /\ ~Sensing(s)
  BY <1>1 DEF Recovery, Sensing
<1>3. x.state = "IDLE" /\ x.PortsWithErrors = {}
  BY <1>2 DEF SameErrors
<1>4. ASSUME NEW r, Inv(r, m), Held(r) = Held(x), r.phase = "ready"
      PROVE  Outcome(s, r, m, k)
  <2>1. Served(s, r, k)
    <3>1. CASE k = {} /\ Held(x) = Held(s)
      BY <1>4, <3>1, ServedNone
    <3>2. CASE \E c \in Held(s) : k = {c} /\ Held(x) = Held(s) \ {c}
      <4>1. PICK c \in Held(s) : k = {c} /\ Held(x) = Held(s) \ {c}
        BY <3>2
      <4>2. QED
        BY <1>1, <1>4, <4>1, ServedOne
    <3>3. QED
      BY <3>1, <3>2
  <2>2. QED
    BY <1>4, <2>1 DEF Outcome, KeepsRing
<1>5. ASSUME m.pc = "insert" PROVE Outcome(s, Recovered(x), m, k)
  <2>1. PICK r : r = Recovered(x)
    OBVIOUS
  <2>2. PioOK(x)
    BY <1>3, TagFacts DEF PioOK
  <2>3. Inv(r, m) /\ Held(r) = Held(x) /\ r.phase = x.phase
    BY <1>2, <1>3, <1>5, <2>1, <2>2, RecoverKeeps
  <2>4. QED
    BY <1>4, <2>1, <2>3
<1>6. ASSUME m.pc # "insert" PROVE Outcome(s, x, m, k)
  <2>1. Reads(x, m)
    BY <1>6 DEF Reads
  <2>2. Inv(x, m)
    BY <1>2, <1>6, <2>1, OffKeeps
  <2>3. QED
    BY <1>4, <2>2
<1>7. QED
  BY <1>5, <1>6

\* handleSelfDisable with the engine active: the failed command, if the drive
\* names one, is called back and the rest is inserted again.
LEMMA SelfActiveKeeps ==
  ASSUME NEW s, NEW l, Inv(s, l), l.pc = "error", "selfDisable" \in s.errorCause,
         s.EdmaActive, NEW o, o = Off(Clear(s)),
         NEW m, m = [l EXCEPT !.pc = "insert", !.ret = "idle"]
  PROVE  /\ Outcome(s, Recovered(o), m, {}) /\ Outcome(s, o, Idle, {})
         /\ \A t \in FailedCommand(o) :
              /\ Outcome(s, Recovered(removeCommand(o, t)), m, {o.entry[t].cmd})
              /\ Outcome(s, removeCommand(o, t), Idle, {o.entry[t].cmd})
<1>1. s \in Channel /\ QInv(s) /\ l \in Locals
  BY DEF Inv, QInv
<1>2. /\ ~Native(s) /\ s.state = "IDLE" /\ s.edmaEnabled = FALSE /\ s.executing = {}
      /\ ReadLog \notin Elems(s.commandsQueue)
  BY SelfDisabled
<1>3. s.phase = "ready" /\ s.pio = NoTag /\ ~s.saDevMask
  BY EngineWorks DEF Inv, Control, Owner
<1>4. PICK u : u = Clear(s)
  OBVIOUS
<1>5. /\ u \in Channel /\ SameQueue(s, u) /\ SameErrors(s, u) /\ SameMode(s, u)
      /\ u.edmaEnabled = s.edmaEnabled /\ u.executing = s.executing
      /\ u.saDevMask = s.saDevMask
  BY <1>1, <1>4, ClearFields
<1>6. o \in Channel /\ TurnedOff(u, o)
  BY <1>4, <1>5, OffFields
<1>7. /\ SameQueue(s, o) /\ SameErrors(s, o) /\ o.commandsQueue = s.commandsQueue
      /\ o.queuedDMA = s.queuedDMA /\ o.phase = "ready" /\ o.queueCommandsEnabled = FALSE
      /\ o.EdmaActive = FALSE /\ o.edmaEnabled = FALSE /\ o.executing = {} /\ o.pio = NoTag
      /\ ~Native(o) /\ ~o.saDevMask /\ Owner(o)
  BY <1>2, <1>3, <1>5, <1>6
  DEF TurnedOff, SameQueue, SameList, SameErrors, SameMode, Native, Owner
<1>8. QInv(o) /\ Held(o) = Held(s)
  BY <1>1, <1>6, <1>7, SameQueueKeeps
<1>9. m \in Locals /\ m.pc = "insert" /\ m.ret = "idle"
  BY <1>1 DEF Locals, Pcs
<1>10. Idle \in Locals /\ Idle.pc = "idle" /\ Idle.ret = "idle"
  BY LocalsFacts DEF Idle
<1>11. Outcome(s, Recovered(o), m, {}) /\ Outcome(s, o, Idle, {})
  <2>1. PICK k, n : k = {} /\ n = Idle
    OBVIOUS
  <2>2. Outcome(s, Recovered(o), m, k)
    BY <1>2, <1>3, <1>7, <1>8, <1>9, <2>1, OffRecovers
  <2>3. Outcome(s, o, n, k)
    BY <1>2, <1>3, <1>7, <1>8, <1>10, <2>1, OffRecovers
  <2>4. QED
    BY <2>1, <2>2, <2>3
<1>12. ASSUME NEW t \in FailedCommand(o)
       PROVE  /\ Outcome(s, Recovered(removeCommand(o, t)), m, {o.entry[t].cmd})
              /\ Outcome(s, removeCommand(o, t), Idle, {o.entry[t].cmd})
  <2>1. PICK x, c, k, n : x = removeCommand(o, t) /\ c = o.entry[t].cmd /\ k = {c} /\ n = Idle
    OBVIOUS
  <2>2. t \in Used(o)
    BY <1>8, FailedUsed
  <2>3. /\ QInv(x) /\ SameRest(o, x) /\ Held(x) = Held(o) \ {c} /\ c \in Held(o)
        /\ InEdma(x) = InEdma(o) \ {t} /\ x.commandsQueue = Without(o.commandsQueue, t)
        /\ \A v \in HostTags \ {t} : x.entry[v] = o.entry[v]
    BY <1>8, <2>1, <2>2, RemoveKeeps
  <2>4. ReadLog \notin Elems(x.commandsQueue)
    BY <1>2, <1>7, <1>8, <2>2, <2>3, RemovedList
  <2>5. /\ SameErrors(s, x) /\ x.queuedDMA = s.queuedDMA /\ x.phase = "ready"
        /\ x.queueCommandsEnabled = FALSE /\ x.EdmaActive = FALSE /\ x.edmaEnabled = FALSE
        /\ x.executing = {} /\ x.pio = NoTag /\ ~Native(x) /\ Owner(x)
    BY <1>7, <2>3 DEF SameRest, SameErrors, SameEngine, SameMode, Native, Owner
  <2>6. \E d \in Held(s) : k = {d} /\ Held(x) = Held(s) \ {d}
    BY <1>8, <2>1, <2>3
  <2>7. Outcome(s, Recovered(x), m, k)
    BY <1>2, <1>3, <1>9, <2>3, <2>4, <2>5, <2>6, OffRecovers
  <2>8. Outcome(s, x, n, k)
    BY <1>2, <1>3, <1>10, <2>1, <2>3, <2>4, <2>5, <2>6, OffRecovers, ZenonT(60)
  <2>9. QED
    BY <2>1, <2>7, <2>8
<1>13. QED
  BY <1>11, <1>12

\* setAbortedCommands: the commands in the EDMA of the ports in error.
AbortedEntries(s, bad) ==
  [t \in HostTags |-> IF t \in LeadingInEdma(s) /\ s.entry[t].PMPort \in bad
                      THEN [s.entry[t] EXCEPT !.commandAborted = TRUE]
                      ELSE s.entry[t]]

\* The mark is all that changes.
LEMMA AbortFields ==
  ASSUME NEW s, QInv(s), NEW bad, NEW f, f = AbortedEntries(s, bad)
  PROVE  /\ f \in [HostTags -> Entry]
         /\ \A t \in HostTags :
              /\ f[t] = FreeEntry <=> s.entry[t] = FreeEntry
              /\ f[t].cmd = s.entry[t].cmd /\ f[t].type = s.entry[t].type
              /\ f[t].PMPort = s.entry[t].PMPort /\ f[t].deviceTag = s.entry[t].deviceTag
              /\ f[t].isCommandInEdma = s.entry[t].isCommandInEdma
              /\ f[t].commandAborted => s.entry[t].commandAborted \/ s.entry[t].PMPort \in bad
<1>1. s \in Channel /\ LeadingInEdma(s) \subseteq Used(s)
  BY LeadingFacts, UsedFacts DEF QInv
<1>2. ASSUME NEW t \in HostTags
      PROVE  /\ f[t] \in Entry /\ (f[t] = FreeEntry <=> s.entry[t] = FreeEntry)
             /\ f[t].cmd = s.entry[t].cmd /\ f[t].type = s.entry[t].type
             /\ f[t].PMPort = s.entry[t].PMPort /\ f[t].deviceTag = s.entry[t].deviceTag
             /\ f[t].isCommandInEdma = s.entry[t].isCommandInEdma
             /\ f[t].commandAborted => s.entry[t].commandAborted \/ s.entry[t].PMPort \in bad
  <2>1. PICK e : e = s.entry[t]
    OBVIOUS
  <2>2. e \in Entry
    BY <1>1, <2>1 DEF Channel
  <2>3. CASE t \in LeadingInEdma(s) /\ e.PMPort \in bad
    <3>1. f[t] = [e EXCEPT !.commandAborted = TRUE]
      BY <2>1, <2>3 DEF AbortedEntries
    <3>2. e \in UsedEntry
      BY <1>1, <2>1, <2>3, UsedFacts
    <3>3. PICK g : g = [e EXCEPT !.commandAborted = TRUE]
      OBVIOUS
    <3>4. g \in UsedEntry
      BY <3>2, <3>3 DEF UsedEntry
    <3>5. /\ g.cmd = e.cmd /\ g.type = e.type /\ g.PMPort = e.PMPort
          /\ g.deviceTag = e.deviceTag /\ g.isCommandInEdma = e.isCommandInEdma
      BY <3>2, <3>3 DEF UsedEntry
    <3>6. g # FreeEntry /\ e # FreeEntry
      BY <3>2, <3>4, UsedIsNotFree
    <3>7. f[t] = g
      BY <3>1, <3>3
    <3>8. QED
      BY <2>1, <2>3, <3>4, <3>5, <3>6, <3>7 DEF Entry
  <2>4. CASE ~(t \in LeadingInEdma(s) /\ e.PMPort \in bad)
    <3>1. f[t] = e
      BY <2>1, <2>4 DEF AbortedEntries
    <3>2. QED
      BY <2>1, <2>2, <3>1
  <2>5. QED
    BY <2>3, <2>4
<1>3. f = [t \in HostTags |-> f[t]]
  BY DEF AbortedEntries
<1>4. f \in [HostTags -> Entry]
  BY <1>2, <1>3
<1>5. QED
  BY <1>2, <1>4

\* handleDevErr: the ports in error and the commands they aborted.
Noticed(s) ==
  [Clear(s) EXCEPT !.state = IF @ = "IDLE" THEN "WAIT_FOR_COMPLETIONS" ELSE @,
                   !.PortsWithErrors = s.PortsWithErrors \cup InError(s),
                   !.entry = AbortedEntries(s, s.PortsWithErrors \cup InError(s))]

\* The driver waits for the completions of the other ports.
LEMMA NoticedKeeps ==
  ASSUME NEW s, NEW l, Inv(s, l), l.pc = "error", s.EdmaActive, Native(s),
         "devErr" \in s.errorCause, NEW r, r = Noticed(s)
  PROVE  /\ Outcome(s, r, Idle, {}) /\ r.EdmaActive /\ r.state = "WAIT_FOR_COMPLETIONS"
         /\ r.phase = s.phase /\ Held(r) = Held(s)
<1>1. s \in Channel /\ QInv(s) /\ Control(s, l)
  BY DEF Inv, QInv
<1>2. /\ Rings(s) /\ s.phase = "ready" /\ s.pio = NoTag /\ ~Sensing(s)
      /\ ReadLog \notin Elems(s.commandsQueue) /\ AbortsOK(s) /\ FailsOK(s)
  BY EngineWorks
<1>3. PICK bad : bad = s.PortsWithErrors \cup InError(s)
  OBVIOUS
<1>4. bad = InError(s) /\ bad # {} /\ bad \subseteq Ports /\ s.PortsWithErrors \subseteq bad
  <2>1. s.state \in {"IDLE", "WAIT_FOR_COMPLETIONS"}
    BY <1>1, <1>2 DEF Channel, States, Sensing
  <2>2. s.PortsWithErrors \subseteq InError(s) /\ InError(s) # {}
    BY <1>1, <2>1 DEF Control, Recovery
  <2>3. QED
    BY <1>3, <2>2 DEF InError
<1>5. PICK f : f = AbortedEntries(s, bad)
  OBVIOUS
<1>6. /\ f \in [HostTags -> Entry]
      /\ \A t \in HostTags :
           /\ f[t] = FreeEntry <=> s.entry[t] = FreeEntry
           /\ f[t].cmd = s.entry[t].cmd /\ f[t].type = s.entry[t].type
           /\ f[t].PMPort = s.entry[t].PMPort /\ f[t].deviceTag = s.entry[t].deviceTag
           /\ f[t].isCommandInEdma = s.entry[t].isCommandInEdma
           /\ f[t].commandAborted => s.entry[t].commandAborted \/ s.entry[t].PMPort \in bad
  BY <1>1, <1>5, AbortFields
<1>7. PICK u : u = Clear(s)
  OBVIOUS
<1>8. /\ u \in Channel /\ SameQueue(s, u) /\ SameErrors(s, u) /\ SameRings(s, u)
      /\ SameMode(s, u) /\ u.EdmaActive = s.EdmaActive /\ u.edmaEnabled = s.edmaEnabled
      /\ u.executing = s.executing /\ u.errorCause = {} /\ u.responseDone = s.responseDone
      /\ u.saDevMask = s.saDevMask
  BY <1>1, <1>7, ClearFields
<1>9. r = [u EXCEPT !.state = "WAIT_FOR_COMPLETIONS", !.PortsWithErrors = bad, !.entry = f]
  <2>1. u.state \in {"IDLE", "WAIT_FOR_COMPLETIONS"}
    BY <1>2, <1>8 DEF Channel, States, Sensing, SameErrors
  <2>2. (IF u.state = "IDLE" THEN "WAIT_FOR_COMPLETIONS" ELSE u.state) = "WAIT_FOR_COMPLETIONS"
    BY <2>1
  <2>3. r = [u EXCEPT !.state = IF u.state = "IDLE" THEN "WAIT_FOR_COMPLETIONS" ELSE u.state,
                      !.PortsWithErrors = bad, !.entry = f]
    BY <1>3, <1>5, <1>7, Zenon DEF Noticed
  <2>4. QED
    BY <2>2, <2>3, Zenon
<1>10. r \in Channel
  <2>1. "WAIT_FOR_COMPLETIONS" \in States
    BY DEF States
  <2>2. u \in Channel /\ bad \in SUBSET Ports /\ f \in [HostTags -> Entry]
    BY <1>4, <1>6, <1>8
  <2>3. [u EXCEPT !.state = "WAIT_FOR_COMPLETIONS", !.PortsWithErrors = bad, !.entry = f]
          \in Channel
    BY <2>1, <2>2 DEF Channel
  <2>4. QED
    BY <1>9, <2>3, Zenon
<1>11. /\ SameList(u, r) /\ SameRings(u, r) /\ SameMode(u, r) /\ SameEngine(u, r)
       /\ r.entry = f /\ r.state = "WAIT_FOR_COMPLETIONS" /\ r.PortsWithErrors = bad
       /\ r.erring = u.erring
  <2>1. u \in Channel
    BY <1>8
  <2>2. QED
    BY <1>9, <1>10, <2>1 DEF Channel, SameList, SameRings, SameMode, SameEngine
<1>12. /\ SameList(s, r) /\ SameRings(s, r) /\ SameMode(s, r) /\ r.erring = s.erring
       /\ r.EdmaActive = s.EdmaActive /\ r.edmaEnabled = s.edmaEnabled
       /\ r.executing = s.executing /\ r.errorCause = {} /\ r.responseDone = s.responseDone
       /\ r.saDevMask = s.saDevMask
  BY <1>8, <1>11 DEF SameQueue, SameList, SameRings, SameMode, SameErrors, SameEngine
<1>13. SameCommands(s, r)
  BY <1>6, <1>11, <1>12 DEF SameCommands
<1>14. InEdma(r) = InEdma(s)
  <2>1. Used(r) = Used(s)
    BY <1>6, <1>11 DEF Used
  <2>2. \A t \in Used(s) : r.entry[t].isCommandInEdma = s.entry[t].isCommandInEdma
    BY <1>6, <1>11 DEF Used
  <2>3. QED
    BY <2>1, <2>2 DEF InEdma
<1>15. QInv(r) /\ Held(r) = Held(s)
  BY <1>1, <1>10, <1>13, <1>14, AbortKeeps
<1>16. Rings(r) /\ StaysLoose(s, r)
  BY <1>1, <1>2, <1>10, <1>12, <1>14, RingsCovered
<1>17. InError(r) = InError(s) /\ Native(r)
  BY <1>12 DEF InError, Native, SameMode
<1>18. FailsOK(r)
  <2>1. ASSUME NEW p \in InError(r) PROVE Failing(r, p)
    <3>1. PICK t \in HostTags : /\ Loose(s, t) /\ s.entry[t].PMPort = p
                                /\ s.entry[t].deviceTag = s.erring[p]
      BY <1>2, <1>17 DEF FailsOK, Failing
    <3>2. Loose(r, t)
      BY <1>16, <3>1 DEF StaysLoose
    <3>3. r.entry[t].PMPort = p /\ r.entry[t].deviceTag = r.erring[p]
      BY <1>6, <1>11, <1>12, <3>1
    <3>4. QED
      BY <3>2, <3>3 DEF Failing
  <2>2. QED
    BY <2>1 DEF FailsOK
<1>19. AbortsOK(r)
  <2>1. ASSUME NEW t \in InEdma(r), r.entry[t].commandAborted
        PROVE  r.entry[t].PMPort \in r.PortsWithErrors
    <3>1. t \in InEdma(s) /\ t \in HostTags
      BY <1>1, <1>14, RingTypes
    <3>2. s.entry[t].commandAborted \/ s.entry[t].PMPort \in bad
      BY <1>6, <1>11, <2>1, <3>1
    <3>3. s.entry[t].PMPort \in bad
      BY <1>2, <1>4, <3>1, <3>2 DEF AbortsOK
    <3>4. QED
      BY <1>6, <1>11, <3>1, <3>3
  <2>2. QED
    BY <2>1 DEF AbortsOK
<1>20. Idle \in Locals /\ Idle.pc = "idle"
  BY LocalsFacts
<1>21. Inserted(r, Idle) /\ RingsLive(r, Idle) /\ FailingOK(r, Idle)
  BY <1>11, <1>12, <1>16, <1>18, <1>19 DEF Inserted, RingsLive, FailingOK
<1>22. Engine(r, Idle) /\ Reads(r, Idle)
  <2>1. \A i \in Slots : Responded(r, i) <=> Responded(s, i)
    BY <1>12 DEF SameRings, Responded
  <2>2. r.responseQueue = s.responseQueue
    BY <1>12 DEF SameRings
  <2>3. QED
    BY <1>1, <1>12, <1>20, <2>1, <2>2 DEF Control, Engine, Reads
<1>23. Announced(r, Idle)
  BY <1>1, <1>12 DEF Control, Announced, SameRings, SameMode
<1>24. PioOK(r)
  BY <1>2, <1>12, TagFacts DEF PioOK, SameMode, SameList
<1>25. Recovery(r, Idle)
  BY <1>4, <1>11, <1>12, <1>17, <1>20 DEF Recovery, Sensing
<1>26. NotReady(r, Idle) /\ Heard(r, Idle) /\ Owner(r) /\ r.phase = s.phase
  BY <1>1, <1>2, <1>12 DEF Control, NotReady, Heard, Owner, SameMode
<1>27. Inv(r, Idle)
  BY <1>15, <1>20, <1>21, <1>22, <1>23, <1>24, <1>25, <1>26 DEF Inv, Control
<1>28. Served(s, r, {}) /\ KeepsRing(s, r)
  BY <1>2, <1>15, <1>26, ServedNone DEF KeepsRing
<1>29. QED
  BY <1>11, <1>12, <1>15, <1>26, <1>27, <1>28 DEF Outcome

\* No other completion is expected: the request sense state is entered.
LEMMA NoticedSenses ==
  ASSUME NEW s, NEW l, Inv(s, l), l.pc = "error", s.EdmaActive, Native(s),
         "devErr" \in s.errorCause, NEW v, v = Noticed(s), ~isGoodCompletionsExpected(v),
         NEW m, m = [l EXCEPT !.pc = "ports", !.ret = "idle"]
  PROVE  Outcome(s, Busy(v), Idle, {}) /\ Outcome(s, Asking(v), m, {})
<1>1. /\ Inv(v, Idle) /\ v.EdmaActive /\ v.state = "WAIT_FOR_COMPLETIONS" /\ v.phase = s.phase
      /\ Held(v) = Held(s)
  BY NoticedKeeps DEF Outcome
<1>2. ReadLog \notin Elems(s.commandsQueue)
  BY EngineWorks
<1>3. m \in Locals /\ m.pc = "ports" /\ m.ret = "idle"
  BY DEF Inv, Locals, Pcs
<1>4. PICK n, x, y : n = Idle /\ x = Busy(v) /\ y = Asking(v)
  OBVIOUS
<1>5. n \in Locals /\ n.pc = "idle" /\ n.ret = "idle"
  BY <1>4, LocalsFacts DEF Idle
<1>6. Inv(x, n) /\ Held(x) = Held(v) /\ x.phase = v.phase
  <2>1. x = Busy(v) /\ n.pc \notin {"insert", "ports"}
    BY <1>4, <1>5
  <2>2. n.pc = "responses" \/ n.ret = "responses" => n.rspOutPtr = n.rspInPtr
    BY <1>5
  <2>3. QED
    BY <1>1, <1>5, <2>1, <2>2, SenseKeeps
<1>7. Inv(y, m) /\ Held(y) = Held(v) /\ y.phase = v.phase
  <2>1. y = Asking(v) /\ m.pc = "ports"
    BY <1>3, <1>4
  <2>2. m.pc = "responses" \/ m.ret = "responses" => m.rspOutPtr = m.rspInPtr
    BY <1>3
  <2>3. QED
    BY <1>1, <1>3, <2>1, <2>2, SenseKeeps
<1>8. Served(s, x, {}) /\ Served(s, y, {})
  BY <1>1, <1>6, <1>7, ServedNone
<1>9. Outcome(s, x, n, {}) /\ Outcome(s, y, m, {})
  BY <1>2, <1>6, <1>7, <1>8 DEF Outcome, KeepsRing
<1>10. QED
  BY <1>4, <1>9

-----------------------------------------------------------------------------
(* _insertQCommandsIntoEdma.                                               *)

\* The locals when a callee returns.
Returned(l) == IF l.ret = "idle" THEN Idle ELSE [l EXCEPT !.pc = l.ret]

\* They have seen every response.
LEMMA ReturnFacts ==
  ASSUME NEW s, NEW l, Inv(s, l), l.pc \in {"insert", "ports"}, NEW m, m = Returned(l)
  PROVE  /\ m \in Locals /\ m.pc \in {"idle", "responses"}
         /\ m.pc = "responses" \/ m.ret = "responses" => m.rspOutPtr = m.rspInPtr
<1>1. l \in Locals /\ Reads(s, l)
  BY DEF Inv, Control
<1>2. CASE l.ret = "idle"
  <2>1. m = Idle
    BY <1>2 DEF Returned
  <2>2. QED
    BY <2>1, LocalsFacts DEF Idle
<1>3. CASE l.ret # "idle"
  <2>1. m = [l EXCEPT !.pc = l.ret] /\ l.ret = "responses"
    BY <1>1, <1>3 DEF Returned, Locals
  <2>2. m \in Locals /\ m.pc = "responses" /\ m.rspOutPtr = l.rspOutPtr /\ m.rspInPtr = l.rspInPtr
    BY <1>1, <2>1 DEF Locals, Pcs
  <2>3. QED
    BY <1>1, <2>1, <2>2 DEF Reads
<1>4. QED
  BY <1>2, <1>3

\* A channel about to insert its list: the engine is stopped, no recovery is
\* under way and no drive in error.
LEMMA InsertFacts ==
  ASSUME NEW s, NEW l, Inv(s, l), l.pc = "insert"
  PROVE  /\ s \in Channel /\ QInv(s) /\ Stopped(s) /\ s.state = "IDLE"
         /\ s.PortsWithErrors = {} /\ (Native(s) => InError(s) = {})
         /\ ReadLog \notin Elems(s.commandsQueue) /\ s.phase # "configured"
         /\ s.commandsQueue # <<>> => s.phase = "ready"
         /\ "spurious" \notin Faults => s.saDevMask
         /\ "selfDisable" \in s.errorCause => ~Native(s)
<1>1. s \in Channel /\ QInv(s) /\ Control(s, l) /\ RingsLive(s, l)
  BY DEF Inv, QInv
<1>2. Live(s, l) /\ ~s.EdmaActive
  BY <1>1 DEF Live, Control, Engine
<1>3. Empty(s) /\ ~s.edmaEnabled /\ s.executing = {}
  BY <1>1, <1>2 DEF RingsLive, Control, Engine
<1>4. Stopped(s)
  BY <1>1, <1>2, <1>3 DEF Stopped, Channel
<1>5. s.state = "IDLE" /\ s.PortsWithErrors = {} /\ (Native(s) => InError(s) = {})
  BY <1>1 DEF Control, Recovery
<1>6. ReadLog \notin Elems(s.commandsQueue)
  BY <1>1, <1>5 DEF Control, PioOK
<1>7. s.phase # "configured" /\ (s.commandsQueue # <<>> => s.phase = "ready")
  BY <1>1 DEF Control, NotReady
<1>8. "spurious" \notin Faults => s.saDevMask
  BY <1>1, <1>2 DEF Control, Heard
<1>9. "selfDisable" \in s.errorCause => ~Native(s)
  BY <1>1 DEF Control, Engine
<1>10. QED
  BY <1>1, <1>4, <1>5, <1>6, <1>7, <1>8, <1>9

\* The list is empty.
LEMMA InsertNoneKeeps ==
  ASSUME NEW s, NEW l, Inv(s, l), l.pc = "insert", s.commandsQueue = <<>>,
         NEW m, m = Returned(l)
  PROVE  Outcome(s, s, m, {})
<1>1. /\ s \in Channel /\ QInv(s) /\ Stopped(s) /\ s.state = "IDLE"
      /\ (Native(s) => InError(s) = {}) /\ s.phase # "configured"
      /\ ReadLog \notin Elems(s.commandsQueue)
  BY InsertFacts
<1>2. /\ m \in Locals /\ m.pc \in {"idle", "responses"}
      /\ m.pc = "responses" \/ m.ret = "responses" => m.rspOutPtr = m.rspInPtr
  BY ReturnFacts
<1>3. Control(s, l) /\ RingsLive(s, l) /\ Live(s, l) /\ ~s.EdmaActive
  BY DEF Inv, Live, Control, Engine
<1>4. InEdma(s) = {} /\ Len(s.commandsQueue) = 0
  <2>1. Used(s) = {}
    BY <1>1, HeldFacts
  <2>2. QED
    BY <1>1, <2>1, UsedFacts
<1>5. Inserted(s, m) /\ RingsLive(s, m) /\ FailingOK(s, m)
  <2>1. FailingOK(s, m)
    BY <1>1, <1>4, NothingFails
  <2>2. Inserted(s, m)
    BY <1>4 DEF Inserted, AllInserted
  <2>3. RingsLive(s, m)
    BY <1>3 DEF RingsLive
  <2>4. QED
    BY <2>1, <2>2, <2>3
<1>6. Engine(s, m) /\ Reads(s, m) /\ PioOK(s)
  BY <1>2, <1>3 DEF Control, Engine, Reads
<1>7. Announced(s, m)
  BY <1>1 DEF Announced, Stopped, Empty
<1>8. Recovery(s, m)
  BY <1>1, <1>2, <1>3 DEF Control, Recovery, Sensing
<1>9. NotReady(s, m)
  BY <1>1, <1>3 DEF Control, NotReady
<1>10. Heard(s, m) /\ Owner(s)
  BY <1>3 DEF Control, Heard
<1>11. Inv(s, m)
  BY <1>1, <1>2, <1>5, <1>6, <1>7, <1>8, <1>9, <1>10 DEF Inv, Control
<1>12. QED
  BY <1>1, <1>11, ServedNone DEF Outcome, KeepsRing

\* A PIO command is sent.
LEMMA InsertPioKeeps ==
  ASSUME NEW s, NEW l, Inv(s, l), l.pc = "insert", HeadIsPIO(s),
         NEW t, t = Head(s.commandsQueue), NEW r, r = [s EXCEPT !.pio = t],
         NEW m, m = Returned(l)
  PROVE  Outcome(s, r, m, {})
<1>1. /\ s \in Channel /\ QInv(s) /\ Stopped(s) /\ s.state = "IDLE" /\ s.PortsWithErrors = {}
      /\ (Native(s) => InError(s) = {}) /\ ReadLog \notin Elems(s.commandsQueue)
      /\ s.commandsQueue # <<>> => s.phase = "ready"
      /\ "spurious" \notin Faults => s.saDevMask
      /\ "selfDisable" \in s.errorCause => ~Native(s)
  BY InsertFacts
<1>2. /\ m \in Locals /\ m.pc \in {"idle", "responses"}
      /\ m.pc = "responses" \/ m.ret = "responses" => m.rspOutPtr = m.rspInPtr
  BY ReturnFacts
<1>3. s.commandsQueue # <<>> /\ s.phase = "ready" /\ IsPIO(s, t)
  BY <1>1 DEF HeadIsPIO
<1>4. InEdma(s) = {} /\ t \in Used(s) /\ s.entry[t].type = "NONE_UDMA"
  BY <1>1, HeadPio
<1>5. t \in HostTags /\ t # ReadLog
  BY <1>4, TagFacts DEF Used
<1>6. r \in Channel /\ Runs(s, r, t)
  BY <1>1, <1>5, PioFields DEF Tags
<1>7. /\ SameQueue(s, r) /\ SameErrors(s, r) /\ SameRings(s, r) /\ SameEngine(s, r)
      /\ r.pio = t /\ r.phase = "ready" /\ r.queuedDMA = s.queuedDMA
      /\ r.commandsQueue = s.commandsQueue /\ r.entry = s.entry /\ r.state = "IDLE"
      /\ r.PortsWithErrors = {} /\ r.erring = s.erring
  BY <1>1, <1>3, <1>6 DEF Runs, SameQueue, SameList, SameErrors
<1>8. QInv(r) /\ Held(r) = Held(s) /\ InEdma(r) = {}
  BY <1>1, <1>4, <1>6, <1>7, SameQueueKeeps
<1>9. /\ Stopped(r) /\ InError(r) = InError(s) /\ (Native(r) <=> Native(s))
      /\ r.saDevMask = s.saDevMask /\ r.errorCause = s.errorCause
  BY <1>1, <1>7 DEF Stopped, Empty, SameRings, SameEngine, InError, Native
<1>10. FailingOK(r, m)
  BY <1>1, <1>8, <1>9, NothingFails
<1>11. Inserted(r, m)
  <2>1. IsPIO(r, r.commandsQueue[1])
    <3>1. s.commandsQueue \in Seq(Listable)
      BY <1>1 DEF Channel
    <3>2. Head(s.commandsQueue) = s.commandsQueue[1]
      BY <1>3, <3>1, ElemsAt
    <3>3. QED
      BY <1>3, <1>7, <3>2 DEF IsPIO
  <2>2. \A k \in 1..Len(r.commandsQueue) : 1 \in 1..k
    OBVIOUS
  <2>3. QED
    BY <2>1, <2>2 DEF Inserted, AllInserted
<1>12. Reads(r, m) /\ Heard(r, m)
  BY <1>1, <1>2, <1>9 DEF Reads, Heard
<1>13. PioOK(r)
  BY <1>1, <1>3, <1>4, <1>5, <1>7, <1>9 DEF PioOK, Stopped
<1>14. Recovery(r, m)
  BY <1>2, <1>7, <1>9 DEF Recovery, Sensing, Stopped
<1>15. Inv(r, m)
  BY <1>1, <1>2, <1>7, <1>8, <1>9, <1>10, <1>11, <1>12, <1>13, <1>14, StoppedKeeps
<1>16. QED
  BY <1>1, <1>3, <1>7, <1>8, <1>15, ServedNone DEF Outcome, KeepsRing

\* A PIO command that fails leaves the queue, which is disabled.
FailedPio(s, t) ==
  [removeCommand(s, t) EXCEPT !.queueCommandsEnabled = FALSE, !.pio = NoTag]

\* It is called back, and the channel recovered or left disabled.
LEMMA FailPioKeeps ==
  ASSUME NEW s, NEW l, Inv(s, l), NEW t \in Used(s), s.phase = "ready", s.state = "IDLE",
         ~s.EdmaActive, ReadLog \notin Elems(s.commandsQueue), NEW x, x = FailedPio(s, t),
         NEW k, k = {s.entry[t].cmd}, NEW m \in Locals, m.pc # "ports",
         m.pc = "responses" \/ m.ret = "responses" => m.rspOutPtr = m.rspInPtr
  PROVE  /\ m.pc = "insert" => Outcome(s, Recovered(x), m, k)
         /\ m.pc # "insert" => Outcome(s, x, m, k)
<1>1. s \in Channel /\ QInv(s) /\ Engine(s, l) /\ Owner(s)
  BY DEF Inv, QInv, Control
<1>2. s.edmaEnabled = FALSE /\ s.EdmaActive = FALSE /\ s.executing = {}
  BY <1>1 DEF Engine, Channel
<1>3. PICK u, c : u = removeCommand(s, t) /\ c = s.entry[t].cmd
  OBVIOUS
<1>4. /\ QInv(u) /\ SameRest(s, u) /\ Held(u) = Held(s) \ {c} /\ c \in Held(s)
      /\ InEdma(u) = InEdma(s) \ {t} /\ u.commandsQueue = Without(s.commandsQueue, t)
      /\ \A v \in HostTags \ {t} : u.entry[v] = s.entry[v]
  BY <1>1, <1>3, RemoveKeeps
<1>5. ReadLog \notin Elems(u.commandsQueue)
  BY <1>1, <1>4, RemovedList
<1>6. x = [u EXCEPT !.queueCommandsEnabled = FALSE, !.pio = NoTag]
  BY <1>3, Zenon DEF FailedPio
<1>7. x \in Channel
  <2>1. u \in Channel /\ NoTag \in Tags \cup {ReadLog}
    BY <1>4 DEF QInv, Tags
  <2>2. QED
    BY <1>6, <2>1, ZenonT(60) DEF Channel
<1>8. /\ SameQueue(u, x) /\ SameErrors(u, x) /\ SameEngine(u, x) /\ x.queuedDMA = u.queuedDMA
      /\ x.phase = u.phase /\ x.queueCommandsEnabled = FALSE /\ x.pio = NoTag
      /\ SameRings(u, x)
  <2>1. u \in Channel
    BY <1>4 DEF QInv
  <2>2. QED
    BY <1>6, <1>7, <2>1 DEF Channel, SameQueue, SameList, SameErrors, SameEngine, SameRings
<1>9. QInv(x) /\ Held(x) = Held(u) /\ x.commandsQueue = u.commandsQueue
  BY <1>4, <1>7, <1>8, SameQueueKeeps DEF SameQueue, SameList
<1>10. /\ SameErrors(s, x) /\ x.queuedDMA = s.queuedDMA /\ x.phase = "ready"
       /\ x.EdmaActive = FALSE /\ x.edmaEnabled = FALSE /\ x.executing = {}
       /\ x.errorCause = s.errorCause
  BY <1>2, <1>4, <1>8 DEF SameRest, SameErrors, SameEngine, SameMode
<1>11. "selfDisable" \in x.errorCause => ~Native(x)
  BY <1>1, <1>10 DEF Engine, Native
<1>12. \E d \in Held(s) : k = {d} /\ Held(x) = Held(s) \ {d}
  BY <1>3, <1>4, <1>9
<1>13. ReadLog \notin Elems(x.commandsQueue)
  BY <1>5, <1>9
<1>14. Owner(x)
  <2>1. x.saDevMask = s.saDevMask /\ (Empty(x) <=> Empty(s)) /\ x.state = s.state
        /\ InError(x) = InError(s) /\ (Native(x) <=> Native(s))
    BY <1>4, <1>8, <1>10
    DEF SameRest, SameEngine, SameRings, SameErrors, Empty, InError, Native
  <2>2. QED
    BY <1>1, <1>10, <2>1 DEF Owner
<1>15. QED
  BY <1>8, <1>9, <1>10, <1>11, <1>12, <1>13, <1>14, OffRecovers

\* The entries of the commands that enter the EDMA.
InsertedEntries(s, q, n) ==
  [t \in HostTags |-> IF t \in {q[k] : k \in 1..n}
                      THEN [s.entry[t] EXCEPT !.isCommandInEdma = TRUE,
                                              !.commandAborted = FALSE]
                      ELSE s.entry[t]]

\* The marks are all that changes.
LEMMA InsertEntryFields ==
  ASSUME NEW s \in Channel, NEW q, NEW n, \A k \in 1..n : q[k] \in Used(s),
         NEW f, f = InsertedEntries(s, q, n)
  PROVE  /\ f \in [HostTags -> Entry]
         /\ \A t \in HostTags :
              /\ f[t] = FreeEntry <=> s.entry[t] = FreeEntry
              /\ f[t].cmd = s.entry[t].cmd /\ f[t].type = s.entry[t].type
              /\ f[t].PMPort = s.entry[t].PMPort /\ f[t].deviceTag = s.entry[t].deviceTag
              /\ t \in {q[k] : k \in 1..n} => f[t].isCommandInEdma /\ ~f[t].commandAborted
              /\ t \notin {q[k] : k \in 1..n} => f[t] = s.entry[t]
<1>1. ASSUME NEW t \in HostTags
      PROVE  /\ f[t] \in Entry /\ (f[t] = FreeEntry <=> s.entry[t] = FreeEntry)
             /\ f[t].cmd = s.entry[t].cmd /\ f[t].type = s.entry[t].type
             /\ f[t].PMPort = s.entry[t].PMPort /\ f[t].deviceTag = s.entry[t].deviceTag
             /\ t \in {q[k] : k \in 1..n} => f[t].isCommandInEdma /\ ~f[t].commandAborted
             /\ t \notin {q[k] : k \in 1..n} => f[t] = s.entry[t]
  <2>1. PICK e, S : e = s.entry[t] /\ S = {q[k] : k \in 1..n}
    OBVIOUS
  <2>2. e \in Entry
    BY <2>1 DEF Channel
  <2>3. CASE t \in S
    <3>1. f[t] = [e EXCEPT !.isCommandInEdma = TRUE, !.commandAborted = FALSE]
      BY <2>1, <2>3 DEF InsertedEntries
    <3>2. t \in Used(s)
      BY <2>1, <2>3
    <3>3. e \in UsedEntry
      BY <2>1, <3>2, UsedFacts
    <3>4. PICK g : g = [e EXCEPT !.isCommandInEdma = TRUE, !.commandAborted = FALSE]
      OBVIOUS
    <3>5. g \in UsedEntry
      BY <3>3, <3>4 DEF UsedEntry
    <3>6. /\ g.cmd = e.cmd /\ g.type = e.type /\ g.PMPort = e.PMPort
          /\ g.deviceTag = e.deviceTag
      BY <3>3, <3>4 DEF UsedEntry
    <3>7. g.isCommandInEdma = TRUE /\ g.commandAborted = FALSE
      BY <3>3, <3>4 DEF UsedEntry
    <3>8. g # FreeEntry /\ e # FreeEntry
      BY <3>3, <3>5, UsedIsNotFree
    <3>9. f[t] = g
      BY <3>1, <3>4
    <3>10. QED
      BY <2>1, <2>3, <3>5, <3>6, <3>7, <3>8, <3>9 DEF Entry
  <2>4. CASE t \notin S
    <3>1. f[t] = e
      BY <2>1, <2>4 DEF InsertedEntries
    <3>2. QED
      BY <2>1, <2>2, <2>4, <3>1
  <2>5. QED
    BY <2>3, <2>4
<1>2. f = [t \in HostTags |-> f[t]]
  BY DEF InsertedEntries
<1>3. f \in [HostTags -> Entry]
  BY <1>1, <1>2
<1>4. QED
  BY <1>1, <1>3

\* The request ring that is filled.
FilledRing(s, q, n) ==
  [i \in Slots |-> IF 1 + ((i - s.reqInPtr + QueueLength) % QueueLength) <= n
                   THEN q[1 + ((i - s.reqInPtr + QueueLength) % QueueLength)]
                   ELSE s.requestQueue[i]]

\* The engine is started in the same mode.
Restarted(s, r) ==
  /\ r.queueCommandsEnabled = s.queueCommandsEnabled /\ r.queuedDMA = s.queuedDMA
  /\ r.phase = s.phase /\ r.pio = NoTag /\ r.EdmaActive = TRUE /\ r.edmaEnabled = TRUE
  /\ r.saDevMask = FALSE /\ "devErr" \notin r.errorCause /\ "selfDisable" \notin r.errorCause

\* What inserting n commands changes.
Filled(s, r, n) ==
  /\ SameList(s, r) /\ Restarted(s, r) /\ SameErrors(s, r) /\ SameResponses(s, r)
  /\ r.requestQueue = FilledRing(s, s.commandsQueue, n) /\ r.reqOutPtr = s.reqOutPtr
  /\ r.reqInPtr = (s.reqInPtr + n) % QueueLength /\ r.executing = s.executing
  /\ r.entry = InsertedEntries(s, s.commandsQueue, n)

\* insertLeadingUdma activates the EDMA, fills the ring and marks the commands.
LEMMA FillFields ==
  ASSUME NEW s \in Channel, NEW n \in 0..(QueueLength - 1), n = Cardinality(LeadingUdma(s)),
         \A k \in 1..n : s.commandsQueue[k] \in Used(s), NEW r, r = insertLeadingUdma(s)
  PROVE  r \in Channel /\ Filled(s, r, n)
<1>1. PICK a, q : a = activateEdma(s) /\ q = s.commandsQueue
  OBVIOUS
<1>2. a \in Channel /\ Activated(s, a)
  BY <1>1, ActivateFields
<1>3. /\ SameQueue(s, a) /\ Restarted(s, a) /\ SameErrors(s, a) /\ SameRings(s, a)
      /\ a.executing = s.executing
  BY <1>2 DEF Activated, Restarted
<1>4. a.requestQueue = s.requestQueue /\ a.reqInPtr = s.reqInPtr /\ a.entry = s.entry
  BY <1>3 DEF SameRings, SameQueue
<1>5. PICK g, b, f : /\ g = FilledRing(s, q, n) /\ b = (s.reqInPtr + n) % QueueLength
                     /\ f = InsertedEntries(s, q, n)
  OBVIOUS
<1>6. r = [a EXCEPT !.requestQueue = g, !.reqInPtr = b, !.entry = f]
  <2>1. r = [a EXCEPT
        !.requestQueue =
          [i \in Slots |-> IF 1 + ((i - s.reqInPtr + QueueLength) % QueueLength) <= n
                           THEN q[1 + ((i - s.reqInPtr + QueueLength) % QueueLength)]
                           ELSE a.requestQueue[i]],
        !.reqInPtr = (a.reqInPtr + n) % QueueLength,
        !.entry = [t \in HostTags |->
                     IF t \in {q[k] : k \in 1..n}
                     THEN [a.entry[t] EXCEPT !.isCommandInEdma = TRUE,
                                             !.commandAborted = FALSE]
                     ELSE a.entry[t]]]
    BY <1>1, Zenon DEF insertLeadingUdma, LeadingUdma
  <2>2. QED
    BY <1>4, <1>5, <2>1, Zenon DEF FilledRing, InsertedEntries
<1>7. f \in [HostTags -> Entry]
  BY <1>1, <1>5, InsertEntryFields
<1>8. s.reqInPtr \in Slots /\ s.requestQueue \in [Slots -> Tags] /\ Used(s) \subseteq Tags
  BY RingTypes, UsedFacts DEF Tags
<1>9. b \in Slots
  <2>1. \E i : i \in Slots
    BY <1>8
  <2>2. QED
    BY <1>5, <1>8, <2>1, RingFilled
<1>10. g \in [Slots -> Tags]
  <2>1. ASSUME NEW i \in Slots PROVE g[i] \in Tags
    <3>1. PICK j : j = 1 + ((i - s.reqInPtr + QueueLength) % QueueLength)
      OBVIOUS
    <3>2. j \in 1..QueueLength
      BY <1>8, <3>1, RingFilled
    <3>3. g[i] = IF j <= n THEN q[j] ELSE s.requestQueue[i]
      BY <1>5, <3>1 DEF FilledRing
    <3>4. j <= n => q[j] \in Used(s)
      BY <1>1, <3>2
    <3>5. QED
      BY <1>8, <3>3, <3>4
  <2>2. g = [i \in Slots |-> g[i]]
    BY <1>5 DEF FilledRing
  <2>3. QED
    BY <2>1, <2>2
<1>11. r \in Channel
  <2>1. [a EXCEPT !.requestQueue = g, !.reqInPtr = b, !.entry = f] \in Channel
    BY <1>2, <1>7, <1>9, <1>10 DEF Channel
  <2>2. QED
    BY <1>6, <2>1, Zenon
<1>12. /\ SameList(a, r) /\ SameMode(a, r) /\ SameErrors(a, r) /\ SameResponses(a, r)
       /\ r.requestQueue = g /\ r.reqOutPtr = a.reqOutPtr /\ r.reqInPtr = b
       /\ r.executing = a.executing /\ r.entry = f /\ r.EdmaActive = a.EdmaActive
       /\ r.edmaEnabled = a.edmaEnabled /\ r.errorCause = a.errorCause
       /\ r.saDevMask = a.saDevMask
  <2>1. a \in Channel
    BY <1>2
  <2>2. QED
    BY <1>6, <1>11, <2>1 DEF Channel, SameList, SameMode, SameErrors, SameResponses
<1>13. /\ SameList(s, r) /\ Restarted(s, r) /\ SameErrors(s, r) /\ SameResponses(s, r)
       /\ r.reqOutPtr = s.reqOutPtr
  BY <1>3, <1>12
  DEF SameQueue, SameList, SameMode, Restarted, SameErrors, SameRings, SameResponses
<1>14. QED
  BY <1>1, <1>3, <1>5, <1>11, <1>12, <1>13 DEF Filled

\* The leading UDMA commands enter the request ring.
LEMMA InsertUdmaKeeps ==
  ASSUME NEW s, NEW l, Inv(s, l), l.pc = "insert", s.commandsQueue # <<>>,
         ~IsPIO(s, Head(s.commandsQueue)), NEW r, r = insertLeadingUdma(s),
         NEW m, m = Returned(l)
  PROVE  Outcome(s, r, m, {})
<1>1. /\ s \in Channel /\ QInv(s) /\ Stopped(s) /\ s.state = "IDLE" /\ s.PortsWithErrors = {}
      /\ (Native(s) => InError(s) = {}) /\ ReadLog \notin Elems(s.commandsQueue)
      /\ s.phase = "ready"
  BY InsertFacts
<1>2. /\ m \in Locals /\ m.pc \in {"idle", "responses"}
      /\ m.pc = "responses" \/ m.ret = "responses" => m.rspOutPtr = m.rspInPtr
  BY ReturnFacts
<1>4. PICK q : q = s.commandsQueue
  OBVIOUS
<1>5. PICK n \in 0..(QueueLength - 1) :
        /\ n = Cardinality(LeadingUdma(s)) /\ n <= Len(q) /\ LeadingUdma(s) = 1..n
        /\ \A k \in 1..n : q[k] \in Used(s) /\ s.entry[q[k]].type = "UDMA"
        /\ \A t \in InEdma(s) : \E k \in 1..n : q[k] = t
        /\ \A j, k \in 1..n : q[j] = q[k] => j = k
  BY <1>1, <1>4, LeadingUdmaFacts
<1>6. r \in Channel /\ Filled(s, r, n)
  BY <1>1, <1>4, <1>5, FillFields
<1>7. /\ SameList(s, r) /\ Restarted(s, r) /\ SameErrors(s, r) /\ SameResponses(s, r)
      /\ r.requestQueue = FilledRing(s, q, n) /\ r.reqOutPtr = s.reqOutPtr
      /\ r.reqInPtr = (s.reqInPtr + n) % QueueLength /\ r.executing = s.executing
      /\ r.entry = InsertedEntries(s, q, n)
      /\ r.EdmaActive = TRUE /\ r.edmaEnabled = TRUE /\ r.saDevMask = FALSE
      /\ "devErr" \notin r.errorCause /\ "selfDisable" \notin r.errorCause
  BY <1>4, <1>6 DEF Filled, Restarted
<1>8. PICK f, S : f = r.entry /\ S = {q[k] : k \in 1..n}
  OBVIOUS
<1>9. \A t \in HostTags :
        /\ f[t] = FreeEntry <=> s.entry[t] = FreeEntry
        /\ f[t].cmd = s.entry[t].cmd /\ f[t].type = s.entry[t].type
        /\ f[t].PMPort = s.entry[t].PMPort /\ f[t].deviceTag = s.entry[t].deviceTag
        /\ t \in S => f[t].isCommandInEdma /\ ~f[t].commandAborted
        /\ t \notin S => f[t] = s.entry[t]
  <2>1. f = InsertedEntries(s, q, n)
    BY <1>7, <1>8
  <2>2. \A k \in 1..n : q[k] \in Used(s)
    BY <1>5
  <2>3. s \in Channel
    BY <1>1
  <2>4. /\ f \in [HostTags -> Entry]
        /\ \A t \in HostTags :
             /\ f[t] = FreeEntry <=> s.entry[t] = FreeEntry
             /\ f[t].cmd = s.entry[t].cmd /\ f[t].type = s.entry[t].type
             /\ f[t].PMPort = s.entry[t].PMPort /\ f[t].deviceTag = s.entry[t].deviceTag
             /\ t \in {q[k] : k \in 1..n} => f[t].isCommandInEdma /\ ~f[t].commandAborted
             /\ t \notin {q[k] : k \in 1..n} => f[t] = s.entry[t]
    BY <2>1, <2>2, <2>3, InsertEntryFields
  <2>5. S = {q[k] : k \in 1..n}
    BY <1>8
  <2>6. QED
    BY <2>4, <2>5, Zenon
<1>10. SameCommands(s, r)
  BY <1>7, <1>8, <1>9 DEF SameCommands
<1>11. S \subseteq Used(s) /\ S \subseteq HostTags /\ InEdma(s) \subseteq S
  <2>1. \A k \in 1..n : q[k] \in Used(s)
    BY <1>5
  <2>2. \A t \in InEdma(s) : \E k \in 1..n : q[k] = t
    BY <1>5
  <2>3. S = {q[k] : k \in 1..n}
    BY <1>8
  <2>4. S \subseteq Used(s)
    BY <2>1, <2>3, Zenon
  <2>5. InEdma(s) \subseteq S
    BY <2>2, <2>3, Zenon
  <2>6. Used(s) \subseteq HostTags
    BY <1>1, UsedFacts
  <2>7. QED
    BY <2>4, <2>5, <2>6, Zenon
<1>12. InEdma(r) = S
  <2>1. Used(r) = Used(s)
    BY <1>8, <1>9 DEF Used
  <2>2. ASSUME NEW t \in HostTags PROVE t \in InEdma(r) <=> t \in S
    <3>1. CASE t \in S
      BY <1>8, <1>9, <1>11, <2>1, <3>1 DEF InEdma
    <3>2. CASE t \notin S
      <4>1. r.entry[t] = s.entry[t] /\ t \notin InEdma(s)
        BY <1>8, <1>9, <1>11, <3>2
      <4>2. QED
        BY <2>1, <3>2, <4>1 DEF InEdma
    <3>3. QED
      BY <3>1, <3>2
  <2>3. InEdma(r) \subseteq HostTags
    BY <1>6, RingTypes
  <2>4. QED
    BY <1>11, <2>2, <2>3
<1>13. PrefixOK(r)
  <2>1. r.commandsQueue = q /\ Len(q) \in Nat /\ DOMAIN q = 1..Len(q)
    <3>1. q \in Seq(Listable)
      BY <1>1, <1>4 DEF Channel
    <3>2. QED
      BY <1>4, <1>7, <3>1, ElemsAt DEF SameList
  <2>2. \A i, j \in 1..Len(q) : q[i] = q[j] => i = j
    BY <1>1, <1>4, <2>1 DEF QInv, QueueOK, ListOK, NoDuplicates
  <2>3. ASSUME NEW i \in 1..Len(q), NEW j \in 1..Len(q), i < j, q[j] \in S
        PROVE  q[i] \in S
    <3>1. PICK k \in 1..n : q[j] = q[k]
      BY <1>8, <2>3
    <3>2. k \in 1..Len(q)
      BY <1>5, <2>1, <3>1
    <3>3. j = k
      BY <2>2, <3>1, <3>2
    <3>4. i \in 1..n
      BY <2>3, <3>1, <3>3
    <3>5. QED
      BY <1>8, <3>4
  <2>4. QED
    BY <1>12, <2>1, <2>3 DEF PrefixOK
<1>14. QInv(r) /\ Held(r) = Held(s)
  <2>1. \A t \in InEdma(r) : s.entry[t].type = "UDMA"
    <3>1. \A k \in 1..n : s.entry[q[k]].type = "UDMA"
      BY <1>5
    <3>2. InEdma(r) = {q[k] : k \in 1..n}
      BY <1>8, <1>12
    <3>3. QED
      BY <3>1, <3>2, Zenon
  <2>2. QED
    BY <1>1, <1>6, <1>10, <1>13, <2>1, MarkKeeps
<1>15. Empty(s) /\ r.executing = {}
  BY <1>1, <1>7 DEF Stopped
<1>16. Rings(r) /\ \A i \in Slots : ~Responded(r, i)
  <2>1. \A k \in 1..n : q[k] \in InEdma(r)
    BY <1>8, <1>12
  <2>2. \A j, k \in 1..n : q[j] = q[k] => j = k
    BY <1>5
  <2>3. r.requestQueue = [i \in Slots |->
           IF 1 + ((i - s.reqInPtr + QueueLength) % QueueLength) <= n
           THEN q[1 + ((i - s.reqInPtr + QueueLength) % QueueLength)]
           ELSE s.requestQueue[i]]
    BY <1>7 DEF FilledRing
  <2>4. QED
    <3>1. s \in Channel /\ r \in Channel /\ n \in 0..(QueueLength - 1) /\ Empty(s)
      BY <1>1, <1>6, <1>7, <1>15
    <3>2. /\ SameResponses(s, r) /\ r.executing = {} /\ r.reqOutPtr = s.reqOutPtr
          /\ r.reqInPtr = (s.reqInPtr + n) % QueueLength
      BY <1>7, <1>15
    <3>3. QED
      BY <2>1, <2>2, <2>3, <3>1, <3>2, RingsFill, SMTT(40)
<1>17. AllInserted(r)
  <2>1. r.commandsQueue = q /\ q \in Seq(Listable)
    BY <1>1, <1>4, <1>7 DEF SameList, Channel
  <2>2. DOMAIN q = 1..Len(q) /\ \A k \in 1..Len(q) : q[k] \in HostTags
    <3>1. DOMAIN q = 1..Len(q) /\ \A k \in 1..Len(q) : q[k] \in Elems(q) /\ q[k] \in Listable
      BY <2>1, ElemsAt
    <3>2. QED
      BY <1>1, <1>4, <3>1 DEF Listable
  <2>3. \A k \in 1..Len(q) : IsPIO(r, q[k]) <=> IsPIO(s, q[k])
    BY <1>8, <1>9, <2>2 DEF IsPIO
  <2>4. ASSUME NEW k \in 1..Len(q), \A j \in 1..k : ~IsPIO(r, q[j]) PROVE q[k] \in S
    <3>1. \A j \in 1..k : j \in 1..Len(q)
      BY <2>1, <2>4, ElemsAt
    <3>2. k \in LeadingUdma(s)
      BY <1>4, <2>2, <2>3, <2>4, <3>1 DEF LeadingUdma
    <3>3. QED
      BY <1>5, <1>8, <3>2
  <2>5. QED
    BY <1>12, <2>1, <2>4 DEF AllInserted
<1>18. /\ r.state = "IDLE" /\ r.PortsWithErrors = {} /\ InError(r) = InError(s)
       /\ (Native(r) <=> Native(s)) /\ r.pio = NoTag /\ r.phase = "ready"
       /\ r.commandsQueue = s.commandsQueue /\ r.rspOutPtr = r.rspInPtr
  BY <1>1, <1>7, <1>15
  DEF SameErrors, Restarted, SameList, SameResponses, InError, Native, Empty
<1>19. FailsOK(r) \/ ~Native(r)
  BY <1>1, <1>18 DEF FailsOK
<1>20. AbortsOK(r)
  BY <1>8, <1>9, <1>11, <1>12 DEF AbortsOK
<1>21. Inserted(r, m) /\ RingsLive(r, m) /\ FailingOK(r, m)
  BY <1>7, <1>16, <1>17, <1>19, <1>20 DEF Inserted, RingsLive, FailingOK
<1>22. Engine(r, m) /\ Reads(r, m) /\ Announced(r, m)
  BY <1>2, <1>7, <1>16, <1>18 DEF Engine, Reads, Announced
<1>23. PioOK(r)
  BY <1>1, <1>18, TagFacts DEF PioOK
<1>24. Recovery(r, m) /\ NotReady(r, m) /\ Heard(r, m) /\ Owner(r)
  BY <1>2, <1>7, <1>18 DEF Recovery, NotReady, Heard, Owner, Sensing
<1>25. Inv(r, m)
  BY <1>2, <1>14, <1>21, <1>22, <1>23, <1>24 DEF Inv, Control
<1>26. QED
  BY <1>1, <1>14, <1>18, <1>25, ServedNone DEF Outcome, KeepsRing

-----------------------------------------------------------------------------
(* The request sense states.                                               *)

\* The engine is stopped, the rings are empty and the failed commands are where
\* the drives report them.
LEMMA SenseFacts ==
  ASSUME NEW s, NEW l, Inv(s, l), Sensing(s)
  PROVE  /\ s \in Channel /\ QInv(s) /\ l \in Locals /\ Stopped(s) /\ Native(s) /\ Rings(s)
         /\ s.phase = "ready" /\ FailsOK(s) /\ AbortsOK(s) /\ PioOK(s)
         /\ InError(s) \subseteq s.PortsWithErrors /\ "selfDisable" \notin s.errorCause
         /\ s.pio \in {NoTag, ReadLog}
         /\ "spurious" \notin Faults => s.saDevMask
<1>1. /\ QInv(s) /\ l \in Locals /\ RingsLive(s, l) /\ FailingOK(s, l) /\ Engine(s, l)
      /\ PioOK(s) /\ Recovery(s, l) /\ NotReady(s, l) /\ Heard(s, l) /\ s \in Channel
  BY DEF Inv, Control, QInv
<1>2. Live(s, l) /\ s.state # "IDLE"
  BY DEF Live, Sensing
<1>3. ~s.EdmaActive /\ InError(s) \subseteq s.PortsWithErrors /\ Native(s) /\ l.pc # "insert"
  BY <1>1, <1>2 DEF Recovery
<1>4. Rings(s) /\ Empty(s)
  BY <1>1, <1>2, <1>3 DEF RingsLive
<1>5. ~s.edmaEnabled /\ s.executing = {}
  BY <1>1, <1>3 DEF Engine
<1>6. s.EdmaActive \in BOOLEAN /\ s.edmaEnabled \in BOOLEAN /\ s.pio \in Tags \cup {ReadLog}
  BY <1>1 DEF Channel
<1>7. Stopped(s)
  BY <1>3, <1>4, <1>5, <1>6 DEF Stopped
<1>8. s.phase = "ready"
  BY <1>1, <1>2 DEF NotReady
<1>9. FailsOK(s) /\ AbortsOK(s)
  BY <1>1, <1>2, <1>3 DEF FailingOK
<1>10. "selfDisable" \notin s.errorCause
  BY <1>1, <1>3 DEF Engine
<1>11. s.pio \in {NoTag, ReadLog}
  BY <1>1, <1>2, <1>6 DEF PioOK, Tags
<1>12. "spurious" \notin Faults => s.saDevMask
  BY <1>1, <1>2, <1>3 DEF Heard
<1>13. QED
  BY <1>1, <1>3, <1>4, <1>7, <1>8, <1>9, <1>10, <1>11, <1>12

\* A channel in the request sense state.
LEMMA AskKeeps ==
  ASSUME NEW r, NEW m \in Locals, QInv(r), Stopped(r), Native(r), r.phase = "ready",
         r.state = "REQUEST_SENSE", FailsOK(r), AbortsOK(r), PioOK(r),
         InError(r) = {p \in r.PortsWithErrors : p >= r.CurrPort}, m.pc # "insert",
         m.pc # "ports" => r.CurrPort \in InError(r), m.pc = "ports" => r.pio = NoTag,
         m.pc # "idle" /\ (m.pc = "responses" \/ m.ret = "responses") => m.rspOutPtr = m.rspInPtr,
         "selfDisable" \notin r.errorCause, "spurious" \notin Faults => r.saDevMask
  PROVE  Inv(r, m)
<1>1. FailingOK(r, m) /\ Inserted(r, m)
  BY DEF FailingOK, Inserted
<1>2. Reads(r, m)
  BY DEF Reads
<1>3. ~r.EdmaActive
  BY DEF Stopped
<1>4. InError(r) \subseteq r.PortsWithErrors
  OBVIOUS
<1>5. Recovery(r, m)
  BY <1>3, <1>4 DEF Recovery, Sensing
<1>6. Heard(r, m)
  BY DEF Heard
<1>7. QED
  BY <1>1, <1>2, <1>5, <1>6, StoppedKeeps

\* A step in the request sense states that frees no command.
LEMMA AskStep ==
  ASSUME NEW s, NEW l, Inv(s, l), Sensing(s), NEW r, QInv(r), SameTags(s, r),
         SameRings(s, r), SameEngine(s, r), r.erring = s.erring,
         r.PortsWithErrors = s.PortsWithErrors, r.queuedDMA = s.queuedDMA, r.phase = s.phase,
         InEdma(r) = InEdma(s), Held(r) = Held(s), r.state = "REQUEST_SENSE", PioOK(r),
         InError(r) = {p \in r.PortsWithErrors : p >= r.CurrPort}, NEW m \in Locals,
         m.pc # "insert", m.pc # "ports" => r.CurrPort \in InError(r),
         m.pc = "ports" => r.pio = NoTag,
         m.pc # "idle" /\ (m.pc = "responses" \/ m.ret = "responses") => m.rspOutPtr = m.rspInPtr
  PROVE  Outcome(s, r, m, {})
<1>1. /\ QInv(s) /\ Stopped(s) /\ Native(s) /\ Rings(s) /\ s.phase = "ready" /\ FailsOK(s)
      /\ AbortsOK(s) /\ "selfDisable" \notin s.errorCause
      /\ "spurious" \notin Faults => s.saDevMask
  BY SenseFacts
<1>2. Stopped(r) /\ Native(r) /\ "selfDisable" \notin r.errorCause
  BY <1>1 DEF SameEngine, SameRings, Stopped, Empty, Native
<1>3. "spurious" \notin Faults => r.saDevMask
  <2>1. r.saDevMask = s.saDevMask
    BY DEF SameEngine
  <2>2. QED
    BY <1>1, <2>1, Zenon
<1>4. FailsOK(r) /\ AbortsOK(r)
  <2>1. r.executing = s.executing /\ \A u \in Used(s) : r.entry[u] = s.entry[u]
    BY DEF SameEngine, SameTags
  <2>2. QED
    BY <1>1, <2>1, AddKeepsPlaces
<1>5. r.phase = "ready"
  BY <1>1
<1>6. Inv(r, m)
  BY <1>2, <1>3, <1>4, <1>5, AskKeeps
<1>7. Served(s, r, {}) /\ KeepsRing(s, r)
  BY ServedNone DEF KeepsRing, SameRings
<1>8. QED
  BY <1>6, <1>7 DEF Outcome

\* handlePortError turns to port p.
Asked(s, p) == [s EXCEPT !.CurrPort = p, !.commandsQueue = <<ReadLog>> \o @]

\* What the states of the recovery share.
SameSense(s, r) ==
  /\ SameTags(s, r) /\ SameRings(s, r) /\ SameEngine(s, r)
  /\ r.erring = s.erring /\ r.PortsWithErrors = s.PortsWithErrors
  /\ r.queuedDMA = s.queuedDMA /\ r.phase = s.phase

\* READ LOG EXT is linked.
LEMMA AskedFields ==
  ASSUME NEW s \in Channel, NEW p \in Nat, <<ReadLog>> \o s.commandsQueue \in Seq(Listable),
         NEW r, r = Asked(s, p)
  PROVE  /\ r \in Channel /\ SameSense(s, r) /\ r.CurrPort = p /\ r.state = s.state
         /\ r.commandsQueue = <<ReadLog>> \o s.commandsQueue
         /\ r.pio = s.pio /\ r.queueCommandsEnabled = s.queueCommandsEnabled
<1>1. PICK w \in Seq(Listable) : w = <<ReadLog>> \o s.commandsQueue
  OBVIOUS
<1>2. r = [s EXCEPT !.CurrPort = p, !.commandsQueue = w]
  BY <1>1, Zenon DEF Asked
<1>3. [s EXCEPT !.CurrPort = p, !.commandsQueue = w] \in Channel
  BY DEF Channel
<1>4. r \in Channel
  BY <1>2, <1>3, Zenon
<1>5. r.CurrPort = p /\ r.commandsQueue = w
  BY <1>2 DEF Channel
<1>6. SameSense(s, r) /\ r.state = s.state /\ r.pio = s.pio
      /\ r.queueCommandsEnabled = s.queueCommandsEnabled
  BY <1>2 DEF Channel, SameSense, SameTags, SameRings, SameEngine
<1>7. QED
  BY <1>1, <1>4, <1>5, <1>6

\* READ LOG EXT leaves the list.
LogDone(s) == [s EXCEPT !.pio = NoTag, !.commandsQueue = Without(@, ReadLog)]

\* What READ LOG EXT leaves alone, whether it fails or not.
LEMMA LogFields ==
  ASSUME NEW s \in Channel, Without(s.commandsQueue, ReadLog) \in Seq(Listable), NEW r,
         r = LogDone(s) \/ r = failReadLog(s)
  PROVE  /\ r \in Channel /\ SameSense(s, r) /\ r.CurrPort = s.CurrPort /\ r.state = s.state
         /\ r.commandsQueue = Without(s.commandsQueue, ReadLog) /\ r.pio = NoTag
<1>1. PICK w \in Seq(Listable) : w = Without(s.commandsQueue, ReadLog)
  OBVIOUS
<1>2. PICK n \in Tags \cup {ReadLog} : n = NoTag
  BY DEF Tags
<1>3. CASE r = LogDone(s)
  <2>1. r = [s EXCEPT !.pio = n, !.commandsQueue = w]
    BY <1>1, <1>2, <1>3, Zenon DEF LogDone
  <2>2. [s EXCEPT !.pio = n, !.commandsQueue = w] \in Channel
    BY DEF Channel
  <2>3. r \in Channel
    BY <2>1, <2>2, Zenon
  <2>4. r.commandsQueue = w /\ r.pio = n
    BY <2>1 DEF Channel
  <2>5. SameSense(s, r) /\ r.state = s.state /\ r.CurrPort = s.CurrPort
    BY <2>1 DEF Channel, SameSense, SameTags, SameRings, SameEngine
  <2>6. QED
    BY <1>1, <1>2, <2>3, <2>4, <2>5
<1>4. CASE r = failReadLog(s)
  <2>1. r = [s EXCEPT !.queueCommandsEnabled = FALSE, !.pio = n, !.commandsQueue = w]
    BY <1>1, <1>2, <1>4, Zenon DEF failReadLog
  <2>2. [s EXCEPT !.queueCommandsEnabled = FALSE, !.pio = n, !.commandsQueue = w] \in Channel
    BY DEF Channel
  <2>3. r \in Channel
    BY <2>1, <2>2, Zenon
  <2>4. r.commandsQueue = w /\ r.pio = n
    BY <2>1 DEF Channel
  <2>5. SameSense(s, r) /\ r.state = s.state /\ r.CurrPort = s.CurrPort
    BY <2>1 DEF Channel, SameSense, SameTags, SameRings, SameEngine
  <2>6. QED
    BY <1>1, <1>2, <2>3, <2>4, <2>5
<1>5. QED
  BY <1>3, <1>4

\* The ports still to be asked are the ones in error.
Unasked(s) == {p \in s.PortsWithErrors : p >= s.CurrPort}

\* handlePortError: no READ LOG EXT is in the list, and the unasked ports are
\* the ones in error.
LEMMA PortsFacts ==
  ASSUME NEW s, NEW l, Inv(s, l), l.pc = "ports"
  PROVE  /\ s.state = "REQUEST_SENSE" /\ Sensing(s) /\ s.pio = NoTag
         /\ ReadLog \notin Elems(s.commandsQueue)
         /\ InError(s) = Unasked(s) /\ Unasked(s) \subseteq Ports
<1>1. Recovery(s, l) /\ PioOK(s) /\ s \in Channel
  BY DEF Inv, Control, QInv
<1>2. s.state = "REQUEST_SENSE" /\ s.pio = NoTag
  BY <1>1 DEF Recovery
<1>3. InError(s) = Unasked(s)
  BY <1>1, <1>2 DEF Recovery, Unasked
<1>4. ReadLog \notin Elems(s.commandsQueue)
  BY <1>1, <1>2, TagFacts DEF PioOK
<1>5. QED
  BY <1>2, <1>3, <1>4 DEF Sensing, InError

\* Nothing is left to be asked: the commands are about to be inserted again.
AskedAll(s) ==
  [resetEdmaQPointers(s) EXCEPT !.state = "IDLE", !.PortsWithErrors = {}, !.CurrPort = 0]

\* What that changes.
LEMMA AskedAllFields ==
  ASSUME NEW s \in Channel, NEW r, r = AskedAll(s)
  PROVE  /\ r \in Channel /\ SameQueue(s, r) /\ SameMode(s, r) /\ SameEngine(s, r) /\ Empty(r)
         /\ r.state = "IDLE" /\ r.PortsWithErrors = {} /\ r.erring = s.erring
<1>1. PICK u : u = resetEdmaQPointers(s)
  OBVIOUS
<1>2. u \in Channel /\ Emptied(s, u)
  BY <1>1, ResetFields
<1>3. r = [u EXCEPT !.state = "IDLE", !.PortsWithErrors = {}, !.CurrPort = 0]
  BY <1>1, Zenon DEF AskedAll
<1>4. u \in Channel
  BY <1>2
<1>5. [u EXCEPT !.state = "IDLE", !.PortsWithErrors = {}, !.CurrPort = 0] \in Channel
  BY <1>4 DEF Channel, States
<1>6. r \in Channel
  BY <1>3, <1>5, Zenon
<1>7. r.state = "IDLE" /\ r.PortsWithErrors = {} /\ r.erring = u.erring
  BY <1>3, <1>4 DEF Channel
<1>8. SameQueue(u, r) /\ SameMode(u, r) /\ SameEngine(u, r) /\ SameRings(u, r)
  BY <1>3, <1>4 DEF Channel, SameQueue, SameList, SameMode, SameEngine, SameRings
<1>9. SameQueue(s, r) /\ SameMode(s, r) /\ SameEngine(s, r)
  BY <1>2, <1>8 DEF Emptied, SameQueue, SameList, SameMode, SameEngine
<1>10. Empty(r) /\ r.erring = s.erring
  BY <1>2, <1>7, <1>8 DEF Emptied, SameErrors, SameRings, Empty
<1>11. QED
  BY <1>6, <1>7, <1>9, <1>10

\* After the last port.
LEMMA AskedAllKeeps ==
  ASSUME NEW s, NEW l, Inv(s, l), l.pc = "ports", Unasked(s) = {}, NEW r, r = AskedAll(s),
         NEW m, m = [l EXCEPT !.pc = "insert"]
  PROVE  Outcome(s, r, m, {})
<1>1. Sensing(s) /\ ReadLog \notin Elems(s.commandsQueue) /\ InError(s) = {} /\ s.pio = NoTag
  BY PortsFacts
<1>2. /\ s \in Channel /\ QInv(s) /\ l \in Locals /\ Stopped(s) /\ Native(s)
      /\ s.phase = "ready" /\ "selfDisable" \notin s.errorCause
      /\ "spurious" \notin Faults => s.saDevMask
  BY <1>1, SenseFacts
<1>3. /\ r \in Channel /\ SameQueue(s, r) /\ SameMode(s, r) /\ SameEngine(s, r) /\ Empty(r)
      /\ r.state = "IDLE" /\ r.PortsWithErrors = {} /\ r.erring = s.erring
  BY <1>2, AskedAllFields
<1>4. QInv(r) /\ Held(r) = Held(s)
  BY <1>2, <1>3, SameQueueKeeps
<1>5. m \in Locals /\ m.pc = "insert" /\ m.ret = l.ret
      /\ m.rspOutPtr = l.rspOutPtr /\ m.rspInPtr = l.rspInPtr
  BY <1>2 DEF Locals, Pcs
<1>6. Stopped(r) /\ Native(r) /\ r.phase = "ready" /\ "selfDisable" \notin r.errorCause
      /\ r.pio = NoTag
  BY <1>1, <1>2, <1>3 DEF Stopped, SameEngine, SameMode, Native
<1>7. "spurious" \notin Faults => r.saDevMask
  <2>1. r.saDevMask = s.saDevMask
    BY <1>3 DEF SameEngine
  <2>2. QED
    BY <1>2, <2>1, Zenon
<1>8. InError(r) = {}
  BY <1>1, <1>3 DEF InError
<1>9. FailingOK(r, m) /\ Inserted(r, m)
  BY <1>5, <1>8 DEF FailingOK, FailsOK, Inserted
<1>10. Reads(r, m)
  <2>1. Reads(s, l)
    BY DEF Inv, Control
  <2>2. QED
    BY <1>5, <2>1 DEF Reads
<1>11. ReadLog \notin Elems(r.commandsQueue)
  BY <1>1, <1>3 DEF SameQueue, SameList
<1>12. PioOK(r)
  BY <1>6, <1>11, TagFacts DEF PioOK
<1>13. Recovery(r, m)
  <2>1. r.EdmaActive = FALSE
    BY <1>6 DEF Stopped
  <2>2. QED
    BY <1>3, <1>5, <1>8, <2>1 DEF Recovery, Sensing
<1>14. Heard(r, m)
  BY <1>7 DEF Heard
<1>15. Inv(r, m)
  BY <1>3, <1>4, <1>5, <1>6, <1>8, <1>9, <1>10, <1>12, <1>13, <1>14, StoppedKeeps
<1>16. Served(s, r, {}) /\ KeepsRing(s, r)
  BY <1>1, <1>2, <1>4, <1>6, ServedNone DEF KeepsRing
<1>17. QED
  BY <1>15, <1>16 DEF Outcome

\* The next port is the smallest one in error: from there on the ports in error
\* are the unasked ones again.
LEMMA NextPort ==
  ASSUME NEW s, NEW l, Inv(s, l), l.pc = "ports", Unasked(s) # {},
         NEW p, p = CHOOSE x \in Unasked(s) : \A y \in Unasked(s) : x <= y
  PROVE  /\ p \in Nat /\ p \in InError(s)
         /\ InError(s) = {x \in s.PortsWithErrors : x >= p}
<1>1. InError(s) = Unasked(s) /\ Unasked(s) \subseteq Ports
  BY PortsFacts
<1>2. \E x \in Unasked(s) : \A y \in Unasked(s) : x <= y
  BY <1>1, SmallestPort
<1>3. p \in Unasked(s) /\ \A y \in Unasked(s) : p <= y
  BY <1>2
<1>4. Ports \subseteq Nat /\ s.CurrPort \in Nat /\ s.PortsWithErrors \subseteq Ports
  BY TagFacts DEF Inv, QInv, Channel
<1>5. p \in Nat /\ p >= s.CurrPort
  BY <1>1, <1>3, <1>4 DEF Unasked
<1>6. ASSUME NEW x \in s.PortsWithErrors PROVE x \in Unasked(s) <=> x >= p
  <2>1. x \in Nat
    BY <1>4
  <2>2. x >= p => x >= s.CurrPort
    BY <1>4, <1>5, <2>1
  <2>3. x \in Unasked(s) => x >= p
    BY <1>3, <1>5, <2>1
  <2>4. QED
    BY <2>2, <2>3 DEF Unasked
<1>7. Unasked(s) \subseteq s.PortsWithErrors
  BY DEF Unasked
<1>8. Unasked(s) = {x \in s.PortsWithErrors : x >= p}
  BY <1>6, <1>7
<1>9. QED
  BY <1>1, <1>3, <1>5, <1>8

\* READ LOG EXT is sent to it, or fails at once.
LEMMA AskNextKeeps ==
  ASSUME NEW s, NEW l, Inv(s, l), l.pc = "ports", NEW p \in Nat, p \in InError(s),
         InError(s) = {x \in s.PortsWithErrors : x >= p},
         NEW u, u = Asked(s, p), NEW m, m = Returned(l)
  PROVE  /\ Outcome(s, [u EXCEPT !.pio = ReadLog], m, {})
         /\ Outcome(s, failReadLog(u), m, {})
<1>1. /\ Sensing(s) /\ s.state = "REQUEST_SENSE" /\ s.pio = NoTag
      /\ ReadLog \notin Elems(s.commandsQueue)
  BY PortsFacts
<1>2. p \in InError(s) /\ InError(s) = {x \in s.PortsWithErrors : x >= p}
  OBVIOUS
<1>3. s \in Channel /\ QInv(s) /\ Stopped(s)
  BY <1>1, SenseFacts
<1>4. m \in Locals /\ m.pc \in {"idle", "responses"}
      /\ (m.pc = "responses" \/ m.ret = "responses" => m.rspOutPtr = m.rspInPtr)
  BY ReturnFacts
<1>5. /\ <<ReadLog>> \o s.commandsQueue \in Seq(Listable)
      /\ Without(<<ReadLog>> \o s.commandsQueue, ReadLog) = s.commandsQueue
  <2>1. s.commandsQueue \in Seq(Listable) /\ NoDuplicates(s.commandsQueue) /\ ReadLog \in Listable
    BY <1>3 DEF Channel, QInv, QueueOK, ListOK, Listable
  <2>2. QED
    BY <1>1, <2>1, Push, UnlinkPushed
<1>6. /\ u \in Channel /\ SameSense(s, u) /\ u.CurrPort = p /\ u.state = s.state
      /\ u.commandsQueue = <<ReadLog>> \o s.commandsQueue
  BY <1>3, <1>5, AskedFields
<1>7. ASSUME NEW r, r = [u EXCEPT !.pio = ReadLog] PROVE Outcome(s, r, m, {})
  <2>1. r \in Channel /\ Runs(u, r, ReadLog)
    BY <1>6, <1>7, PioFields
  <2>2. /\ SameTags(s, r) /\ SameRings(s, r) /\ SameEngine(s, r) /\ r.erring = s.erring
        /\ r.PortsWithErrors = s.PortsWithErrors /\ r.queuedDMA = s.queuedDMA
        /\ r.phase = s.phase
    BY <1>6, <2>1
    DEF Runs, SameSense, SameQueue, SameList, SameTags, SameRings, SameEngine, SameErrors
  <2>3. /\ r.commandsQueue = <<ReadLog>> \o s.commandsQueue /\ r.state = "REQUEST_SENSE"
        /\ r.CurrPort = p /\ r.pio = ReadLog
    BY <1>1, <1>6, <2>1 DEF Runs, SameQueue, SameList, SameErrors
  <2>4. /\ QInv(r) /\ InEdma(r) = InEdma(s) /\ Held(r) = Held(s)
        /\ r.commandsQueue # <<>> /\ Head(r.commandsQueue) = ReadLog
        /\ ReadLog \in Elems(r.commandsQueue)
    BY <1>1, <1>3, <2>1, <2>2, <2>3, PushReadLog
  <2>5. r.EdmaActive = FALSE
    BY <1>3, <2>2 DEF Stopped, SameEngine
  <2>6. PioOK(r)
    BY <2>3, <2>4, <2>5, TagFacts DEF PioOK
  <2>7. InError(r) = InError(s)
    BY <2>2 DEF InError
  <2>8. InError(r) = {x \in r.PortsWithErrors : x >= r.CurrPort} /\ r.CurrPort \in InError(r)
    BY <1>2, <2>2, <2>3, <2>7
  <2>9. QED
    BY <1>1, <1>4, <2>2, <2>3, <2>4, <2>6, <2>8, AskStep
<1>8. ASSUME NEW r, r = failReadLog(u) PROVE Outcome(s, r, m, {})
  <2>0. Without(u.commandsQueue, ReadLog) = s.commandsQueue /\ s.commandsQueue \in Seq(Listable)
    BY <1>3, <1>5, <1>6 DEF Channel
  <2>1. /\ r \in Channel /\ SameSense(u, r) /\ r.CurrPort = u.CurrPort /\ r.state = u.state
        /\ r.commandsQueue = s.commandsQueue /\ r.pio = NoTag
    BY <1>6, <1>8, <2>0, LogFields
  <2>2. /\ SameTags(s, r) /\ SameRings(s, r) /\ SameEngine(s, r) /\ r.erring = s.erring
        /\ r.PortsWithErrors = s.PortsWithErrors /\ r.queuedDMA = s.queuedDMA
        /\ r.phase = s.phase
    BY <1>6, <2>1 DEF SameSense, SameTags, SameRings, SameEngine
  <2>3. SameQueue(s, r)
    BY <2>1, <2>2 DEF SameQueue, SameList, SameTags
  <2>4. QInv(r) /\ InEdma(r) = InEdma(s) /\ Held(r) = Held(s)
    BY <1>3, <2>1, <2>3, SameQueueKeeps
  <2>5. PioOK(r)
    BY <1>1, <2>1, TagFacts DEF PioOK
  <2>6. InError(r) = InError(s)
    BY <2>2 DEF InError
  <2>7. /\ InError(r) = {x \in r.PortsWithErrors : x >= r.CurrPort}
        /\ r.CurrPort \in InError(r) /\ r.state = "REQUEST_SENSE"
    BY <1>1, <1>2, <1>6, <2>1, <2>2, <2>6
  <2>8. QED
    BY <1>1, <1>4, <2>1, <2>2, <2>4, <2>5, <2>7, AskStep
<1>9. QED
  BY <1>7, <1>8

-----------------------------------------------------------------------------
(* handleDeviceInterrupt.                                                  *)

\* The locals of a routine that goes on with the ports, or with the list.
LEMMA TurnLocals ==
  /\ PioPorts \in Locals /\ PioPorts.pc = "ports" /\ PioPorts.ret = "idle"
  /\ [Idle EXCEPT !.pc = "insert"] \in Locals /\ [Idle EXCEPT !.pc = "insert"].pc = "insert"
  /\ [Idle EXCEPT !.pc = "insert"].ret = "idle"
<1>1. 0 \in Slots
  BY TagFacts DEF Slots
<1>2. QED
  BY <1>1 DEF PioPorts, Idle, Locals, Pcs

\* The drive that was busy is asked now.
NotBusy(s) == [s EXCEPT !.state = "REQUEST_SENSE", !.CurrPort = 0]

\* All the ports the driver knows to be in error are.
LEMMA NotBusyKeeps ==
  ASSUME NEW s, NEW l, Inv(s, l), s.state = "WAIT_FOR_BUSY", NEW r, r = NotBusy(s)
  PROVE  Outcome(s, r, PioPorts, {})
<1>1. Sensing(s)
  BY DEF Sensing
<1>2. s \in Channel /\ QInv(s) /\ PioOK(s) /\ InError(s) \subseteq s.PortsWithErrors
      /\ s.pio \in {NoTag, ReadLog}
  BY <1>1, SenseFacts
<1>3. InError(s) = s.PortsWithErrors
  BY <1>2 DEF Inv, Control, Recovery
<1>4. s.pio = NoTag
  BY <1>2 DEF PioOK
<1>5. r = [s EXCEPT !.state = "REQUEST_SENSE", !.CurrPort = 0]
  BY Zenon DEF NotBusy
<1>6. s \in Channel
  BY <1>2
<1>7. [s EXCEPT !.state = "REQUEST_SENSE", !.CurrPort = 0] \in Channel
  BY <1>6 DEF Channel, States
<1>8. r \in Channel
  BY <1>5, <1>7, Zenon
<1>9. r.state = "REQUEST_SENSE" /\ r.CurrPort = 0
  BY <1>5, <1>6 DEF Channel
<1>10. /\ SameQueue(s, r) /\ SameRings(s, r) /\ SameEngine(s, r) /\ SameMode(s, r)
       /\ r.erring = s.erring /\ r.PortsWithErrors = s.PortsWithErrors
  BY <1>5, <1>6 DEF Channel, SameQueue, SameList, SameRings, SameEngine, SameMode
<1>11. QInv(r) /\ InEdma(r) = InEdma(s) /\ Held(r) = Held(s)
  BY <1>2, <1>8, <1>10, SameQueueKeeps
<1>12. SameTags(s, r) /\ r.commandsQueue = s.commandsQueue /\ r.queuedDMA = s.queuedDMA
       /\ r.phase = s.phase /\ r.pio = NoTag
  BY <1>4, <1>10 DEF SameQueue, SameList, SameTags, SameMode
<1>13. PioOK(r)
  BY <1>2, <1>4, <1>12, TagFacts DEF PioOK
<1>14. InError(r) = {p \in r.PortsWithErrors : p >= r.CurrPort}
  <2>1. InError(r) = r.PortsWithErrors
    BY <1>3, <1>10 DEF InError
  <2>2. r.PortsWithErrors \subseteq Ports /\ Ports \subseteq Nat
    BY <1>8, TagFacts DEF Channel
  <2>3. \A p \in r.PortsWithErrors : p >= r.CurrPort
    <3>1. \A p \in r.PortsWithErrors : p \in Nat
      BY <2>2, Zenon
    <3>2. \A p \in Nat : p >= 0
      OBVIOUS
    <3>3. QED
      BY <1>9, <3>1, <3>2, Zenon
  <2>4. QED
    BY <2>1, <2>3
<1>15. QED
  BY <1>1, <1>9, <1>10, <1>11, <1>12, <1>13, <1>14, TurnLocals, AskStep

\* A PIO command of the upper layer is the head of the list, the engine is
\* stopped, nothing is in the EDMA and no recovery is under way.
AtHead(s, t) ==
  /\ s \in Channel /\ QInv(s) /\ Stopped(s) /\ s.state = "IDLE" /\ s.PortsWithErrors = {}
  /\ s.phase = "ready" /\ t \in Used(s) /\ InEdma(s) = {}
  /\ ReadLog \notin Elems(s.commandsQueue)
  /\ Native(s) => InError(s) = {}
  /\ "selfDisable" \in s.errorCause => ~Native(s)
  /\ "spurious" \notin Faults => s.saDevMask

\* So it is while the command runs.
LEMMA PioRuns ==
  ASSUME NEW s, NEW l, Inv(s, l), s.pio \in HostTags
  PROVE  AtHead(s, s.pio)
<1>1. /\ QInv(s) /\ RingsLive(s, l) /\ FailingOK(s, l) /\ Engine(s, l) /\ PioOK(s)
      /\ Recovery(s, l) /\ NotReady(s, l) /\ Heard(s, l) /\ s \in Channel
  BY DEF Inv, Control, QInv
<1>2. s.pio # NoTag /\ s.pio # ReadLog
  BY TagFacts
<1>3. /\ ~s.EdmaActive /\ s.commandsQueue # <<>> /\ s.pio = Head(s.commandsQueue)
      /\ s.entry[s.pio].type = "NONE_UDMA" /\ s.state = "IDLE"
      /\ ReadLog \notin Elems(s.commandsQueue)
  BY <1>1, <1>2 DEF PioOK
<1>4. HeadIsPIO(s)
  BY <1>3 DEF HeadIsPIO, IsPIO
<1>5. InEdma(s) = {} /\ s.pio \in Used(s)
  BY <1>1, <1>3, <1>4, HeadPio
<1>6. Live(s, l)
  BY <1>2 DEF Live
<1>7. Empty(s)
  BY <1>1, <1>3, <1>6 DEF RingsLive
<1>8. s.EdmaActive = FALSE /\ s.edmaEnabled = FALSE /\ s.executing = {}
  BY <1>1, <1>3 DEF Engine, Channel
<1>9. s.phase = "ready" /\ s.PortsWithErrors = {}
  BY <1>1, <1>2, <1>3 DEF NotReady, Recovery
<1>10. Native(s) => InError(s) = {}
  BY <1>1, <1>5, <1>6 DEF FailingOK, FailsOK, Failing, Loose
<1>11. "selfDisable" \in s.errorCause => ~Native(s)
  BY <1>1 DEF Engine
<1>12. "spurious" \notin Faults => s.saDevMask
  BY <1>1, <1>3, <1>6 DEF Heard
<1>13. QED
  BY <1>1, <1>3, <1>5, <1>7, <1>8, <1>9, <1>10, <1>11, <1>12 DEF Stopped, AtHead

\* And before it is sent, when a drive interrupts late: with the interrupt
\* unmasked the EDMA has nothing left to do, and in the request sense state a
\* command that failed would lead the list.
LEMMA LateFacts ==
  ASSUME NEW s, NEW l, Inv(s, l), l.pc = "idle", s.saDevMask, s.pio = NoTag,
         s.state # "WAIT_FOR_BUSY", HeadIsPIO(s), NEW t, t = Head(s.commandsQueue)
  PROVE  AtHead(s, t)
<1>1. /\ QInv(s) /\ Engine(s, l) /\ PioOK(s) /\ Recovery(s, l) /\ NotReady(s, l)
      /\ Owner(s) /\ s \in Channel
  BY DEF Inv, Control, QInv
<1>2. ReadLog \notin Elems(s.commandsQueue)
  BY <1>1, TagFacts DEF PioOK
<1>3. InEdma(s) = {} /\ t \in Used(s)
  BY <1>1, <1>2, HeadPio
<1>4. ~s.EdmaActive /\ Empty(s) /\ s.state # "WAIT_FOR_COMPLETIONS"
  BY <1>1 DEF Owner
<1>5. s.state # "REQUEST_SENSE"
  <2>1. SUFFICES ASSUME s.state = "REQUEST_SENSE" PROVE FALSE
    OBVIOUS
  <2>2. s.CurrPort \in InError(s)
    BY <1>1, <2>1 DEF Recovery
  <2>3. FailsOK(s)
    BY <2>1, SenseFacts DEF Sensing
  <2>4. QED
    BY <1>3, <2>2, <2>3 DEF FailsOK, Failing, Loose
<1>6. s.state = "IDLE"
  BY <1>1, <1>4, <1>5 DEF Channel, States
<1>7. s.PortsWithErrors = {} /\ (Native(s) => InError(s) = {})
  BY <1>1, <1>6 DEF Recovery, Owner
<1>8. s.phase = "ready"
  BY <1>1 DEF NotReady, HeadIsPIO
<1>9. Stopped(s)
  BY <1>1, <1>4 DEF Engine, Channel, Stopped
<1>10. "selfDisable" \in s.errorCause => ~Native(s)
  BY <1>1 DEF Engine
<1>11. QED
  BY <1>1, <1>2, <1>3, <1>6, <1>7, <1>8, <1>9, <1>10 DEF AtHead

\* It is done.
PioDone(s, t) == [removeCommand(s, t) EXCEPT !.pio = NoTag]

\* The command is called back and what stood behind it is about to be inserted.
LEMMA PioDoneKeeps ==
  ASSUME NEW s, NEW l, Inv(s, l), NEW t, AtHead(s, t), NEW r, r = PioDone(s, t),
         NEW m, m = [Idle EXCEPT !.pc = "insert"]
  PROVE  Outcome(s, r, m, {s.entry[t].cmd})
<1>1. /\ s \in Channel /\ QInv(s) /\ Stopped(s) /\ s.state = "IDLE" /\ s.PortsWithErrors = {}
      /\ s.phase = "ready" /\ t \in Used(s) /\ InEdma(s) = {}
      /\ ReadLog \notin Elems(s.commandsQueue)
      /\ Native(s) => InError(s) = {}
      /\ "selfDisable" \in s.errorCause => ~Native(s)
      /\ "spurious" \notin Faults => s.saDevMask
  BY DEF AtHead
<1>2. PICK u, c : u = removeCommand(s, t) /\ c = s.entry[t].cmd
  OBVIOUS
<1>3. /\ QInv(u) /\ SameRest(s, u) /\ Held(u) = Held(s) \ {c} /\ c \in Held(s)
      /\ InEdma(u) = InEdma(s) \ {t} /\ u.commandsQueue = Without(s.commandsQueue, t)
      /\ \A v \in HostTags \ {t} : u.entry[v] = s.entry[v]
  BY <1>1, <1>2, RemoveKeeps
<1>4. ReadLog \notin Elems(u.commandsQueue)
  BY <1>1, <1>3, RemovedList
<1>5. r = [u EXCEPT !.pio = NoTag]
  BY <1>2, Zenon DEF PioDone
<1>6. r \in Channel /\ Runs(u, r, NoTag)
  <2>1. u \in Channel /\ NoTag \in Tags \cup {ReadLog}
    BY <1>3 DEF QInv, Tags
  <2>2. QED
    BY <1>5, <2>1, PioFields
<1>7. /\ SameQueue(u, r) /\ r.commandsQueue = u.commandsQueue /\ r.pio = NoTag
      /\ SameErrors(s, r) /\ SameEngine(s, r) /\ SameRings(s, r)
      /\ r.queuedDMA = s.queuedDMA /\ r.phase = s.phase
  BY <1>3, <1>6 DEF Runs, SameRest, SameQueue, SameList, SameErrors, SameEngine, SameRings, SameMode
<1>8. QInv(r) /\ Held(r) = Held(s) \ {c} /\ InEdma(r) = {}
  BY <1>1, <1>3, <1>6, <1>7, SameQueueKeeps
<1>9. /\ Stopped(r) /\ r.state = "IDLE" /\ r.PortsWithErrors = {} /\ r.phase = "ready"
      /\ Native(r) => InError(r) = {}
      /\ "selfDisable" \in r.errorCause => ~Native(r)
  BY <1>1, <1>7 DEF Stopped, Empty, SameErrors, SameEngine, SameRings, Native, InError
<1>10. "spurious" \notin Faults => r.saDevMask
  <2>1. r.saDevMask = s.saDevMask
    BY <1>7 DEF SameEngine
  <2>2. QED
    BY <1>1, <2>1, Zenon
<1>11. m \in Locals /\ m.pc = "insert" /\ m.ret = "idle"
  BY TurnLocals
<1>12. FailingOK(r, m)
  BY <1>8, <1>9, NothingFails
<1>13. Inserted(r, m) /\ Reads(r, m) /\ Heard(r, m)
  BY <1>10, <1>11 DEF Inserted, Reads, Heard
<1>14. PioOK(r)
  BY <1>4, <1>7, TagFacts DEF PioOK
<1>15. Recovery(r, m)
  <2>1. r.EdmaActive = FALSE
    BY <1>9 DEF Stopped
  <2>2. QED
    BY <1>9, <1>11, <2>1 DEF Recovery, Sensing
<1>16. Inv(r, m)
  BY <1>8, <1>9, <1>11, <1>12, <1>13, <1>14, <1>15, StoppedKeeps
<1>17. Served(s, r, {c})
  BY <1>1, <1>3, <1>7, <1>8, ServedOne
<1>18. KeepsRing(s, r)
  BY <1>1 DEF KeepsRing
<1>19. QED
  BY <1>2, <1>16, <1>17, <1>18 DEF Outcome

\* READ LOG EXT runs, in the request sense state and for the current port.
LEMMA LogRuns ==
  ASSUME NEW s, NEW l, Inv(s, l), l.pc = "idle", s.pio = ReadLog
  PROVE  /\ s.state = "REQUEST_SENSE" /\ Sensing(s) /\ s.CurrPort \in InError(s)
         /\ InError(s) = {p \in s.PortsWithErrors : p >= s.CurrPort}
<1>1. PioOK(s) /\ Recovery(s, l)
  BY DEF Inv, Control
<1>2. s.state = "REQUEST_SENSE"
  BY <1>1 DEF PioOK
<1>3. QED
  BY <1>1, <1>2 DEF Recovery, Sensing

\* It fails, or its log does not parse.
LEMMA LogDoneKeeps ==
  ASSUME NEW s, NEW l, Inv(s, l), l.pc = "idle", s.pio = ReadLog,
         NEW r, r = LogDone(s) \/ r = failReadLog(s)
  PROVE  /\ Outcome(s, r, l, {}) /\ SameSense(s, r) /\ r.CurrPort = s.CurrPort
         /\ r.state = s.state /\ r.pio = NoTag /\ Held(r) = Held(s)
         /\ ReadLog \notin Elems(r.commandsQueue)
<1>1. /\ s.state = "REQUEST_SENSE" /\ Sensing(s) /\ s.CurrPort \in InError(s)
      /\ InError(s) = {p \in s.PortsWithErrors : p >= s.CurrPort}
  BY LogRuns
<1>2. s \in Channel /\ QInv(s) /\ PioOK(s) /\ l \in Locals /\ Stopped(s)
  BY <1>1, SenseFacts
<1>3. Without(s.commandsQueue, ReadLog) \in Seq(Listable)
  <2>1. ReadLog \in Elems(s.commandsQueue)
    BY <1>2 DEF PioOK
  <2>2. s.commandsQueue \in Seq(Listable) /\ NoDuplicates(s.commandsQueue)
    BY <1>2 DEF Channel, QInv, QueueOK, ListOK
  <2>3. QED
    BY <2>1, <2>2, Unlink
<1>4. /\ r \in Channel /\ SameSense(s, r) /\ r.CurrPort = s.CurrPort /\ r.state = s.state
      /\ r.commandsQueue = Without(s.commandsQueue, ReadLog) /\ r.pio = NoTag
  BY <1>2, <1>3, LogFields
<1>5. /\ SameTags(s, r) /\ SameRings(s, r) /\ SameEngine(s, r) /\ r.erring = s.erring
      /\ r.PortsWithErrors = s.PortsWithErrors /\ r.queuedDMA = s.queuedDMA
      /\ r.phase = s.phase
  BY <1>4 DEF SameSense
<1>6. /\ QInv(r) /\ InEdma(r) = InEdma(s) /\ Held(r) = Held(s)
      /\ ReadLog \notin Elems(r.commandsQueue)
  BY <1>2, <1>4, <1>5, DropReadLog
<1>7. PioOK(r)
  BY <1>4, <1>6, TagFacts DEF PioOK
<1>8. InError(r) = InError(s)
  BY <1>5 DEF InError
<1>9. InError(r) = {p \in r.PortsWithErrors : p >= r.CurrPort} /\ r.CurrPort \in InError(r)
  BY <1>1, <1>4, <1>5, <1>8
<1>10. l.pc # "insert" /\ l.pc # "ports" /\ r.state = "REQUEST_SENSE"
  BY <1>1, <1>4
<1>11. QED
  BY <1>1, <1>2, <1>4, <1>5, <1>6, <1>7, <1>9, <1>10, AskStep

\* parseReadLogExtOutPut: the failed command leaves the queue and its port is no
\* longer in error.
Named(s, t) ==
  [removeCommand(s, t) EXCEPT !.erring[s.CurrPort] = NoTag, !.CurrPort = s.CurrPort + 1]

\* What that changes besides the queue.
LEMMA NamedFields ==
  ASSUME NEW u \in Channel, NEW p \in Ports, NEW r,
         r = [u EXCEPT !.erring[p] = NoTag, !.CurrPort = p + 1]
  PROVE  /\ r \in Channel /\ SameQueue(u, r) /\ SameRings(u, r) /\ SameEngine(u, r)
         /\ SameMode(u, r) /\ r.state = u.state /\ r.PortsWithErrors = u.PortsWithErrors
         /\ r.erring = [u.erring EXCEPT ![p] = NoTag] /\ r.CurrPort = p + 1
<1>1. p + 1 \in Nat
  BY TagFacts
<1>2. PICK n \in Nat : n = p + 1
  BY <1>1
<1>3. PICK e \in [Ports -> DeviceTags \cup {NoTag}] : e = [u.erring EXCEPT ![p] = NoTag]
  <2>1. [u.erring EXCEPT ![p] = NoTag] \in [Ports -> DeviceTags \cup {NoTag}]
    BY DEF Channel
  <2>2. QED
    BY <2>1
<1>4. r = [u EXCEPT !.erring = e, !.CurrPort = n]
  BY <1>2, <1>3, Zenon
<1>5. [u EXCEPT !.erring = e, !.CurrPort = n] \in Channel
  BY DEF Channel
<1>6. r \in Channel
  BY <1>4, <1>5, Zenon
<1>7. r.erring = e /\ r.CurrPort = n
  BY <1>4 DEF Channel
<1>8. /\ SameQueue(u, r) /\ SameRings(u, r) /\ SameEngine(u, r) /\ SameMode(u, r)
      /\ r.state = u.state /\ r.PortsWithErrors = u.PortsWithErrors
  BY <1>4 DEF Channel, SameQueue, SameList, SameRings, SameEngine, SameMode
<1>9. QED
  BY <1>2, <1>3, <1>6, <1>7, <1>8

\* The failed command of one port leaves, those of the others stay.
LEMMA FailsShrink ==
  ASSUME NEW u, NEW r, NEW t, NEW p, FailsOK(u), AbortsOK(u), Stopped(r), r \in Channel,
         InEdma(r) = InEdma(u) \ {t}, u.entry[t].PMPort = p, p \notin InError(r),
         InError(r) \subseteq InError(u), \A x \in InError(r) : r.erring[x] = u.erring[x],
         r.PortsWithErrors = u.PortsWithErrors,
         \A v \in HostTags \ {t} : r.entry[v] = u.entry[v], InEdma(u) \subseteq HostTags
  PROVE  FailsOK(r) /\ AbortsOK(r)
<1>1. Empty(r) /\ r.executing = {}
  BY DEF Stopped
<1>2. \A i \in Slots : ~Request(r, i) /\ ~Responded(r, i)
  BY <1>1, RingsEmpty
<1>3. ASSUME NEW x \in InError(r) PROVE Failing(r, x)
  <2>1. PICK v \in HostTags : /\ Loose(u, v) /\ u.entry[v].PMPort = x
                              /\ u.entry[v].deviceTag = u.erring[x]
    BY <1>3 DEF FailsOK, Failing
  <2>2. v # t
    BY <1>3, <2>1
  <2>3. r.entry[v] = u.entry[v] /\ v \in InEdma(r)
    BY <2>1, <2>2 DEF Loose
  <2>4. Loose(r, v)
    BY <1>1, <1>2, <2>3 DEF Loose
  <2>5. r.entry[v].deviceTag = r.erring[x] /\ r.entry[v].PMPort = x
    BY <1>3, <2>1, <2>3
  <2>6. QED
    BY <2>4, <2>5 DEF Failing
<1>4. FailsOK(r)
  BY <1>3 DEF FailsOK
<1>5. ASSUME NEW v \in InEdma(r), r.entry[v].commandAborted
      PROVE  r.entry[v].PMPort \in r.PortsWithErrors
  <2>1. v \in InEdma(u) /\ v \in HostTags \ {t}
    BY <1>5
  <2>2. r.entry[v] = u.entry[v]
    BY <2>1
  <2>3. u.entry[v].commandAborted
    BY <1>5, <2>2, Zenon
  <2>4. u.entry[v].PMPort \in u.PortsWithErrors
    BY <2>1, <2>3 DEF AbortsOK
  <2>5. QED
    BY <2>2, <2>4
<1>6. QED
  BY <1>4, <1>5 DEF AbortsOK

\* The command the drive names is called back; the next port is asked.
LEMMA LogNamesKeeps ==
  ASSUME NEW s, NEW l, Inv(s, l), l.pc = "idle", s.pio = ReadLog, NEW u, u = LogDone(s),
         NEW t \in HostTagsByDeviceTag(u, s.erring[s.CurrPort], s.CurrPort),
         NEW r, r = Named(u, t)
  PROVE  Outcome(s, r, PioPorts, {u.entry[t].cmd})
<1>1. /\ Outcome(s, u, l, {}) /\ SameSense(s, u) /\ u.CurrPort = s.CurrPort
      /\ u.state = s.state /\ u.pio = NoTag /\ Held(u) = Held(s)
      /\ ReadLog \notin Elems(u.commandsQueue)
  BY LogDoneKeeps
<1>2. s.state = "REQUEST_SENSE" /\ QInv(s)
  BY LogRuns DEF Inv
<1>3. Inv(u, l) /\ u.state = "REQUEST_SENSE" /\ Sensing(u) /\ u.phase = s.phase
      /\ u.erring = s.erring
  BY <1>1, <1>2 DEF Outcome, Sensing, SameSense
<1>4. /\ u \in Channel /\ QInv(u) /\ Stopped(u) /\ Native(u) /\ u.phase = "ready" /\ FailsOK(u)
      /\ AbortsOK(u) /\ "selfDisable" \notin u.errorCause
      /\ "spurious" \notin Faults => u.saDevMask
  BY <1>3, SenseFacts
<1>5. PICK p : p = u.CurrPort
  OBVIOUS
<1>6. p \in InError(u) /\ InError(u) = {x \in u.PortsWithErrors : x >= p} /\ p \in Ports
  BY <1>3, <1>5 DEF Inv, Control, Recovery, InError
<1>7. t \in InEdma(u) /\ t \in Used(u) /\ u.entry[t].PMPort = p
  <2>1. t \in LeadingInEdma(u) /\ u.entry[t].PMPort = p
    BY <1>1, <1>5 DEF HostTagsByDeviceTag
  <2>2. QED
    BY <1>4, <2>1, LeadingFacts, UsedFacts
<1>8. PICK v, c : v = removeCommand(u, t) /\ c = u.entry[t].cmd
  OBVIOUS
<1>9. /\ QInv(v) /\ SameRest(u, v) /\ Held(v) = Held(u) \ {c} /\ c \in Held(u)
      /\ InEdma(v) = InEdma(u) \ {t} /\ v.commandsQueue = Without(u.commandsQueue, t)
      /\ \A w \in HostTags \ {t} : v.entry[w] = u.entry[w]
  BY <1>4, <1>7, <1>8, RemoveKeeps
<1>10. ReadLog \notin Elems(v.commandsQueue)
  BY <1>1, <1>4, <1>7, <1>9, RemovedList
<1>11. r = [v EXCEPT !.erring[p] = NoTag, !.CurrPort = p + 1]
  BY <1>5, <1>8, Zenon DEF Named
<1>12. v \in Channel
  BY <1>9 DEF QInv
<1>13. /\ r \in Channel /\ SameQueue(v, r) /\ SameRings(v, r) /\ SameEngine(v, r)
       /\ SameMode(v, r) /\ r.state = v.state /\ r.PortsWithErrors = v.PortsWithErrors
       /\ r.erring = [v.erring EXCEPT ![p] = NoTag] /\ r.CurrPort = p + 1
  BY <1>6, <1>11, <1>12, NamedFields
<1>14. QInv(r) /\ Held(r) = Held(u) \ {c} /\ InEdma(r) = InEdma(u) \ {t}
  BY <1>9, <1>13, SameQueueKeeps
<1>15. /\ SameRings(u, r) /\ SameEngine(u, r) /\ SameMode(u, r) /\ r.state = "REQUEST_SENSE"
       /\ r.PortsWithErrors = u.PortsWithErrors
  BY <1>3, <1>9, <1>13 DEF SameRest, SameRings, SameEngine, SameMode, SameErrors
<1>16. r.entry = v.entry /\ r.commandsQueue = v.commandsQueue /\ v.erring = u.erring
  BY <1>9, <1>13 DEF SameQueue, SameList, SameRest, SameErrors
<1>17. /\ Stopped(r) /\ Native(r) /\ r.phase = "ready" /\ r.pio = NoTag
       /\ "selfDisable" \notin r.errorCause
  BY <1>1, <1>4, <1>15 DEF Stopped, Empty, SameRings, SameEngine, SameMode, Native
<1>18. "spurious" \notin Faults => r.saDevMask
  <2>1. r.saDevMask = u.saDevMask
    BY <1>15 DEF SameEngine
  <2>2. QED
    BY <1>4, <2>1, Zenon
<1>19. \A x \in Ports : r.erring[x] = IF x = p THEN NoTag ELSE u.erring[x]
  <2>1. u.erring \in [Ports -> DeviceTags \cup {NoTag}]
    BY <1>4 DEF Channel
  <2>2. QED
    BY <1>6, <1>13, <1>16, <2>1
<1>20. InError(r) = InError(u) \ {p}
  BY <1>19 DEF InError
<1>21. InError(r) = {x \in r.PortsWithErrors : x >= r.CurrPort}
  <2>1. u.PortsWithErrors \subseteq Ports /\ Ports \subseteq Nat
    BY <1>4, TagFacts DEF Channel
  <2>2. \A x \in u.PortsWithErrors : x \in Nat
    BY <2>1, Zenon
  <2>3. p \in Nat
    BY <1>6, <2>1, Zenon
  <2>4. \A x \in Nat : x >= p + 1 <=> x >= p /\ x # p
    BY <2>3
  <2>5. {x \in u.PortsWithErrors : x >= p} \ {p} = {x \in u.PortsWithErrors : x >= p + 1}
    BY <2>2, <2>4, Zenon
  <2>6. QED
    BY <1>6, <1>13, <1>15, <1>20, <2>5
<1>22. FailsOK(r) /\ AbortsOK(r)
  <2>1. p \notin InError(r) /\ InError(r) \subseteq InError(u)
    BY <1>20
  <2>2. \A x \in InError(r) : r.erring[x] = u.erring[x]
    BY <1>19, <2>1 DEF InError
  <2>3. \A w \in HostTags \ {t} : r.entry[w] = u.entry[w]
    BY <1>9, <1>16
  <2>4. InEdma(u) \subseteq HostTags
    BY <1>4, RingTypes
  <2>5. /\ FailsOK(u) /\ AbortsOK(u) /\ Stopped(r) /\ r \in Channel
        /\ InEdma(r) = InEdma(u) \ {t} /\ u.entry[t].PMPort = p
        /\ r.PortsWithErrors = u.PortsWithErrors
    BY <1>4, <1>7, <1>13, <1>14, <1>15, <1>17
  <2>6. QED
    BY <2>1, <2>2, <2>3, <2>4, <2>5, FailsShrink
<1>23. ReadLog \notin Elems(r.commandsQueue)
  BY <1>10, <1>16
<1>24. PioOK(r)
  BY <1>17, <1>23, TagFacts DEF PioOK
<1>25. Inv(r, PioPorts)
  BY <1>14, <1>15, <1>17, <1>18, <1>21, <1>22, <1>24, TurnLocals, AskKeeps
<1>26. Served(s, r, {c})
  BY <1>1, <1>2, <1>3, <1>4, <1>9, <1>14, <1>17, ServedOne
<1>27. QED
  BY <1>8, <1>23, <1>25, <1>26 DEF Outcome, KeepsRing

\* A spurious interrupt is masked.
LEMMA SpuriousKeeps ==
  ASSUME NEW s, NEW l, Inv(s, l), "spurious" \in Faults, NEW r, r = [s EXCEPT !.saDevMask = FALSE]
  PROVE  Outcome(s, r, l, {})
<1>1. /\ QInv(s) /\ l \in Locals /\ Inserted(s, l) /\ RingsLive(s, l) /\ FailingOK(s, l)
      /\ Engine(s, l) /\ Reads(s, l) /\ Announced(s, l) /\ PioOK(s) /\ Recovery(s, l)
      /\ NotReady(s, l) /\ s \in Channel
  BY DEF Inv, Control, QInv
<1>2. /\ r \in Channel /\ SameQueue(s, r) /\ SameRings(s, r) /\ SameErrors(s, r)
      /\ SameMode(s, r) /\ r.EdmaActive = s.EdmaActive /\ r.edmaEnabled = s.edmaEnabled
      /\ r.executing = s.executing /\ r.errorCause = s.errorCause
      /\ r.responseDone = s.responseDone /\ ~r.saDevMask
  <2>1. s \in Channel
    BY <1>1
  <2>2. [s EXCEPT !.saDevMask = FALSE] \in Channel
    BY <2>1 DEF Channel
  <2>3. r \in Channel
    BY <2>2, Zenon
  <2>4. QED
    BY <2>1, <2>3, ZenonT(60) DEF Channel, SameQueue, SameList, SameRings, SameErrors, SameMode
<1>3. /\ QInv(r) /\ Used(r) = Used(s) /\ InEdma(r) = InEdma(s) /\ Held(r) = Held(s)
      /\ Rings(s) => Rings(r)
      /\ Rings(s) /\ FailsOK(s) => FailsOK(r)
      /\ AbortsOK(s) => AbortsOK(r)
      /\ AllInserted(s) => AllInserted(r)
      /\ Empty(r) <=> Empty(s)
      /\ InError(r) = InError(s)
  BY <1>1, <1>2, FrameKeeps DEF SameErrors
<1>4. /\ r.state = s.state /\ r.PortsWithErrors = s.PortsWithErrors /\ r.CurrPort = s.CurrPort
      /\ r.queueCommandsEnabled = s.queueCommandsEnabled /\ r.queuedDMA = s.queuedDMA
      /\ r.pio = s.pio /\ r.phase = s.phase /\ r.commandsQueue = s.commandsQueue
      /\ r.entry = s.entry /\ r.rspInPtr = s.rspInPtr /\ r.rspOutPtr = s.rspOutPtr
      /\ r.responseQueue = s.responseQueue
  BY <1>2 DEF SameErrors, SameMode, SameQueue, SameList, SameRings
<1>5. (Live(r, l) <=> Live(s, l)) /\ (Native(r) <=> Native(s)) /\ (Sensing(r) <=> Sensing(s))
  BY <1>2, <1>4 DEF Live, Native, Sensing
<1>6. Inserted(r, l) /\ RingsLive(r, l)
  BY <1>1, <1>2, <1>3, <1>4, <1>5 DEF Inserted, RingsLive
<1>7. FailingOK(r, l)
  BY <1>1, <1>3, <1>5, <1>6 DEF FailingOK, RingsLive
<1>8. Engine(r, l) /\ Reads(r, l) /\ Announced(r, l)
  <2>1. \A i \in Slots : Responded(r, i) <=> Responded(s, i)
    BY <1>4 DEF Responded
  <2>2. QED
    BY <1>1, <1>2, <1>4, <1>5, <2>1 DEF Engine, Reads, Announced
<1>9. PioOK(r)
  BY <1>1, <1>2, <1>4 DEF PioOK
<1>10. Recovery(r, l)
  BY <1>1, <1>2, <1>3, <1>4, <1>5 DEF Recovery
<1>11. NotReady(r, l) /\ Heard(r, l) /\ Owner(r)
  BY <1>1, <1>2, <1>3, <1>4 DEF NotReady, Heard, Owner
<1>12. Inv(r, l)
  BY <1>1, <1>3, <1>6, <1>7, <1>8, <1>9, <1>10, <1>11 DEF Inv, Control
<1>13. QED
  BY <1>2, <1>3, <1>4, <1>12, ServedNone DEF Outcome, KeepsRing, SameRings

-----------------------------------------------------------------------------
(* The actions.                                                            *)

\* A step that calls back commands.
Serves ==
  \E called : /\ Outcome(ch, ch', isr', called)
              /\ \/ lives' = [c \in Cmds |-> lives[c] - One(c \in called)]
                 \/ called = {} /\ lives' = lives

\* A step that accepts a command.
Accepts ==
  \E c \in Cmds : /\ Accepted(ch, ch', isr', c) /\ lives[c] = 0
                  /\ lives' = [lives EXCEPT ![c] = 1]

\* The driver holds what it owes.
Owes == lives \in [Cmds -> {0, 1}] /\ OwesWhatItHolds

IInv == Inv(ch, isr) /\ Owes

\* A step of the driver.
LEMMA StepServes ==
  ASSUME NEW x, NEW k, NEW m, Step(x, k, m), Outcome(ch, x, m, k)
  PROVE  Serves
BY DEF Step, Serves

\* A step of the hardware.
LEMMA HardwareServes ==
  ASSUME NEW x, Hardware(x), Outcome(ch, x, isr, {})
  PROVE  Serves
BY DEF Hardware, Serves

\* The caller of mvSataQueueCommand hands over a command the driver does not
\* hold.
LEMMA CanQueueFacts ==
  ASSUME IInv, NEW c \in Cmds, NEW p \in Ports, CanQueue(c, p)
  PROVE  MayQueue(ch, isr, c, p) /\ lives[c] = 0
<1>1. c \notin Held(ch)
  BY DEF IInv, Owes, OwesWhatItHolds, Owed, CanQueue
<1>2. QED
  BY <1>1 DEF IInv, CanQueue, Ready, isEmpty, MayQueue

\* mvSataQueueCommand accepts the command.
LEMMA AcceptAccepts ==
  ASSUME NEW c \in Cmds, NEW x, Accept(x, c), Accepted(ch, x, isr, c), lives[c] = 0
  PROVE  Accepts
BY DEF Accept, Accepts

\* mvSataQueueCommand for a UDMA command.
LEMMA QueueUdmaAccepts ==
  ASSUME IInv, NEW c \in Cmds, NEW p \in Ports, QueueUdma(c, p)
  PROVE  Accepts
<1>1. MayQueue(ch, isr, c, p) /\ lives[c] = 0
  BY CanQueueFacts DEF QueueUdma
<1>2. CASE ch.noneUdmaOutstandingCommands = 0 /\ ch.state = "IDLE"
  <2>1. PICK u : u = IF ch.EdmaActive THEN ch ELSE activateEdma(ch)
    OBVIOUS
  <2>2. PICK r : r = EdmaReqQueueInsert(addCommand(u, c, "UDMA", p), Head(ch.HostTagsPool))
    OBVIOUS
  <2>3. Accepted(ch, r, isr, c)
    BY <1>1, <1>2, <2>1, <2>2, QueueInsertKeeps
  <2>4. Accept(r, c)
    BY <1>2, <2>1, <2>2 DEF QueueUdma
  <2>5. QED
    BY <1>1, <2>3, <2>4, AcceptAccepts
<1>3. CASE ~(ch.noneUdmaOutstandingCommands = 0 /\ ch.state = "IDLE")
  <2>1. PICK r : r = addCommand(ch, c, "UDMA", p)
    OBVIOUS
  <2>2. Accepted(ch, r, isr, c)
    BY <1>1, <1>3, <2>1, AddOnlyKeeps
  <2>3. Accept(r, c)
    BY <1>3, <2>1 DEF QueueUdma
  <2>4. QED
    BY <1>1, <2>2, <2>3, AcceptAccepts
<1>4. QED
  BY <1>2, <1>3

\* mvSataQueueCommand for a PIO command: accepted, or refused with no trace left.
LEMMA QueueNoneUdmaAccepts ==
  ASSUME IInv, NEW c \in Cmds, NEW p \in Ports, QueueNoneUdma(c, p)
  PROVE  Accepts \/ Serves
<1>1. MayQueue(ch, isr, c, p) /\ lives[c] = 0
  BY CanQueueFacts DEF QueueNoneUdma
<1>2. PICK a : a = addCommand(ch, c, "NONE_UDMA", p)
  OBVIOUS
<1>3. PICK u : u = IF a.EdmaActive THEN deactivateEdma(a) ELSE a
  OBVIOUS
<1>4. PICK t : t = Head(ch.HostTagsPool)
  OBVIOUS
<1>5. \/ a.outstandingCommands # 1 /\ Accept(a, c)
      \/ /\ a.outstandingCommands = 1
         /\ \/ Accept([u EXCEPT !.pio = t], c)
            \/ Step(removeCommand(u, t), {}, isr)
  BY <1>2, <1>3, <1>4 DEF QueueNoneUdma
<1>6. CASE a.outstandingCommands # 1 /\ Accept(a, c)
  <2>1. Accepted(ch, a, isr, c)
    BY <1>1, <1>2, AddOnlyKeeps
  <2>2. QED
    BY <1>1, <1>6, <2>1, AcceptAccepts
<1>7. CASE a.outstandingCommands = 1 /\ Accept([u EXCEPT !.pio = t], c)
  <2>1. PICK r : r = [u EXCEPT !.pio = t]
    OBVIOUS
  <2>2. Accepted(ch, r, isr, c)
    BY <1>1, <1>2, <1>3, <1>4, <1>7, <2>1, QueueAloneKeeps
  <2>3. QED
    BY <1>1, <1>7, <2>1, <2>2, AcceptAccepts
<1>8. CASE a.outstandingCommands = 1 /\ Step(removeCommand(u, t), {}, isr)
  <2>1. PICK r : r = removeCommand(u, t)
    OBVIOUS
  <2>2. Outcome(ch, r, isr, {})
    BY <1>1, <1>2, <1>3, <1>4, <1>8, <2>1, QueueRefusedKeeps
  <2>3. QED
    BY <1>8, <2>1, <2>2, StepServes
<1>9. QED
  BY <1>5, <1>6, <1>7, <1>8

\* The IAL gives the channel up.
LEMMA RestartChannelServes ==
  ASSUME IInv, RestartChannel
  PROVE  Serves
<1>1. ch \in Channel /\ isr \in Locals /\ Inv(ch, isr) /\ isr.pc = "idle" /\ Engine(ch, isr)
  BY DEF IInv, Inv, QInv, Control, RestartChannel
<1>2. PICK r : r = restartChannel(ch)
  OBVIOUS
<1>3. "selfDisable" \in ch.errorCause => ~Native(ch)
  BY <1>1 DEF Engine
<1>4. Outcome(ch, r.ch, isr, r.called)
  BY <1>1, <1>2, <1>3, RestartKeeps
<1>5. Step(r.ch, r.called, isr)
  BY <1>2 DEF RestartChannel
<1>6. QED
  BY <1>4, <1>5, StepServes

\* The IAL configures it again.
LEMMA ConfigureChannelServes ==
  ASSUME IInv, ConfigureChannel
  PROVE  Serves
<1>1. PICK r : r = Configured(ch)
  OBVIOUS
<1>2. Outcome(ch, r, isr, {})
  BY <1>1, ConfigureKeeps DEF IInv, ConfigureChannel
<1>3. Step(r, {}, isr)
  BY <1>1 DEF ConfigureChannel, Configured
<1>4. QED
  BY <1>2, <1>3, StepServes

\* The IAL enables it.
LEMMA EnableChannelDmaServes ==
  ASSUME IInv, EnableChannelDma
  PROVE  Serves
<1>1. PICK mode \in Modes : Step(Enabled(ch, mode), {}, isr)
  BY DEF EnableChannelDma, Enabled
<1>2. PICK r : r = Enabled(ch, mode)
  OBVIOUS
<1>3. Outcome(ch, r, isr, {})
  BY <1>2, EnableKeeps DEF IInv, EnableChannelDma
<1>4. QED
  BY <1>1, <1>2, <1>3, StepServes

\* The causes are read, then the pointer, then the responses up to the end.
LEMMA IsrReadsServe ==
  ASSUME IInv, IsrClears \/ IsrReadsPointer \/ IsrResponsesDone
  PROVE  Serves
<1>1. CASE IsrClears
  <2>1. PICK r, m : /\ r = [ch EXCEPT !.responseDone = FALSE]
                    /\ m = [Idle EXCEPT !.pc = IF ch.responseDone THEN "cleared" ELSE "error",
                                        !.edmaError = ch.errorCause # {}]
    OBVIOUS
  <2>2. Outcome(ch, r, m, {})
    BY <1>1, <2>1, ClearsKeeps DEF IInv, IsrClears
  <2>3. Step(r, {}, m)
    BY <1>1, <2>1 DEF IsrClears
  <2>4. QED
    BY <2>2, <2>3, StepServes
<1>2. CASE IsrReadsPointer
  <2>1. PICK m : m = [isr EXCEPT !.pc = "responses", !.rspInPtr = ch.rspInPtr,
                                 !.rspOutPtr = ch.rspOutPtr]
    OBVIOUS
  <2>2. Outcome(ch, ch, m, {})
    BY <1>2, <2>1, ReadsKeeps DEF IInv, IsrReadsPointer
  <2>3. Step(ch, {}, m)
    BY <1>2, <2>1 DEF IsrReadsPointer
  <2>4. QED
    BY <2>2, <2>3, StepServes
<1>3. CASE IsrResponsesDone
  <2>1. PICK m : m = IF isr.edmaError \/ ~ch.queueCommandsEnabled
                     THEN [Idle EXCEPT !.pc = "error"] ELSE Idle
    OBVIOUS
  <2>2. m \in {Idle, [Idle EXCEPT !.pc = "error"]}
    BY <2>1
  <2>3. Outcome(ch, ch, m, {})
    BY <1>3, <2>2, EndsKeeps DEF IInv, IsrResponsesDone
  <2>4. Step(ch, {}, m)
    BY <1>3, <2>1 DEF IsrResponsesDone
  <2>5. QED
    BY <2>3, <2>4, StepServes
<1>4. QED
  BY <1>1, <1>2, <1>3

\* The request sense state is entered.
LEMMA SenseServes ==
  ASSUME NEW x, NEW k, NEW ret, NEW a, enterRequestSenseState(x, k, ret, a),
         Outcome(ch, Busy(x), IF ret = "idle" THEN Idle ELSE [a EXCEPT !.pc = ret], k),
         Outcome(ch, Asking(x), [a EXCEPT !.pc = "ports", !.ret = ret], k)
  PROVE  Serves
<1>1. \/ Step(Busy(x), k, IF ret = "idle" THEN Idle ELSE [a EXCEPT !.pc = ret])
      \/ Step(Asking(x), k, [a EXCEPT !.pc = "ports", !.ret = ret])
  BY DEF enterRequestSenseState, Busy, Asking, Sense
<1>2. QED
  BY <1>1, StepServes

\* A response whose flags disable the queue.
LEMMA BadResponseServes ==
  ASSUME NEW c, NEW t, NEW a, BadResponse(c, t, a), NEW o, o = Off(c), Used(o) = Used(c),
         Outcome(ch, o, a, {}),
         \A x \in Used(o) : Outcome(ch, removeCommand(o, x), a, {c.entry[x].cmd})
  PROVE  Serves
<1>1. \/ Step(o, {}, a)
      \/ t \in Used(c) /\ Step(removeCommand(o, t), {c.entry[t].cmd}, a)
  BY DEF BadResponse, Off
<1>2. CASE Step(o, {}, a)
  BY <1>2, StepServes
<1>3. CASE t \in Used(c) /\ Step(removeCommand(o, t), {c.entry[t].cmd}, a)
  <2>1. Outcome(ch, removeCommand(o, t), a, {c.entry[t].cmd})
    BY <1>3
  <2>2. QED
    BY <1>3, <2>1, StepServes
<1>4. QED
  BY <1>1, <1>2, <1>3

\* One turn of the loop over the responses.
LEMMA IsrResponseServes ==
  ASSUME IInv, IsrResponse
  PROVE  Serves
<1>1. PICK c, t, a : /\ c = ReadOne(ch, ch.rspOutPtr) /\ t = ch.responseQueue[ch.rspOutPtr].id
                     /\ a = Advanced(isr)
  OBVIOUS
<1>2. Inv(ch, isr) /\ isr.pc = "responses" /\ isr.rspOutPtr # isr.rspInPtr
  BY DEF IInv, IsrResponse
<1>3. isr.rspOutPtr = ch.rspOutPtr
  BY <1>2 DEF Inv, Control, Reads
<1>4. IF ch.responseQueue[ch.rspOutPtr].err /\ ~Native(ch)
      THEN BadResponse(c, t, a) ELSE GoodResponse(c, t, a)
  BY <1>1, <1>3 DEF IsrResponse, ReadOne, Advanced, Native
<1>5. CASE ch.responseQueue[ch.rspOutPtr].err /\ ~Native(ch)
  <2>1. PICK o : o = Off(c)
    OBVIOUS
  <2>2. /\ Outcome(ch, o, a, {}) /\ Used(o) = Used(c)
        /\ \A x \in Used(o) : Outcome(ch, removeCommand(o, x), a, {c.entry[x].cmd})
    BY <1>1, <1>2, <1>5, <2>1, BadReadKeeps
  <2>3. QED
    BY <1>4, <1>5, <2>1, <2>2, BadResponseServes
<1>6. CASE ~(ch.responseQueue[ch.rspOutPtr].err /\ ~Native(ch))
  <2>1. PICK r, k : r = removeCommand(c, t) /\ k = c.entry[t].cmd
    OBVIOUS
  <2>2. /\ t \notin Used(c) => Outcome(ch, c, a, {})
        /\ t \in Used(c) => Outcome(ch, r, a, {k})
        /\ t \in Used(c) /\ r.queueCommandsEnabled /\ r.state = "WAIT_FOR_COMPLETIONS"
             /\ ~isGoodCompletionsExpected(r) =>
             /\ Outcome(ch, Busy(r), [a EXCEPT !.pc = "responses"], {k})
             /\ Outcome(ch, Asking(r), [a EXCEPT !.pc = "ports", !.ret = "responses"], {k})
        /\ t \in Used(c) /\ r.queueCommandsEnabled /\ HeadIsPIO(r) =>
             Outcome(ch, deactivateEdma(r), [a EXCEPT !.pc = "insert", !.ret = "responses"], {k})
    BY <1>1, <1>2, <2>1, GoodReadKeeps
  <2>3. GoodResponse(c, t, a)
    BY <1>4, <1>6
  <2>4. CASE t \notin Used(c)
    <3>1. Step(c, {}, a)
      BY <2>3, <2>4 DEF GoodResponse
    <3>2. QED
      BY <2>2, <2>4, <3>1, StepServes
  <2>5. CASE t \in Used(c)
    <3>1. \/ Step(r, {k}, a)
          \/ /\ r.queueCommandsEnabled /\ r.state = "WAIT_FOR_COMPLETIONS"
             /\ ~isGoodCompletionsExpected(r)
             /\ enterRequestSenseState(r, {k}, "responses", a)
          \/ /\ r.queueCommandsEnabled /\ HeadIsPIO(r)
             /\ Step(deactivateEdma(r), {k}, [a EXCEPT !.pc = "insert", !.ret = "responses"])
      BY <2>1, <2>3, <2>5 DEF GoodResponse
    <3>2. CASE Step(r, {k}, a)
      BY <2>2, <2>5, <3>2, StepServes
    <3>3. CASE /\ r.queueCommandsEnabled /\ r.state = "WAIT_FOR_COMPLETIONS"
               /\ ~isGoodCompletionsExpected(r)
               /\ enterRequestSenseState(r, {k}, "responses", a)
      <4>1. /\ Outcome(ch, Busy(r), [a EXCEPT !.pc = "responses"], {k})
            /\ Outcome(ch, Asking(r), [a EXCEPT !.pc = "ports", !.ret = "responses"], {k})
        BY <2>2, <2>5, <3>3
      <4>2. PICK ret : ret = "responses"
        OBVIOUS
      <4>3. /\ enterRequestSenseState(r, {k}, ret, a)
            /\ Outcome(ch, Busy(r), IF ret = "idle" THEN Idle ELSE [a EXCEPT !.pc = ret], {k})
            /\ Outcome(ch, Asking(r), [a EXCEPT !.pc = "ports", !.ret = ret], {k})
        BY <3>3, <4>1, <4>2
      <4>4. QED
        BY <4>3, SenseServes
    <3>4. CASE /\ r.queueCommandsEnabled /\ HeadIsPIO(r)
               /\ Step(deactivateEdma(r), {k}, [a EXCEPT !.pc = "insert", !.ret = "responses"])
      <4>1. Outcome(ch, deactivateEdma(r), [a EXCEPT !.pc = "insert", !.ret = "responses"], {k})
        BY <2>2, <2>5, <3>4
      <4>2. QED
        BY <3>4, <4>1, StepServes
    <3>5. QED
      BY <3>1, <3>2, <3>3, <3>4
  <2>6. QED
    BY <2>4, <2>5
<1>7. QED
  BY <1>5, <1>6

\* handleDisconnect, handleConnect and handleUnrecoverableError.
LEMMA ErrorLinkServes ==
  ASSUME IInv, ErrorLink
  PROVE  Serves
<1>1. Inv(ch, isr) /\ isr.pc = "error" /\ ch \in Channel
  BY DEF IInv, ErrorLink, Inv, QInv
<1>2. PICK u : u = Clear(ch)
  OBVIOUS
<1>3. PICK r : r = restartChannel(u)
  OBVIOUS
<1>4. \/ Step(r.ch, r.called, Idle) \/ Step(Gone(ch), {}, Idle) \/ Step(u, {}, Idle)
  BY <1>2, <1>3 DEF ErrorLink, Cleared, Clear, Gone
<1>5. CASE Step(r.ch, r.called, Idle)
  <2>1. u \in Channel /\ SameQueue(ch, u) /\ u.errorCause = {}
    BY <1>1, <1>2, ClearFields
  <2>2. Held(u) = Held(ch)
    BY <2>1 DEF SameQueue, Held, Used
  <2>3. Idle \in Locals /\ Idle.pc = "idle"
    BY LocalsFacts
  <2>4. Outcome(ch, r.ch, Idle, r.called)
    BY <1>1, <1>3, <2>1, <2>2, <2>3, RestartKeeps
  <2>5. QED
    BY <1>5, <2>4, StepServes
<1>6. CASE Step(Gone(ch), {}, Idle)
  BY <1>1, <1>6, GoneKeeps, StepServes
<1>7. CASE Step(u, {}, Idle)
  <2>1. Outcome(ch, u, Idle, {})
    BY <1>1, <1>2, ClearedKeeps DEF Clear
  <2>2. QED
    BY <1>7, <2>1, StepServes
<1>8. QED
  BY <1>4, <1>5, <1>6, <1>7

\* The register is cleared, and the channel given up or left as it is:
\* handleAsyncNotify and handleRecoverableError.
LEMMA NoticesServe ==
  ASSUME IInv, ErrorAsyncNotify \/ ErrorRecoverable
  PROVE  Serves
<1>1. Inv(ch, isr) /\ isr.pc = "error" /\ ch \in Channel
  BY DEF IInv, ErrorAsyncNotify, ErrorRecoverable, Inv, QInv
<1>2. PICK u : u = Clear(ch)
  OBVIOUS
<1>3. PICK r : r = restartChannel(u)
  OBVIOUS
<1>4. Step(r.ch, r.called, Idle) \/ Step(u, {}, Idle)
  BY <1>2, <1>3 DEF ErrorAsyncNotify, ErrorRecoverable, Cleared, Clear
<1>5. CASE Step(r.ch, r.called, Idle)
  <2>1. u \in Channel /\ SameQueue(ch, u) /\ u.errorCause = {}
    BY <1>1, <1>2, ClearFields
  <2>2. Held(u) = Held(ch)
    BY <2>1 DEF SameQueue, Held, Used
  <2>3. Outcome(ch, r.ch, Idle, r.called)
    BY <1>1, <1>3, <2>1, <2>2, LocalsFacts, RestartKeeps
  <2>4. QED
    BY <1>5, <2>3, StepServes
<1>6. CASE Step(u, {}, Idle)
  <2>1. Outcome(ch, u, Idle, {})
    BY <1>1, <1>2, ClearedKeeps DEF Clear
  <2>2. QED
    BY <1>6, <2>1, StepServes
<1>7. QED
  BY <1>4, <1>5, <1>6

\* _doDevErrorRecovery.
LEMMA RecoveryServes ==
  ASSUME NEW x, NEW k, NEW ret, doDevErrorRecovery(x, k, ret),
         Outcome(ch, Recovered(x), [isr EXCEPT !.pc = "insert", !.ret = ret], k),
         Outcome(ch, x, IF ret = "idle" THEN Idle ELSE [isr EXCEPT !.pc = ret], k)
  PROVE  Serves
<1>1. \/ Step(Recovered(x), k, [isr EXCEPT !.pc = "insert", !.ret = ret])
      \/ Step(x, k, IF ret = "idle" THEN Idle ELSE [isr EXCEPT !.pc = ret])
  BY DEF doDevErrorRecovery, Recovered, Call, Goto
<1>2. QED
  BY <1>1, StepServes

\* The same at the end of the interrupt routine.
LEMMA RecoveryEnds ==
  ASSUME NEW x, NEW k, doDevErrorRecovery(x, k, "idle"),
         Outcome(ch, Recovered(x), [isr EXCEPT !.pc = "insert", !.ret = "idle"], k),
         Outcome(ch, x, Idle, k)
  PROVE  Serves
<1>1. PICK ret : ret = "idle"
  OBVIOUS
<1>2. /\ doDevErrorRecovery(x, k, ret)
      /\ Outcome(ch, Recovered(x), [isr EXCEPT !.pc = "insert", !.ret = ret], k)
      /\ Outcome(ch, x, IF ret = "idle" THEN Idle ELSE [isr EXCEPT !.pc = ret], k)
  BY <1>1
<1>3. QED
  BY <1>2, RecoveryServes

\* handleSelfDisable.
LEMMA ErrorSelfDisableServes ==
  ASSUME IInv, ErrorSelfDisable
  PROVE  Serves
<1>1. Inv(ch, isr) /\ isr.pc = "error" /\ "selfDisable" \in ch.errorCause
  BY DEF IInv, ErrorSelfDisable
<1>2. PICK m : m = [isr EXCEPT !.pc = "insert", !.ret = "idle"]
  OBVIOUS
<1>3. PICK u, o : u = Clear(ch) /\ o = Off(Clear(ch))
  OBVIOUS
<1>4. \/ ~ch.EdmaActive /\ doDevErrorRecovery(u, {}, "idle")
      \/ ch.EdmaActive /\ doDevErrorRecovery(o, {}, "idle")
      \/ /\ ch.EdmaActive
         /\ \E t \in FailedCommand(o) :
              doDevErrorRecovery(removeCommand(o, t), {o.entry[t].cmd}, "idle")
  BY <1>3 DEF ErrorSelfDisable, Cleared, Clear, Off
<1>5. CASE ~ch.EdmaActive /\ doDevErrorRecovery(u, {}, "idle")
  <2>1. PICK r : r = Recovered(u)
    OBVIOUS
  <2>2. Outcome(ch, r, m, {})
    BY <1>1, <1>2, <1>3, <1>5, <2>1, SelfStoppedKeeps
  <2>3. Outcome(ch, u, Idle, {})
    BY <1>1, <1>3, ClearedKeeps DEF Clear
  <2>4. QED
    BY <1>2, <1>5, <2>1, <2>2, <2>3, RecoveryEnds
<1>6. CASE ch.EdmaActive
  <2>1. /\ Outcome(ch, Recovered(o), m, {}) /\ Outcome(ch, o, Idle, {})
        /\ \A t \in FailedCommand(o) :
             /\ Outcome(ch, Recovered(removeCommand(o, t)), m, {o.entry[t].cmd})
             /\ Outcome(ch, removeCommand(o, t), Idle, {o.entry[t].cmd})
    BY <1>1, <1>2, <1>3, <1>6, SelfActiveKeeps
  <2>2. CASE doDevErrorRecovery(o, {}, "idle")
    BY <1>2, <2>1, <2>2, RecoveryEnds
  <2>3. CASE \E t \in FailedCommand(o) :
               doDevErrorRecovery(removeCommand(o, t), {o.entry[t].cmd}, "idle")
    <3>1. PICK t \in FailedCommand(o) :
            doDevErrorRecovery(removeCommand(o, t), {o.entry[t].cmd}, "idle")
      BY <2>3
    <3>2. PICK x, k : x = removeCommand(o, t) /\ k = {o.entry[t].cmd}
      OBVIOUS
    <3>3. Outcome(ch, Recovered(x), m, k) /\ Outcome(ch, x, Idle, k)
      BY <2>1, <3>1, <3>2
    <3>4. doDevErrorRecovery(x, k, "idle")
      BY <3>1, <3>2
    <3>5. QED
      BY <1>2, <3>3, <3>4, RecoveryEnds
  <2>4. QED
    BY <1>4, <1>6, <2>2, <2>3
<1>7. QED
  BY <1>4, <1>5, <1>6

\* handleDevErr.
LEMMA ErrorDevErrServes ==
  ASSUME IInv, ErrorDevErr
  PROVE  Serves
<1>1. Inv(ch, isr) /\ isr.pc = "error" /\ "devErr" \in ch.errorCause
  BY DEF IInv, ErrorDevErr
<1>2. PICK u, v : u = Clear(ch) /\ v = Noticed(ch)
  OBVIOUS
<1>3. v = [Clear(ch) EXCEPT
             !.state = IF @ = "IDLE" THEN "WAIT_FOR_COMPLETIONS" ELSE @,
             !.PortsWithErrors = ch.PortsWithErrors \cup InError(ch),
             !.entry = AbortedEntries(ch, ch.PortsWithErrors \cup InError(ch))]
  BY <1>2, Zenon DEF Noticed
<1>4. \/ Step(u, {}, Idle)
      \/ /\ ch.EdmaActive /\ Native(ch)
         /\ IF isGoodCompletionsExpected(v) THEN Step(v, {}, Idle)
            ELSE enterRequestSenseState(v, {}, "idle", isr)
  <2>1. Clear(ch) = Cleared /\ Clear(ch).entry = ch.entry /\ Clear(ch).state = ch.state
    BY ClearFields DEF Clear, Cleared, IInv, Inv, QInv, SameQueue, SameErrors
  <2>2. v = [Cleared EXCEPT
              !.state = IF @ = "IDLE" THEN "WAIT_FOR_COMPLETIONS" ELSE @,
              !.PortsWithErrors = ch.PortsWithErrors \cup {p \in Ports : ch.erring[p] # NoTag},
              !.entry = [t \in HostTags |->
                           IF t \in LeadingInEdma(ch) /\ @[t].PMPort \in
                               ch.PortsWithErrors \cup {p \in Ports : ch.erring[p] # NoTag}
                           THEN [@[t] EXCEPT !.commandAborted = TRUE]
                           ELSE @[t]]]
    BY <1>3, <2>1 DEF AbortedEntries, InError
  <2>3. QED
    BY <1>2, <2>1, <2>2 DEF ErrorDevErr, Native
<1>5. CASE Step(u, {}, Idle)
  <2>1. Outcome(ch, u, Idle, {})
    BY <1>1, <1>2, ClearedKeeps DEF Clear
  <2>2. QED
    BY <1>5, <2>1, StepServes
<1>6. CASE ch.EdmaActive /\ Native(ch) /\ isGoodCompletionsExpected(v) /\ Step(v, {}, Idle)
  <2>1. Outcome(ch, v, Idle, {})
    BY <1>1, <1>2, <1>6, NoticedKeeps
  <2>2. QED
    BY <1>6, <2>1, StepServes
<1>7. CASE /\ ch.EdmaActive /\ Native(ch) /\ ~isGoodCompletionsExpected(v)
           /\ enterRequestSenseState(v, {}, "idle", isr)
  <2>1. PICK ret, m : ret = "idle" /\ m = [isr EXCEPT !.pc = "ports", !.ret = "idle"]
    OBVIOUS
  <2>2. Outcome(ch, Busy(v), Idle, {}) /\ Outcome(ch, Asking(v), m, {})
    BY <1>1, <1>2, <1>7, <2>1, NoticedSenses
  <2>3. /\ enterRequestSenseState(v, {}, ret, isr)
        /\ Outcome(ch, Busy(v), IF ret = "idle" THEN Idle ELSE [isr EXCEPT !.pc = ret], {})
        /\ Outcome(ch, Asking(v), [isr EXCEPT !.pc = "ports", !.ret = ret], {})
    BY <1>7, <2>1, <2>2
  <2>4. QED
    BY <2>3, SenseServes
<1>8. QED
  BY <1>4, <1>5, <1>6, <1>7

\* The queue was found disabled for no reason the register shows.
LEMMA ErrorNothingServes ==
  ASSUME IInv, ErrorNothing
  PROVE  Serves
<1>1. Outcome(ch, ch, Idle, {})
  BY EndsKeeps DEF IInv, ErrorNothing
<1>2. QED
  BY <1>1, StepServes DEF ErrorNothing

\* _insertQCommandsIntoEdma.
LEMMA InsertServes ==
  ASSUME IInv, InsertQCommandsIntoEdma
  PROVE  Serves
<1>1. Inv(ch, isr) /\ isr.pc = "insert"
  BY DEF IInv, InsertQCommandsIntoEdma
<1>2. PICK m, t : m = Returned(isr) /\ t = Head(ch.commandsQueue)
  OBVIOUS
<1>3. Return = m
  BY <1>2 DEF Return, Returned, Goto
<1>4. CASE ch.commandsQueue = <<>>
  <2>1. Step(ch, {}, m)
    BY <1>3, <1>4 DEF InsertQCommandsIntoEdma
  <2>2. Outcome(ch, ch, m, {})
    BY <1>1, <1>2, <1>4, InsertNoneKeeps
  <2>3. QED
    BY <2>1, <2>2, StepServes
<1>5. CASE ch.commandsQueue # <<>> /\ ~IsPIO(ch, t)
  <2>1. PICK r : r = insertLeadingUdma(ch)
    OBVIOUS
  <2>2. Step(r, {}, m)
    BY <1>2, <1>3, <1>5, <2>1 DEF InsertQCommandsIntoEdma
  <2>3. Outcome(ch, r, m, {})
    BY <1>1, <1>2, <1>5, <2>1, InsertUdmaKeeps
  <2>4. QED
    BY <2>2, <2>3, StepServes
<1>6. CASE ch.commandsQueue # <<>> /\ IsPIO(ch, t)
  <2>1. HeadIsPIO(ch)
    BY <1>2, <1>6 DEF HeadIsPIO
  <2>2. PICK r, x, k : /\ r = [ch EXCEPT !.pio = t] /\ x = FailedPio(ch, t)
                       /\ k = {ch.entry[t].cmd}
    OBVIOUS
  <2>3. Step(r, {}, m) \/ doDevErrorRecovery(x, k, isr.ret)
    BY <1>2, <1>3, <1>6, <2>2 DEF InsertQCommandsIntoEdma, failPIOCommand, FailedPio
  <2>4. CASE Step(r, {}, m)
    <3>1. Outcome(ch, r, m, {})
      BY <1>1, <1>2, <2>1, <2>2, InsertPioKeeps
    <3>2. QED
      BY <2>4, <3>1, StepServes
  <2>5. CASE doDevErrorRecovery(x, k, isr.ret)
    <3>1. /\ QInv(ch) /\ Stopped(ch) /\ ch.state = "IDLE" /\ ch.phase = "ready"
          /\ ReadLog \notin Elems(ch.commandsQueue) /\ ~ch.EdmaActive
      BY <1>1, <1>6, InsertFacts DEF Stopped
    <3>2. t \in Used(ch)
      BY <1>2, <2>1, <3>1, HeadPio
    <3>3. PICK n : n = [isr EXCEPT !.pc = "insert", !.ret = isr.ret]
      OBVIOUS
    <3>4. isr \in Locals /\ Reads(ch, isr)
      BY <1>1 DEF Inv, Control
    <3>5. /\ n \in Locals /\ n.pc = "insert"
          /\ n.ret = "responses" => n.rspOutPtr = n.rspInPtr
      BY <1>1, <3>3, <3>4 DEF Locals, Reads
    <3>6. Outcome(ch, Recovered(x), n, k)
      BY <1>1, <2>2, <3>1, <3>2, <3>5, FailPioKeeps
    <3>7. /\ m \in Locals /\ m.pc \in {"idle", "responses"}
          /\ m.pc = "responses" \/ m.ret = "responses" => m.rspOutPtr = m.rspInPtr
      BY <1>1, <1>2, ReturnFacts
    <3>8. Outcome(ch, x, m, k)
      BY <1>1, <2>2, <3>1, <3>2, <3>7, FailPioKeeps
    <3>9. m = IF isr.ret = "idle" THEN Idle ELSE [isr EXCEPT !.pc = isr.ret]
      BY <1>2 DEF Returned
    <3>10. QED
      BY <2>5, <3>3, <3>6, <3>8, <3>9, RecoveryServes
  <2>6. QED
    BY <2>3, <2>4, <2>5
<1>7. QED
  BY <1>4, <1>5, <1>6

\* handlePortError.
LEMMA PortsServe ==
  ASSUME IInv, HandlePortError
  PROVE  Serves
<1>1. Inv(ch, isr) /\ isr.pc = "ports"
  BY DEF IInv, HandlePortError
<1>2. PICK m : m = Returned(isr)
  OBVIOUS
<1>3. Return = m
  BY <1>2 DEF Return, Returned, Goto
<1>4. CASE Unasked(ch) = {}
  <2>1. PICK r, n : r = AskedAll(ch) /\ n = [isr EXCEPT !.pc = "insert"]
    OBVIOUS
  <2>2. Step(r, {}, n)
    BY <1>4, <2>1 DEF HandlePortError, Unasked, AskedAll, Goto
  <2>3. Outcome(ch, r, n, {})
    BY <1>1, <1>4, <2>1, AskedAllKeeps
  <2>4. QED
    BY <2>2, <2>3, StepServes
<1>5. CASE Unasked(ch) # {}
  <2>1. PICK p : p = CHOOSE x \in Unasked(ch) : \A y \in Unasked(ch) : x <= y
    OBVIOUS
  <2>2. p \in Nat /\ p \in InError(ch) /\ InError(ch) = {x \in ch.PortsWithErrors : x >= p}
    BY <1>1, <1>5, <2>1, NextPort
  <2>3. PICK u : u = Asked(ch, p)
    OBVIOUS
  <2>4. Step([u EXCEPT !.pio = ReadLog], {}, m) \/ Step(failReadLog(u), {}, m)
    BY <1>3, <1>5, <2>1, <2>3 DEF HandlePortError, Unasked, Asked
  <2>5. /\ Outcome(ch, [u EXCEPT !.pio = ReadLog], m, {})
        /\ Outcome(ch, failReadLog(u), m, {})
    BY <1>1, <1>2, <2>2, <2>3, AskNextKeeps
  <2>6. QED
    BY <2>4, <2>5, StepServes
<1>6. QED
  BY <1>4, <1>5

\* The drive that was busy is done.
LEMMA DeviceNotBusyServes ==
  ASSUME IInv, DeviceNotBusy
  PROVE  Serves
<1>1. PICK r : r = NotBusy(ch)
  OBVIOUS
<1>2. Outcome(ch, r, PioPorts, {})
  BY <1>1, NotBusyKeeps DEF IInv, DeviceNotBusy
<1>3. Step(r, {}, PioPorts)
  BY <1>1 DEF DeviceNotBusy, NotBusy
<1>4. QED
  BY <1>2, <1>3, StepServes

\* handlePIOInterrupt: a PIO command of the upper layer completes or fails.
LEMMA PioInterruptServes ==
  ASSUME NEW t, Inv(ch, isr), AtHead(ch, t), pioInterrupt(t)
  PROVE  Serves
<1>1. Inv(ch, isr) /\ AtHead(ch, t)
  OBVIOUS
<1>2. PICK k, x : k = {ch.entry[t].cmd} /\ x = FailedPio(ch, t)
  OBVIOUS
<1>3. PICK r, m : r = PioDone(ch, t) /\ m = [Idle EXCEPT !.pc = "insert"]
  OBVIOUS
<1>4. Step(r, k, m) \/ doDevErrorRecovery(x, k, "idle")
  BY <1>2, <1>3 DEF pioInterrupt, failPIOCommand, FailedPio, PioDone
<1>5. CASE Step(r, k, m)
  <2>1. Outcome(ch, r, m, k)
    BY <1>1, <1>2, <1>3, PioDoneKeeps
  <2>2. QED
    BY <1>5, <2>1, StepServes
<1>6. CASE doDevErrorRecovery(x, k, "idle")
  <2>1. /\ Stopped(ch) /\ ch.state = "IDLE" /\ ch.phase = "ready" /\ t \in Used(ch)
        /\ ReadLog \notin Elems(ch.commandsQueue) /\ ~ch.EdmaActive
    BY <1>1 DEF AtHead, Stopped
  <2>2. PICK n : n = [isr EXCEPT !.pc = "insert", !.ret = "idle"]
    OBVIOUS
  <2>3. n \in Locals /\ n.pc = "insert" /\ n.ret = "idle"
    <3>1. isr \in Locals
      BY <1>1 DEF Inv
    <3>2. QED
      BY <2>2, <3>1 DEF Locals, Pcs
  <2>4. Outcome(ch, Recovered(x), n, k)
    BY <1>1, <1>2, <2>1, <2>3, FailPioKeeps
  <2>5. Idle \in Locals /\ Idle.pc = "idle" /\ Idle.ret = "idle"
    BY LocalsFacts DEF Idle
  <2>6. Outcome(ch, x, Idle, k)
    BY <1>1, <1>2, <2>1, <2>5, FailPioKeeps
  <2>7. QED
    BY <1>6, <2>2, <2>4, <2>6, RecoveryEnds
<1>7. QED
  BY <1>4, <1>5, <1>6

\* The command that was sent.
LEMMA DevicePIOServes ==
  ASSUME IInv, DevicePIO
  PROVE  Serves
<1>1. PICK t : t = ch.pio
  OBVIOUS
<1>2. Inv(ch, isr) /\ AtHead(ch, t) /\ pioInterrupt(t)
  BY <1>1, PioRuns DEF IInv, DevicePIO
<1>3. QED
  BY <1>2, PioInterruptServes

\* The one at the head, not sent yet.
LEMMA DeviceLateServes ==
  ASSUME IInv, DeviceLate
  PROVE  Serves
<1>1. PICK t : t = Head(ch.commandsQueue)
  OBVIOUS
<1>2. Inv(ch, isr) /\ pioInterrupt(t)
  BY <1>1 DEF IInv, DeviceLate
<1>3. AtHead(ch, t)
  BY <1>1, <1>2, LateFacts DEF DeviceLate, DeviceInterrupt
<1>4. QED
  BY <1>2, <1>3, PioInterruptServes

\* READ LOG EXT completes or fails.
LEMMA DeviceReadLogServes ==
  ASSUME IInv, DeviceReadLog
  PROVE  Serves
<1>1. Inv(ch, isr) /\ isr.pc = "idle" /\ ch.pio = ReadLog
  BY DEF IInv, DeviceReadLog, DeviceInterrupt
<1>2. PICK u, f : u = LogDone(ch) /\ f = failReadLog(ch)
  OBVIOUS
<1>3. Outcome(ch, u, isr, {}) /\ Outcome(ch, f, isr, {}) /\ u.CurrPort = ch.CurrPort
  BY <1>1, <1>2, LogDoneKeeps
<1>4. \/ \E t \in HostTagsByDeviceTag(u, ch.erring[ch.CurrPort], ch.CurrPort) :
           Step(Named(u, t), {u.entry[t].cmd}, PioPorts)
      \/ Step(u, {}, isr)
      \/ Step(f, {}, isr)
  BY <1>2, <1>3 DEF DeviceReadLog, LogDone, Named
<1>5. CASE \E t \in HostTagsByDeviceTag(u, ch.erring[ch.CurrPort], ch.CurrPort) :
             Step(Named(u, t), {u.entry[t].cmd}, PioPorts)
  <2>1. PICK t \in HostTagsByDeviceTag(u, ch.erring[ch.CurrPort], ch.CurrPort) :
          Step(Named(u, t), {u.entry[t].cmd}, PioPorts)
    BY <1>5
  <2>2. PICK r : r = Named(u, t)
    OBVIOUS
  <2>3. Outcome(ch, r, PioPorts, {u.entry[t].cmd})
    BY <1>1, <1>2, <2>2, LogNamesKeeps
  <2>4. QED
    BY <2>1, <2>2, <2>3, StepServes
<1>6. QED
  BY <1>3, <1>4, <1>5, StepServes

\* A spurious interrupt is masked.
LEMMA DeviceSpuriousServes ==
  ASSUME IInv, DeviceSpurious
  PROVE  Serves
<1>1. PICK r : r = [ch EXCEPT !.saDevMask = FALSE]
  OBVIOUS
<1>2. Outcome(ch, r, isr, {})
  BY <1>1, SpuriousKeeps DEF IInv, DeviceSpurious
<1>3. Step(r, {}, isr)
  BY <1>1 DEF DeviceSpurious
<1>4. QED
  BY <1>2, <1>3, StepServes

\* The engine fetches a request.
LEMMA EdmaFetchesServes ==
  ASSUME IInv, EdmaFetches
  PROVE  Serves
<1>1. Inv(ch, isr) /\ ch.edmaEnabled /\ ch.reqOutPtr # ch.reqInPtr
  BY DEF IInv, EdmaFetches
<1>2. PICK t : t = ch.requestQueue[ch.reqOutPtr]
  OBVIOUS
<1>3. \/ ch.erring[ch.entry[t].PMPort] # NoTag /\ Hardware(Rejected(ch))
      \/ Hardware(Taken(ch, t))
  BY <1>2 DEF EdmaFetches, Rejected, Taken
<1>4. PICK r : /\ Hardware(r)
               /\ \/ ch.erring[ch.entry[t].PMPort] # NoTag /\ r = Rejected(ch)
                  \/ r = Taken(ch, t)
  BY <1>3
<1>5. Outcome(ch, r, isr, {})
  BY <1>1, <1>2, <1>4, FetchKeeps
<1>6. QED
  BY <1>4, <1>5, HardwareServes

\* A drive completes a command, or fails it.
LEMMA DriveServes ==
  ASSUME IInv, NEW t \in HostTags, DriveCompletes(t) \/ DriveFails(t)
  PROVE  Serves
<1>1. Inv(ch, isr)
  BY DEF IInv
<1>2. CASE DriveCompletes(t)
  <2>1. PICK r : r = Respond(ch, t, FALSE)
    OBVIOUS
  <2>2. Outcome(ch, r, isr, {})
    BY <1>1, <1>2, <2>1, CompleteKeeps DEF DriveCompletes
  <2>3. QED
    BY <1>2, <2>1, <2>2, HardwareServes DEF DriveCompletes
<1>3. CASE DriveFails(t) /\ Native(ch)
  <2>1. PICK r : r = FailsNative(ch, t)
    OBVIOUS
  <2>2. Outcome(ch, r, isr, {})
    BY <1>1, <1>3, <2>1, NativeFailKeeps DEF DriveFails
  <2>3. Hardware(r)
    BY <1>3, <2>1 DEF DriveFails, Native, FailsNative, AtFault
  <2>4. QED
    BY <2>2, <2>3, HardwareServes
<1>4. CASE DriveFails(t) /\ ~Native(ch)
  <2>1. PICK f : f = FailsOff(ch, t)
    OBVIOUS
  <2>2. Hardware([f EXCEPT !.executing = {}])
        \/ Hardware([Respond(f, t, TRUE) EXCEPT !.executing = {}])
    BY <1>4, <2>1 DEF DriveFails, Native, FailsOff, AtFault
  <2>3. PICK r : /\ Hardware(r)
                 /\ \/ r = [FailsOff(ch, t) EXCEPT !.executing = {}]
                    \/ r = [Respond(FailsOff(ch, t), t, TRUE) EXCEPT !.executing = {}]
    BY <2>1, <2>2
  <2>4. Outcome(ch, r, isr, {})
    BY <1>1, <1>4, <2>3, OffFailKeeps DEF DriveFails
  <2>5. QED
    BY <2>3, <2>4, HardwareServes
<1>5. QED
  BY <1>2, <1>3, <1>4

\* A link event.
LEMMA LinkEventServes ==
  ASSUME IInv, NEW kind \in LinkFaults, LinkEvent(kind)
  PROVE  Serves
<1>1. PICK r : r = [ch EXCEPT !.errorCause = @ \cup {kind}, !.edmaEnabled = FALSE,
                              !.executing = {}]
  OBVIOUS
<1>2. Outcome(ch, r, isr, {})
  BY <1>1, LinkKeeps DEF IInv, LinkEvent
<1>3. QED
  BY <1>1, <1>2, HardwareServes DEF LinkEvent

\* A notice.
LEMMA LinkNoticeServes ==
  ASSUME IInv, NEW kind \in Notices, LinkNotice(kind)
  PROVE  Serves
<1>1. PICK r : r = [ch EXCEPT !.errorCause = @ \cup {kind}]
  OBVIOUS
<1>2. Outcome(ch, r, isr, {})
  BY <1>1, NoticeKeeps DEF IInv
<1>3. QED
  BY <1>1, <1>2, HardwareServes DEF LinkNotice

\* Every step accepts a command or serves the layer above.
LEMMA NextServes ==
  ASSUME IInv, Next
  PROVE  Serves \/ Accepts
<1>1. CASE \E c \in Cmds, p \in Ports : QueueUdma(c, p) \/ QueueNoneUdma(c, p)
  BY <1>1, QueueUdmaAccepts, QueueNoneUdmaAccepts
<1>2. CASE RestartChannel \/ ConfigureChannel \/ EnableChannelDma
  BY <1>2, RestartChannelServes, ConfigureChannelServes, EnableChannelDmaServes
<1>3. CASE IsrStep
  <2>1. CASE IsrClears \/ IsrReadsPointer \/ IsrResponsesDone
    BY <2>1, IsrReadsServe
  <2>2. CASE IsrResponse
    BY <2>2, IsrResponseServes
  <2>3. CASE ErrorLink \/ ErrorSelfDisable \/ ErrorDevErr \/ ErrorNothing
    BY <2>3, ErrorLinkServes, ErrorSelfDisableServes, ErrorDevErrServes, ErrorNothingServes
  <2>4. CASE ErrorAsyncNotify \/ ErrorRecoverable
    BY <2>4, NoticesServe
  <2>5. CASE InsertQCommandsIntoEdma \/ HandlePortError
    BY <2>5, InsertServes, PortsServe
  <2>6. QED
    BY <1>3, <2>1, <2>2, <2>3, <2>4, <2>5 DEF IsrStep
<1>4. CASE DeviceNotBusy \/ DevicePIO \/ DeviceReadLog \/ DeviceSpurious \/ DeviceLate
  BY <1>4, DeviceNotBusyServes, DevicePIOServes, DeviceReadLogServes, DeviceSpuriousServes,
     DeviceLateServes
<1>5. CASE EdmaFetches
  BY <1>5, EdmaFetchesServes
<1>6. CASE \E t \in HostTags : DriveCompletes(t) \/ DriveFails(t)
  BY <1>6, DriveServes
<1>7. CASE \E kind \in LinkFaults : LinkEvent(kind)
  BY <1>7, LinkEventServes
<1>8. CASE \E kind \in Notices : LinkNotice(kind)
  BY <1>8, LinkNoticeServes
<1>9. QED
  BY <1>1, <1>2, <1>3, <1>4, <1>5, <1>6, <1>7, <1>8 DEF Next

-----------------------------------------------------------------------------
(* The theorems.                                                           *)

\* The driver goes on holding what it owes.
LEMMA ServesKeeps ==
  ASSUME IInv, Serves
  PROVE  IInv'
<1>1. PICK called : /\ Outcome(ch, ch', isr', called)
                    /\ \/ lives' = [c \in Cmds |-> lives[c] - One(c \in called)]
                       \/ called = {} /\ lives' = lives
  BY DEF Serves
<1>2. /\ Inv(ch', isr') /\ called \subseteq Held(ch) /\ Held(ch') = Held(ch) \ called
  BY <1>1 DEF Outcome, Served
<1>3. lives \in [Cmds -> {0, 1}] /\ Held(ch) = {c \in Cmds : lives[c] = 1}
  BY DEF IInv, Owes, OwesWhatItHolds, Owed
<1>4. \A c \in Cmds : lives'[c] = IF c \in called THEN 0 ELSE lives[c]
  <2>1. \A c \in called : c \in Cmds /\ lives[c] = 1
    BY <1>2, <1>3
  <2>2. ASSUME NEW c \in Cmds, lives' = [d \in Cmds |-> lives[d] - One(d \in called)]
        PROVE  lives'[c] = IF c \in called THEN 0 ELSE lives[c]
    <3>1. lives'[c] = lives[c] - One(c \in called)
      BY <2>2
    <3>2. lives[c] \in {0, 1}
      BY <1>3
    <3>3. CASE c \in called
      BY <2>1, <3>1, <3>3 DEF One
    <3>4. CASE c \notin called
      BY <3>1, <3>2, <3>4 DEF One
    <3>5. QED
      BY <3>3, <3>4
  <2>3. QED
    BY <1>1, <2>2
<1>5. DOMAIN lives' = Cmds /\ lives' = [c \in DOMAIN lives' |-> lives'[c]]
  BY <1>1, <1>3
<1>6. lives' \in [Cmds -> {0, 1}]
  BY <1>3, <1>4, <1>5
<1>7. Held(ch') = {c \in Cmds : lives'[c] = 1}
  BY <1>2, <1>3, <1>4
<1>8. QED
  BY <1>2, <1>6, <1>7 DEF IInv, Owes, OwesWhatItHolds, Owed

\* So it does when it accepts one more.
LEMMA AcceptsKeeps ==
  ASSUME IInv, Accepts
  PROVE  IInv'
<1>1. PICK c \in Cmds : /\ Accepted(ch, ch', isr', c) /\ lives[c] = 0
                        /\ lives' = [lives EXCEPT ![c] = 1]
  BY DEF Accepts
<1>2. Inv(ch', isr') /\ Held(ch') = Held(ch) \cup {c}
  BY <1>1 DEF Accepted
<1>3. lives \in [Cmds -> {0, 1}] /\ Held(ch) = {d \in Cmds : lives[d] = 1}
  BY DEF IInv, Owes, OwesWhatItHolds, Owed
<1>4. lives' \in [Cmds -> {0, 1}]
  BY <1>1, <1>3
<1>5. \A d \in Cmds : lives'[d] = IF d = c THEN 1 ELSE lives[d]
  BY <1>1, <1>3
<1>6. Held(ch') = {d \in Cmds : lives'[d] = 1}
  BY <1>2, <1>3, <1>5
<1>7. QED
  BY <1>2, <1>4, <1>6 DEF IInv, Owes, OwesWhatItHolds, Owed

\* The invariant holds of the channel before the IAL first configures it.
LEMMA InitOK == Init => IInv
<1> SUFFICES ASSUME Init PROVE IInv
  OBVIOUS
<1>1. Inv(ch, isr) /\ Held(ch) = {}
  BY InitKeeps
<1>2. lives = [c \in Cmds |-> 0]
  BY DEF Init
<1>3. QED
  BY <1>1, <1>2 DEF IInv, Owes, OwesWhatItHolds, Owed

\* Every step keeps the invariant.
LEMMA NextOK == IInv /\ [Next]_vars => IInv'
<1> SUFFICES ASSUME IInv, [Next]_vars PROVE IInv'
  OBVIOUS
<1>1. CASE Next
  BY <1>1, NextServes, ServesKeeps, AcceptsKeeps
<1>2. CASE UNCHANGED vars
  BY <1>2 DEF vars, IInv, Owes, OwesWhatItHolds, Owed
<1>3. QED
  BY <1>1, <1>2

\* The inductive invariant: the tags, the list, the rings, the failed commands
\* and the state of the recovery agree with each other in every reachable state
\* of mvSata.c's channel.
THEOREM Invariance == Spec => []IInv
BY InitOK, NextOK, PTL DEF Spec

\* As many device tags are taken at a port as commands use it.
LEMMA PortTags ==
  ASSUME NEW s, QInv(s), NEW p \in Ports
  PROVE  Cardinality(TagsAt(s, p)) = Cardinality(UsedAt(s, p))
<1>1. PortOK(s, p) /\ s \in Channel
  BY DEF QInv, QueueOK
<1>2. IsFiniteSet(UsedAt(s, p))
  <2>1. IsFiniteSet(Used(s)) /\ UsedAt(s, p) \subseteq Used(s)
    BY <1>1, UsedFacts DEF UsedAt
  <2>2. QED
    BY <2>1, FS_Subset
<1>3. PICK f : f = [t \in UsedAt(s, p) |-> s.entry[t].deviceTag]
  OBVIOUS
<1>4. f \in Surjection(UsedAt(s, p), TagsAt(s, p))
  BY <1>3 DEF Surjection, TagsAt
<1>5. f \in Injection(UsedAt(s, p), TagsAt(s, p))
  <2>1. \A t, u \in UsedAt(s, p) : f[t] = f[u] => t = u
    BY <1>1, <1>3 DEF PortOK
  <2>2. f \in [UsedAt(s, p) -> TagsAt(s, p)]
    BY <1>4 DEF Surjection
  <2>3. QED
    BY <2>1, <2>2 DEF Injection, IsInjective
<1>6. QED
  BY <1>2, <1>4, <1>5, FS_Surjection

\* The types of the run's invariant follow.
LEMMA TypeFacts == IInv => TypeOK
<1> SUFFICES ASSUME IInv PROVE TypeOK
  OBVIOUS
<1>1. ch \in Channel /\ QInv(ch) /\ isr \in Locals /\ lives \in [Cmds -> {0, 1}]
  BY DEF IInv, Inv, QInv, Owes
<1>2. CountOK(ch) /\ \A p \in Ports : PortOK(ch, p)
  BY <1>1 DEF QInv, QueueOK
<1>3. IsFiniteSet(Used(ch))
  BY <1>1, UsedFacts
<1>4. ch.outstandingCommands \in Nat /\ ch.noneUdmaOutstandingCommands \in Nat
  <2>1. NoneUdma(ch) \subseteq Used(ch)
    BY DEF NoneUdma
  <2>2. IsFiniteSet(NoneUdma(ch))
    BY <1>3, <2>1, FS_Subset
  <2>3. QED
    BY <1>2, <1>3, <2>2, FS_CardinalityType DEF CountOK
<1>5. ch.portQueuedCommands \in [Ports -> Nat]
  <2>1. ASSUME NEW p \in Ports PROVE ch.portQueuedCommands[p] \in Nat
    <3>1. UsedAt(ch, p) \subseteq Used(ch)
      BY DEF UsedAt
    <3>2. IsFiniteSet(UsedAt(ch, p))
      BY <1>3, <3>1, FS_Subset
    <3>3. ch.portQueuedCommands[p] = Cardinality(UsedAt(ch, p))
      BY <1>2 DEF PortOK
    <3>4. QED
      BY <3>2, <3>3, FS_CardinalityType
  <2>2. ch.portQueuedCommands \in [Ports -> Int]
    BY <1>1 DEF Channel
  <2>3. QED
    BY <2>1, <2>2
<1>6. /\ ch.queueCommandsEnabled \in BOOLEAN /\ ch.EdmaActive \in BOOLEAN
      /\ ch.queuedDMA \in Modes /\ ch.commandsQueue \in Seq(HostTags \cup {ReadLog})
      /\ ch.HostTagsPool \in Seq(HostTags) /\ ch.DeviceTagsPool \in [Ports -> Seq(DeviceTags)]
      /\ ch.PortsWithErrors \subseteq Ports /\ ch.CurrPort \in Nat
      /\ ch.state \in {"IDLE", "WAIT_FOR_COMPLETIONS", "WAIT_FOR_BUSY", "REQUEST_SENSE"}
  BY <1>1 DEF Channel, Listable, States
<1>7. /\ ch.reqInPtr \in Slots /\ ch.reqOutPtr \in Slots
      /\ ch.rspInPtr \in Slots /\ ch.rspOutPtr \in Slots
      /\ ch.requestQueue \in [Slots -> Tags]
      /\ ch.responseQueue \in [Slots -> [id : Tags, err : BOOLEAN]]
  BY <1>1 DEF Channel, Response
<1>8. /\ ch.edmaEnabled \in BOOLEAN /\ ch.responseDone \in BOOLEAN /\ ch.saDevMask \in BOOLEAN
      /\ ch.errorCause \subseteq LinkFaults \cup Notices \cup {"devErr", "selfDisable"}
      /\ ch.executing \subseteq HostTags /\ ch.erring \in [Ports -> DeviceTags \cup {NoTag}]
      /\ ch.pio \in Tags \cup {ReadLog} /\ ch.phase \in {"restarted", "configured", "ready"}
  BY <1>1 DEF Channel, Causes
<1>9. ch.entry \in [HostTags -> {FreeEntry} \cup
        [cmd : Cmds, type : {"UDMA", "NONE_UDMA"}, PMPort : Ports,
         deviceTag : DeviceTags, isCommandInEdma : BOOLEAN, commandAborted : BOOLEAN]]
  BY <1>1 DEF Channel, Entry, UsedEntry
<1>10. isr \in [pc : Pcs, ret : {"idle", "responses"}, edmaError : BOOLEAN,
                rspInPtr : Slots, rspOutPtr : Slots]
  BY <1>1 DEF Locals
<1>11. QED
  BY <1>1, <1>4, <1>5, <1>6, <1>7, <1>8, <1>9, <1>10, Zenon DEF TypeOK

\* The fields of MV_SATA_CHANNEL, the rings and the locals of the interrupt
\* routine keep their types, the counters among them never go below zero.
THEOREM TypeCorrect == Spec => []TypeOK
BY Invariance, TypeFacts, PTL

\* addCommand, removeCommand and the flushes keep the tag stacks, the entries,
\* the list and the counters of the queue consistent: no tag is lost, used twice
\* or freed twice.
THEOREM QueueStaysConsistent == Spec => []QueueConsistent
<1>1. IInv => QueueConsistent
  <2> SUFFICES ASSUME IInv PROVE QueueConsistent
    OBVIOUS
  <2>1. QInv(ch) /\ ch \in Channel
    BY DEF IInv, Inv, QInv
  <2>2. HostOK(ch) /\ ListOK(ch) /\ CountOK(ch) /\ \A p \in Ports : PortOK(ch, p)
    BY <2>1 DEF QInv, QueueOK
  <2>3. ASSUME NEW p \in Ports
        PROVE  LET U == {t \in Used(ch) : ch.entry[t].PMPort = p}
               IN /\ NoDuplicates(ch.DeviceTagsPool[p])
                  /\ Elems(ch.DeviceTagsPool[p])
                       = DeviceTags \ {ch.entry[t].deviceTag : t \in U}
                  /\ CountOf({ch.entry[t].deviceTag : t \in U}) = CountOf(U)
                  /\ ch.portQueuedCommands[p] = CountOf(U)
    <3>1. Cardinality(TagsAt(ch, p)) = Cardinality(UsedAt(ch, p))
      BY <2>1, PortTags
    <3>2. PortOK(ch, p)
      BY <2>2
    <3>3. QED
      BY <3>1, <3>2 DEF PortOK, TagsAt, UsedAt, CountOf
  <2>4. \A i \in DOMAIN ch.commandsQueue : ch.commandsQueue[i] = ReadLog => i = 1
    <3>1. DOMAIN ch.commandsQueue = 1..Len(ch.commandsQueue)
      BY <2>1, ElemsAt DEF Channel
    <3>2. QED
      BY <2>2, <3>1 DEF ListOK
  <2>5. /\ NoDuplicates(ch.HostTagsPool) /\ Elems(ch.HostTagsPool) = HostTags \ Used(ch)
        /\ NoDuplicates(ch.commandsQueue) /\ Elems(ch.commandsQueue) \ {ReadLog} = Used(ch)
        /\ ch.outstandingCommands = CountOf(Used(ch))
        /\ ch.noneUdmaOutstandingCommands =
             CountOf({t \in Used(ch) : ch.entry[t].type = "NONE_UDMA"})
    BY <2>2 DEF HostOK, ListOK, CountOK, NoneUdma, CountOf
  <2>6. QED
    BY <2>3, <2>4, <2>5, Zenon DEF QueueConsistent
<1>2. QED
  BY <1>1, Invariance, PTL

\* No path of mvSata.c frees an entry without calling its command back, or calls
\* back and keeps the entry.
THEOREM OwesExactlyWhatItHolds == Spec => []OwesWhatItHolds
<1>1. IInv => OwesWhatItHolds
  BY DEF IInv, Owes
<1>2. QED
  BY <1>1, Invariance, PTL

\* The loops over the list may stop at the first command outside the EDMA.
THEOREM EdmaIsPrefix == Spec => []InEdmaIsPrefix
<1>1. IInv => InEdmaIsPrefix
  <2> SUFFICES ASSUME IInv PROVE InEdmaIsPrefix
    OBVIOUS
  <2>1. QInv(ch) /\ ch \in Channel
    BY DEF IInv, Inv, QInv
  <2>2. Without(ch.commandsQueue, ReadLog) \in Seq(Listable)
    <3>1. ch.commandsQueue \in Seq(Listable) /\ NoDuplicates(ch.commandsQueue)
      BY <2>1 DEF Channel, QInv, QueueOK, ListOK
    <3>2. CASE ReadLog \in Elems(ch.commandsQueue)
      BY <3>1, <3>2, Unlink
    <3>3. CASE ReadLog \notin Elems(ch.commandsQueue)
      BY <3>1, <3>3, UnlinkNothing
    <3>4. QED
      BY <3>2, <3>3
  <2>3. PICK r : r = [ch EXCEPT !.commandsQueue = Without(@, ReadLog)]
    OBVIOUS
  <2>4. r \in Channel /\ SameTags(ch, r) /\ r.commandsQueue = Without(ch.commandsQueue, ReadLog)
    <3>1. PICK w \in Seq(Listable) : w = Without(ch.commandsQueue, ReadLog)
      BY <2>2
    <3>2. r = [ch EXCEPT !.commandsQueue = w]
      BY <2>3, <3>1, Zenon
    <3>3. [ch EXCEPT !.commandsQueue = w] \in Channel
      BY <2>1 DEF Channel
    <3>4. r \in Channel
      BY <3>2, <3>3, Zenon
    <3>5. SameTags(ch, r) /\ r.commandsQueue = w
      BY <2>1, <3>2 DEF Channel, SameTags
    <3>6. QED
      BY <3>1, <3>4, <3>5
  <2>5. QInv(r) /\ InEdma(r) = InEdma(ch) /\ ReadLog \notin Elems(r.commandsQueue)
    BY <2>1, <2>4, DropReadLog
  <2>6. LeadingInEdma(r) = InEdma(ch)
    BY <2>5, LeadingFacts
  <2>7. QED
    BY <2>3, <2>6 DEF InEdmaIsPrefix, InEdma
<1>2. QED
  BY <1>1, Invariance, PTL

\* The switch between EDMA and PIO is safe: they never use the drive at the same
\* time, and the interrupt of the drive is for the head of the list.
THEOREM PioExcludes == Spec => []PioExcludesEdma
<1>1. IInv => PioExcludesEdma
  BY DEF IInv, Inv, Control, PioOK, Engine, PioExcludesEdma
<1>2. QED
  BY <1>1, Invariance, PTL

\* Without spurious interrupts a PIO command that runs is heard: every path that
\* starts one has left the device interrupt unmasked.
THEOREM PioStaysHeard ==
  ASSUME "spurious" \notin Faults
  PROVE  Spec => []PioIsHeard
<1>1. IInv => PioIsHeard
  <2> SUFFICES ASSUME IInv, ch.pio # NoTag PROVE ch.saDevMask
    BY DEF PioIsHeard
  <2>1. PioOK(ch) /\ Heard(ch, isr)
    BY DEF IInv, Inv, Control
  <2>2. Live(ch, isr) /\ ~ch.EdmaActive
    BY <2>1 DEF Live, PioOK
  <2>3. QED
    BY <2>1, <2>2 DEF Heard
<1>2. QED
  BY <1>1, Invariance, PTL

\* No response is taken for a command that got the tag next, or that a recovery
\* has inserted again.
THEOREM ResponsesStayLive == Spec => []ResponsesAreLive
<1>1. IInv => ResponsesAreLive
  <2> SUFFICES ASSUME IInv, ch.queueCommandsEnabled, NEW i \in Slots,
                      InRing(i, ch.rspOutPtr, ch.rspInPtr)
               PROVE  LET t == ch.responseQueue[i].id
                      IN /\ t \in Used(ch) /\ ch.entry[t].isCommandInEdma
                         /\ t \notin UnderWay
    BY DEF ResponsesAreLive
  <2>1. Rings(ch)
    BY DEF IInv, Inv, RingsLive, Live
  <2>2. PICK t : t = ch.responseQueue[i].id
    OBVIOUS
  <2>3. Responded(ch, i)
    BY DEF Responded
  <2>4. t \in InEdma(ch) /\ t \notin ch.executing
    BY <2>1, <2>2, <2>3 DEF Rings
  <2>5. \A j \in Slots : InRing(j, ch.reqOutPtr, ch.reqInPtr) => ch.requestQueue[j] # t
    BY <2>1, <2>2, <2>3 DEF Rings, Request
  <2>6. t \notin UnderWay
    BY <2>4, <2>5 DEF UnderWay
  <2>7. QED
    BY <2>2, <2>4, <2>6 DEF InEdma
<1>2. QED
  BY <1>1, Invariance, PTL

\* No data moves into the buffers of a command that was called back.
THEOREM NoLateDma == Spec => []NoDmaAfterReturn
<1>1. IInv => NoDmaAfterReturn
  <2> SUFFICES ASSUME IInv, ch.edmaEnabled PROVE UnderWay \subseteq InEdma(ch)
    BY DEF NoDmaAfterReturn, InEdma
  <2>1. ch.EdmaActive
    BY DEF IInv, Inv, Control, Engine
  <2>2. Rings(ch)
    BY <2>1 DEF IInv, Inv, RingsLive, Live
  <2>3. ch.executing \subseteq InEdma(ch)
    BY <2>2 DEF Rings
  <2>4. \A j \in Slots : InRing(j, ch.reqOutPtr, ch.reqInPtr) => ch.requestQueue[j] \in InEdma(ch)
    BY <2>2 DEF Rings, Request
  <2>5. QED
    BY <2>3, <2>4 DEF UnderWay
<1>2. QED
  BY <1>1, Invariance, PTL

\* A response never stays in the ring without an interrupt: the routine clears
\* the cause before it reads the pointer.
THEOREM CompletionsAreNotLost == Spec => []NoLostCompletion
<1>1. IInv => NoLostCompletion
  BY DEF IInv, Inv, Control, Announced, NoLostCompletion
<1>2. QED
  BY <1>1, Invariance, PTL

\* mvSataEnableChannelDma does not refuse the channel the IAL initialised.
THEOREM EnableIsAccepted == Spec => []EnableAccepted
<1>1. IInv => EnableAccepted
  BY DEF IInv, Inv, Control, NotReady, EnableAccepted
<1>2. QED
  BY <1>1, Invariance, PTL

\* The request ring is not written while READ LOG EXT uses its memory.
THEOREM ReadLogHasRing == Spec => ReadLogKeepsRing
<1>1. IInv /\ ReadLogQueued => ~ch.edmaEnabled
  BY TagFacts DEF IInv, Inv, Control, PioOK, Engine, ReadLogQueued
<1>2. ASSUME IInv, Next, ReadLogQueued, ReadLogQueued' PROVE ch.requestQueue' = ch.requestQueue
  <2>1. KeepsRing(ch, ch')
    BY <1>2, NextServes DEF Serves, Accepts, Outcome, Accepted
  <2>2. QED
    BY <1>2, <2>1 DEF KeepsRing, ReadLogQueued
<1>3. IInv /\ IInv' /\ [Next]_vars =>
        [ReadLogQueued /\ ReadLogQueued' =>
           /\ ~ch.edmaEnabled /\ ~ch.edmaEnabled'
           /\ ch.requestQueue' = ch.requestQueue]_vars
  <2> SUFFICES ASSUME IInv, IInv', Next, ReadLogQueued, ReadLogQueued'
               PROVE  /\ ~ch.edmaEnabled /\ ~ch.edmaEnabled'
                      /\ ch.requestQueue' = ch.requestQueue
    OBVIOUS
  <2>1. ~ch.edmaEnabled
    BY <1>1
  <2>2. ~ch'.edmaEnabled
    BY TagFacts DEF IInv, Inv, Control, PioOK, Engine, ReadLogQueued
  <2>3. QED
    BY <1>2, <2>1, <2>2
<1>4. QED
  BY <1>3, Invariance, PTL DEF Spec, ReadLogKeepsRing

\* A channel that is not ready holds nothing.
LEMMA HoldsWhenReady ==
  ASSUME NEW s, NEW l, Inv(s, l), s.phase # "ready"
  PROVE  Held(s) = {}
BY NotReadyFacts

\* A step that serves the layer above is a step of SataCommandQueue: opening,
\* closing, one call back, or nothing.
LEMMA ServesIsPromised ==
  ASSUME IInv, IInv', Serves
  PROVE  [Promise!Next]_(Promise!qvars)
<1>1. PICK called : Outcome(ch, ch', isr', called)
  BY DEF Serves
<1>2. /\ called \subseteq Held(ch) /\ Held(ch') = Held(ch) \ called
      /\ \/ /\ called = {} \/ \E c \in Cmds : called = {c}
            /\ ch'.phase = ch.phase
         \/ Held(ch') = {} /\ ch'.phase # "ready"
         \/ called = {} /\ ch.phase # "ready"
  BY <1>1 DEF Outcome, Served
<1>3. Owed = Held(ch) /\ Owed' = Held(ch')
  BY DEF IInv, Owes, OwesWhatItHolds
<1>4. ch.phase # "ready" => Held(ch) = {}
  BY HoldsWhenReady DEF IInv
<1>5. CASE called = {} /\ ch'.phase = ch.phase
  BY <1>2, <1>3, <1>5 DEF Promise!qvars
<1>6. CASE (\E c \in Cmds : called = {c}) /\ ch'.phase = ch.phase
  <2>1. PICK c \in Cmds : called = {c}
    BY <1>6
  <2>2. c \in Held(ch) /\ ch.phase = "ready"
    BY <1>2, <1>4, <2>1
  <2>3. Promise!CallBack(c)
    BY <1>2, <1>3, <1>6, <2>1, <2>2 DEF Promise!CallBack
  <2>4. QED
    BY <2>3 DEF Promise!Next
<1>7. CASE Held(ch') = {} /\ ch'.phase # "ready"
  <2>1. CASE ch.phase = "ready"
    <3>1. Promise!Close
      BY <1>3, <1>7, <2>1 DEF Promise!Close
    <3>2. QED
      BY <3>1 DEF Promise!Next
  <2>2. CASE ch.phase # "ready"
    BY <1>3, <1>4, <1>7, <2>2 DEF Promise!qvars
  <2>3. QED
    BY <2>1, <2>2
<1>8. CASE called = {} /\ ch.phase # "ready"
  <2>1. Owed' = Owed
    BY <1>2, <1>3, <1>8
  <2>2. CASE ch'.phase = "ready"
    <3>1. Promise!Open
      BY <1>8, <2>1, <2>2 DEF Promise!Open
    <3>2. QED
      BY <3>1 DEF Promise!Next
  <2>3. CASE ch'.phase # "ready"
    BY <1>8, <2>1, <2>3 DEF Promise!qvars
  <2>4. QED
    BY <2>2, <2>3
<1>9. QED
  BY <1>2, <1>5, <1>6, <1>7, <1>8

\* A step that accepts a command is its Accept.
LEMMA AcceptsIsPromised ==
  ASSUME IInv, IInv', Accepts
  PROVE  [Promise!Next]_(Promise!qvars)
<1>1. PICK c \in Cmds : Accepted(ch, ch', isr', c) /\ lives[c] = 0
  BY DEF Accepts
<1>2. Inv(ch', isr') /\ Held(ch') = Held(ch) \cup {c} /\ ch'.phase = ch.phase
  BY <1>1 DEF Accepted
<1>3. Owed = Held(ch) /\ Owed' = Held(ch')
  BY DEF IInv, Owes, OwesWhatItHolds
<1>4. ch'.phase = "ready"
  BY <1>2, HoldsWhenReady
<1>5. c \notin Owed
  BY <1>1 DEF Owed
<1>6. Promise!Accept(c)
  BY <1>2, <1>3, <1>4, <1>5 DEF Promise!Accept
<1>7. QED
  BY <1>6 DEF Promise!Next

\* The channel of mvSata.c implements what SataCommandQueue promises the IAL: a
\* command goes in through an open channel only and comes back once, on its own
\* or with all the others when the channel is given up.
THEOREM Implements == Spec => ImplementsQueue
<1>1. Init => Promise!Init
  BY DEF Init, Owed, Promise!Init
<1>2. IInv /\ IInv' /\ [Next]_vars => [Promise!Next]_(Promise!qvars)
  <2>1. CASE Next
    BY <2>1, NextServes, ServesIsPromised, AcceptsIsPromised
  <2>2. CASE UNCHANGED vars
    BY <2>2 DEF vars, Owed, Promise!qvars
  <2>3. QED
    BY <2>1, <2>2
<1>3. QED
  BY <1>1, <1>2, Invariance, PTL DEF Spec, ImplementsQueue, Promise!Spec

-----------------------------------------------------------------------------
(* The EDMA and the PIO command at the head of the list.                   *)

\* The EDMA of an open queue is not in the way of a PIO command.
Turn(s) == s.queueCommandsEnabled /\ s.EdmaActive => ~HeadIsPIO(s)

\* The states in which the engine is stopped.
LEMMA OffTurn ==
  ASSUME NEW s, NEW l, Inv(s, l),
         \/ l.pc \in {"insert", "ports"} \/ s.phase # "ready" \/ s.pio # NoTag \/ Sensing(s)
  PROVE  Turn(s)
BY DEF Inv, Control, Engine, NotReady, PioOK, Recovery, Turn

\* The head of the list is the same command.
LEMMA SameTurn ==
  ASSUME NEW s, NEW r, QInv(s), Turn(s), r.commandsQueue = s.commandsQueue,
         \A t \in HostTags : r.entry[t].type = s.entry[t].type,
         r.queueCommandsEnabled /\ r.EdmaActive => s.queueCommandsEnabled /\ s.EdmaActive
  PROVE  Turn(r)
<1>1. s.commandsQueue # <<>> => Head(s.commandsQueue) \in HostTags \cup {ReadLog}
  BY ElemsAt DEF QInv, Channel, Listable
<1>2. HeadIsPIO(r) => HeadIsPIO(s)
  BY <1>1 DEF HeadIsPIO, IsPIO
<1>3. QED
  BY <1>2 DEF Turn

\* So it is when the queue is left alone.
LEMMA QueueTurn ==
  ASSUME NEW s, NEW r, QInv(s), Turn(s), SameQueue(s, r),
         r.queueCommandsEnabled /\ r.EdmaActive => s.queueCommandsEnabled /\ s.EdmaActive
  PROVE  Turn(r)
BY SameTurn DEF SameQueue, SameList

\* A command that is only linked: behind others, for an empty list would not be
\* in a recovery and would have no PIO command.
LEMMA LinkTurn ==
  ASSUME NEW c, NEW p, MayQueue(ch, isr, c, p), Turn(ch), NEW type \in {"UDMA", "NONE_UDMA"},
         NEW r, r = addCommand(ch, c, type, p), ch.commandsQueue # <<>>
  PROVE  Turn(r)
<1>1. QInv(ch) /\ c \in Cmds /\ c \notin Held(ch) /\ p \in Ports
  BY DEF MayQueue, Inv
<1>2. ch.HostTagsPool # <<>> /\ ch.DeviceTagsPool[p] # <<>>
  BY DEF MayQueue
<1>3. PICK t : t = Head(ch.HostTagsPool)
  OBVIOUS
<1>4. /\ SameRest(ch, r) /\ t \in HostTags \ Used(ch)
      /\ r.commandsQueue = Append(ch.commandsQueue, t)
      /\ \A u \in Used(ch) : r.entry[u] = ch.entry[u]
  BY <1>1, <1>2, <1>3, AddKeeps
<1>5. /\ Head(r.commandsQueue) = Head(ch.commandsQueue) /\ Len(ch.commandsQueue) \in Nat
      /\ \A k \in 1..Len(ch.commandsQueue) : r.commandsQueue[k] = ch.commandsQueue[k]
      /\ \A k \in 1..Len(ch.commandsQueue) :
           IsPIO(r, r.commandsQueue[k]) <=> IsPIO(ch, ch.commandsQueue[k])
  <2>1. NewLast(ch, r, t)
    BY <1>4 DEF NewLast
  <2>2. QED
    BY <1>1, <2>1, AppendedList
<1>6. Head(ch.commandsQueue) = ch.commandsQueue[1] /\ Len(ch.commandsQueue) > 0
  BY <1>1, ElemsAt DEF QInv, Channel
<1>7. IsPIO(r, Head(r.commandsQueue)) <=> IsPIO(ch, Head(ch.commandsQueue))
  BY <1>5, <1>6
<1>8. QED
  BY <1>4, <1>7 DEF Turn, HeadIsPIO, SameRest, SameEngine, SameMode

\* A channel that is open and without commands is idle.
LEMMA ListedTurn ==
  ASSUME NEW c, NEW p, MayQueue(ch, isr, c, p), ch.commandsQueue = <<>>
  PROVE  ch.noneUdmaOutstandingCommands = 0 /\ ch.state = "IDLE" /\ ch.outstandingCommands = 0
<1>1. Inv(ch, isr) /\ QInv(ch) /\ isr.pc = "idle" /\ ch.queueCommandsEnabled
  BY DEF MayQueue, Inv
<1>2. Used(ch) = {}
  BY <1>1, HeldFacts
<1>3. ch.state = "IDLE"
  BY <1>1, <1>2, EmptyIsIdle DEF Live
<1>4. NoneUdma(ch) = {}
  BY <1>2 DEF NoneUdma
<1>5. QED
  BY <1>1, <1>2, <1>3, <1>4, FS_EmptySet DEF QInv, QueueOK, CountOK, CountOf

\* mvSataQueueCommand puts a UDMA command into the ring when all the others are
\* there, behind one of them or as the first.
LEMMA PutTurn ==
  ASSUME NEW c, NEW p, MayQueue(ch, isr, c, p), ch.noneUdmaOutstandingCommands = 0,
         ch.state = "IDLE", NEW u, u = (IF ch.EdmaActive THEN ch ELSE activateEdma(ch)),
         NEW r, r = EdmaReqQueueInsert(addCommand(u, c, "UDMA", p), Head(ch.HostTagsPool))
  PROVE  Turn(r)
<1>1. /\ Inv(ch, isr) /\ QInv(ch) /\ ch \in Channel /\ isr.pc = "idle"
      /\ c \in Cmds /\ c \notin Held(ch) /\ p \in Ports /\ ch.queueCommandsEnabled
      /\ ch.HostTagsPool # <<>> /\ ch.DeviceTagsPool[p] # <<>>
  BY DEF MayQueue, Inv, QInv
<1>2. u \in Channel /\ SameQueue(ch, u)
  BY <1>1, ActivateFields, ZenonT(60) DEF Activated, SameQueue, SameList
<1>3. QInv(u) /\ Held(u) = Held(ch) /\ Used(u) = Used(ch)
  BY <1>1, <1>2, SameQueueKeeps
<1>4. PICK t, a : t = Head(ch.HostTagsPool) /\ a = addCommand(u, c, "UDMA", p)
  OBVIOUS
<1>5. /\ u.HostTagsPool # <<>> /\ u.DeviceTagsPool[p] # <<>> /\ t = Head(u.HostTagsPool)
      /\ u.entry = ch.entry
  BY <1>1, <1>2, <1>4 DEF SameQueue, SameList
<1>6. /\ QInv(a) /\ t \in HostTags \ Used(u) /\ Used(a) = Used(u) \cup {t}
      /\ a.entry[t].type = "UDMA" /\ \A x \in Used(u) : a.entry[x] = u.entry[x]
      /\ Elems(a.commandsQueue) \subseteq Elems(u.commandsQueue) \cup {t}
  <2>1. /\ QInv(a) /\ t \in HostTags \ Used(u) /\ Used(a) = Used(u) \cup {t}
        /\ a.entry[t].type = "UDMA" /\ \A x \in Used(u) : a.entry[x] = u.entry[x]
        /\ a.commandsQueue = Append(u.commandsQueue, t)
    BY <1>1, <1>3, <1>4, <1>5, AddKeeps
  <2>2. NewLast(u, a, t)
    BY <2>1 DEF NewLast
  <2>3. Elems(a.commandsQueue) = Elems(u.commandsQueue) \cup {t}
    <3>1. QInv(u)
      BY <1>3
    <3>2. QED
      BY <2>2, <3>1, AppendedList, ZenonT(60)
  <2>4. QED
    BY <2>1, <2>3
<1>7. SameCommands(a, r)
  <2>1. a \in Channel /\ t \in Used(a)
    BY <1>6 DEF QInv
  <2>2. QED
    BY <1>4, <2>1, PutFields DEF PutInto
<1>8. ReadLog \notin Elems(ch.commandsQueue)
  BY <1>1, AllUdmaInserted
<1>9. \A x \in Used(ch) : ch.entry[x].type # "NONE_UDMA"
  <2>1. NoneUdma(ch) = {} /\ IsFiniteSet(NoneUdma(ch))
    <3>1. IsFiniteSet(Used(ch)) /\ NoneUdma(ch) \subseteq Used(ch)
      BY <1>1, UsedFacts DEF NoneUdma
    <3>2. IsFiniteSet(NoneUdma(ch))
      BY <3>1, FS_Subset
    <3>3. Cardinality(NoneUdma(ch)) = 0
      BY <1>1 DEF QInv, QueueOK, CountOK, CountOf
    <3>4. QED
      BY <3>2, <3>3, FS_EmptySet
  <2>2. QED
    BY <2>1 DEF NoneUdma
<1>10. \A x \in Elems(r.commandsQueue) : ~IsPIO(r, x)
  <2>1. Elems(ch.commandsQueue) \subseteq Used(ch)
    BY <1>1, <1>8 DEF QInv, QueueOK, ListOK
  <2>2. Elems(r.commandsQueue) \subseteq Used(ch) \cup {t}
    BY <1>2, <1>6, <1>7, <2>1 DEF SameCommands, SameList, SameQueue
  <2>3. \A x \in Used(ch) \cup {t} : r.entry[x].type # "NONE_UDMA" /\ x \in HostTags
    BY <1>1, <1>3, <1>5, <1>6, <1>7, <1>9, UsedFacts DEF SameCommands
  <2>4. ReadLog \notin HostTags
    BY EdmaAssumption
  <2>5. QED
    BY <2>2, <2>3, <2>4 DEF IsPIO
<1>11. r.commandsQueue # <<>> => Head(r.commandsQueue) \in Elems(r.commandsQueue)
  <2>1. r.commandsQueue \in Seq(Listable)
    BY <1>6, <1>7 DEF SameCommands, SameList, QInv, Channel
  <2>2. QED
    BY <2>1, ElemsAt
<1>12. QED
  BY <1>10, <1>11 DEF Turn, HeadIsPIO

\* mvSataQueueCommand.
LEMMA QueueTurns ==
  ASSUME IInv, IInv', Turn(ch), NEW c \in Cmds, NEW p \in Ports,
         QueueUdma(c, p) \/ QueueNoneUdma(c, p)
  PROVE  Turn(ch')
<1>1. MayQueue(ch, isr, c, p)
  BY CanQueueFacts DEF QueueUdma, QueueNoneUdma
<1>2. CASE QueueUdma(c, p) /\ ch.noneUdmaOutstandingCommands = 0 /\ ch.state = "IDLE"
  <2>1. PICK u : u = IF ch.EdmaActive THEN ch ELSE activateEdma(ch)
    OBVIOUS
  <2>2. ch' = EdmaReqQueueInsert(addCommand(u, c, "UDMA", p), Head(ch.HostTagsPool))
    BY <1>2, <2>1 DEF QueueUdma, Accept
  <2>3. QED
    BY <1>1, <1>2, <2>1, <2>2, PutTurn
<1>3. CASE QueueUdma(c, p) /\ ~(ch.noneUdmaOutstandingCommands = 0 /\ ch.state = "IDLE")
  <2>1. ch' = addCommand(ch, c, "UDMA", p)
    BY <1>3 DEF QueueUdma, Accept
  <2>2. ch.commandsQueue # <<>>
    BY <1>1, <1>3, ListedTurn
  <2>3. QED
    BY <1>1, <2>1, <2>2, LinkTurn
<1>4. CASE QueueNoneUdma(c, p)
  <2>1. PICK a, u, t : /\ a = addCommand(ch, c, "NONE_UDMA", p)
                       /\ u = (IF a.EdmaActive THEN deactivateEdma(a) ELSE a)
                       /\ t = Head(ch.HostTagsPool)
    OBVIOUS
  <2>2. \/ a.outstandingCommands # 1 /\ ch' = a
        \/ a.outstandingCommands = 1 /\ (ch' = [u EXCEPT !.pio = t] \/ ch' = removeCommand(u, t))
    BY <1>4, <2>1 DEF QueueNoneUdma, Accept, Step
  <2>3. CASE a.outstandingCommands # 1 /\ ch' = a
    <3>1. ch.commandsQueue # <<>>
      <4>1. SUFFICES ASSUME ch.commandsQueue = <<>> PROVE FALSE
        OBVIOUS
      <4>2. ch.outstandingCommands = 0
        BY <1>1, <4>1, ListedTurn
      <4>3. a.outstandingCommands = ch.outstandingCommands + 1
        BY <1>1, <2>1 DEF addCommand, MayQueue, Inv, QInv, Channel
      <4>4. QED
        BY <2>3, <4>2, <4>3
    <3>2. QED
      BY <1>1, <2>1, <2>3, <3>1, LinkTurn
  <2>4. CASE a.outstandingCommands = 1
    <3>1. AlonePIO(ch, u, c, t)
      BY <1>1, <2>1, <2>4, AloneFacts
    <3>2. u \in Channel /\ QInv(u) /\ u.EdmaActive = FALSE /\ t \in HostTags /\ t \in Used(u)
      BY <3>1 DEF AlonePIO, QInv, Stopped
    <3>3. CASE ch' = [u EXCEPT !.pio = t]
      BY <3>2, <3>3, PioFields DEF Runs, SameEngine, Turn, Tags
    <3>4. CASE ch' = removeCommand(u, t)
      BY <3>2, <3>4, RemoveKeeps DEF SameRest, SameEngine, Turn
    <3>5. QED
      BY <2>2, <2>4, <3>3, <3>4
  <2>5. QED
    BY <2>2, <2>3, <2>4
<1>5. QED
  BY <1>2, <1>3, <1>4

\* The channel is given up.
LEMMA RestartTurns ==
  ASSUME IInv, IInv', NEW u, u \in Channel, ch' = restartChannel(u).ch
  PROVE  Turn(ch')
<1>1. ch'.phase = "restarted"
  <2>1. PICK d : d = disableChannelDma(u)
    OBVIOUS
  <2>2. d \in Channel
    BY <2>1, DisableFields
  <2>3. flushDmaQueue(d) \in Channel
    BY <2>2, ResetChannelFields DEF flushDmaQueue
  <2>4. ch' = [flushDmaQueue(d) EXCEPT !.phase = "restarted"]
    BY <2>1 DEF restartChannel
  <2>5. QED
    BY <2>3, <2>4, PhaseFields
<1>2. QED
  BY <1>1, OffTurn DEF IInv

\* The IAL initialises the channel, which has no commands, or gives it up.
LEMMA InitTurns ==
  ASSUME IInv, IInv', RestartChannel \/ ConfigureChannel \/ EnableChannelDma
  PROVE  Turn(ch')
<1>1. ch \in Channel /\ Inv(ch, isr)
  BY DEF IInv, Inv, QInv
<1>2. CASE RestartChannel
  BY <1>1, <1>2, RestartTurns DEF RestartChannel, Step
<1>3. CASE ConfigureChannel
  <2>1. PICK d : d = resetEdmaChannel(ch)
    OBVIOUS
  <2>2. d \in Channel
    BY <1>1, <2>1, ResetChannelFields
  <2>3. ch'.phase = "configured"
    BY <1>3, <2>1, <2>2 DEF ConfigureChannel, Step, Channel
  <2>4. QED
    BY <2>3, OffTurn DEF IInv
<1>4. CASE EnableChannelDma
  <2>1. ch.commandsQueue = <<>>
    BY <1>1, <1>4 DEF EnableChannelDma, Inv, Control, NotReady
  <2>2. PICK mode \in Modes : ch' = [activateEdma([ch EXCEPT !.queuedDMA = mode]) EXCEPT
                                       !.queueCommandsEnabled = TRUE, !.phase = "ready"]
    BY <1>4 DEF EnableChannelDma, Step
  <2>3. ch'.commandsQueue = ch.commandsQueue
    BY <1>1, <2>2 DEF activateEdma, Channel
  <2>4. QED
    BY <2>1, <2>3 DEF Turn, HeadIsPIO
<1>5. QED
  BY <1>2, <1>3, <1>4

\* The routine reads the causes and the pointer.
LEMMA ReadsTurn ==
  ASSUME IInv, Turn(ch), IsrClears \/ IsrReadsPointer \/ IsrResponsesDone
  PROVE  Turn(ch')
<1>1. ch \in Channel
  BY DEF IInv, Inv, QInv
<1>2. ch' = ch \/ ch' = [ch EXCEPT !.responseDone = FALSE]
  BY DEF IsrClears, IsrReadsPointer, IsrResponsesDone, Step
<1>3. /\ ch'.commandsQueue = ch.commandsQueue /\ ch'.entry = ch.entry
      /\ ch'.queueCommandsEnabled = ch.queueCommandsEnabled /\ ch'.EdmaActive = ch.EdmaActive
  BY <1>1, <1>2 DEF Channel
<1>4. QED
  BY <1>3 DEF Turn, HeadIsPIO, IsPIO

\* The request sense state is entered: the engine is stopped.
LEMMA SenseTurns ==
  ASSUME NEW x \in Channel, NEW k, NEW ret, NEW a, enterRequestSenseState(x, k, ret, a)
  PROVE  Turn(ch')
<1>1. ch' = Busy(x) \/ ch' = Asking(x)
  BY DEF enterRequestSenseState, Step, Busy, Asking, Sense
<1>2. ch'.EdmaActive = FALSE
  BY <1>1, SenseFields, ZenonT(60) DEF Sensed
<1>3. QED
  BY <1>2 DEF Turn

\* One turn of the loop over the responses: a PIO command that becomes the head
\* stops the EDMA.
LEMMA ResponseTurns ==
  ASSUME IInv, IInv', Turn(ch), IsrResponse
  PROVE  Turn(ch')
<1>1. PICK c, t, a : /\ c = ReadOne(ch, ch.rspOutPtr) /\ t = ch.responseQueue[ch.rspOutPtr].id
                     /\ a = Advanced(isr)
  OBVIOUS
<1>2. Inv(ch, isr) /\ QInv(ch) /\ ch \in Channel /\ isr.rspOutPtr = ch.rspOutPtr
  BY DEF IInv, IsrResponse, Inv, QInv, Control, Reads
<1>3. BadResponse(c, t, a) \/ GoodResponse(c, t, a)
  BY <1>1, <1>2 DEF IsrResponse, ReadOne, Advanced
<1>4. c \in Channel /\ Consumed(ch, c)
  BY <1>1, <1>2, ConsumeFields
<1>5. QInv(c)
  BY <1>2, <1>4, SameQueueKeeps DEF Consumed
<1>6. PICK r : r = removeCommand(c, t)
  OBVIOUS
<1>7. CASE BadResponse(c, t, a)
  <2>1. PICK o : o = Off(c)
    OBVIOUS
  <2>2. ch' = o \/ (t \in Used(c) /\ ch' = removeCommand(o, t))
    BY <1>7, <2>1 DEF BadResponse, Step, Off
  <2>3. o \in Channel /\ TurnedOff(c, o)
    BY <1>4, <2>1, OffFields
  <2>4. QInv(o) /\ Used(o) = Used(c) /\ o.queueCommandsEnabled = FALSE
    BY <1>5, <2>3, SameQueueKeeps DEF TurnedOff
  <2>5. ch'.queueCommandsEnabled = FALSE
    BY <2>2, <2>4, RemoveKeeps DEF SameRest, SameMode
  <2>6. QED
    BY <2>5 DEF Turn
<1>8. CASE GoodResponse(c, t, a) /\ t \notin Used(c)
  <2>1. ch' = c
    BY <1>8 DEF GoodResponse, Step
  <2>2. /\ SameQueue(ch, ch') /\ ch'.queueCommandsEnabled = ch.queueCommandsEnabled
        /\ ch'.EdmaActive = ch.EdmaActive
    BY <1>4, <2>1 DEF Consumed, SameMode, SameEngine
  <2>3. QED
    BY <1>2, <2>2, QueueTurn
<1>9. CASE GoodResponse(c, t, a) /\ t \in Used(c)
  <2>1. r \in Channel
    BY <1>5, <1>6, <1>9, RemoveKeeps DEF QInv
  <2>2. PICK k : k = {c.entry[t].cmd}
    OBVIOUS
  <2>3. \/ ch' = r /\ (~r.queueCommandsEnabled \/ ~HeadIsPIO(r))
        \/ enterRequestSenseState(r, k, "responses", a)
        \/ ch' = deactivateEdma(r)
    BY <1>6, <1>9, <2>2 DEF GoodResponse, Step
  <2>4. CASE ch' = r /\ (~r.queueCommandsEnabled \/ ~HeadIsPIO(r))
    BY <2>4 DEF Turn
  <2>5. CASE enterRequestSenseState(r, k, "responses", a)
    BY <2>1, <2>5, SenseTurns
  <2>6. CASE ch' = deactivateEdma(r)
    BY <2>1, <2>6, DeactivateFields DEF Deactivated, Turn
  <2>7. QED
    BY <2>3, <2>4, <2>5, <2>6
<1>10. QED
  BY <1>3, <1>7, <1>8, <1>9

\* The error register is cleared, and nothing else happens.
LEMMA ClearTurns ==
  ASSUME NEW s, QInv(s), Turn(s), NEW r, r = Clear(s)
  PROVE  Turn(r)
<1>1. s \in Channel
  BY DEF QInv
<1>2. SameQueue(s, r) /\ SameMode(s, r) /\ r.EdmaActive = s.EdmaActive
  BY <1>1, ClearFields
<1>3. QED
  BY <1>2, QueueTurn DEF SameMode

\* _doDevErrorRecovery of a channel that is disabled, or whose engine is stopped.
LEMMA RecoveryTurns ==
  ASSUME NEW x \in Channel, NEW k, NEW ret, IInv, IInv', doDevErrorRecovery(x, k, ret),
         ~x.queueCommandsEnabled \/ ~x.EdmaActive
  PROVE  Turn(ch')
<1>1. ch' = x \/ isr'.pc = "insert"
  BY DEF doDevErrorRecovery, Step, Call, IInv, Inv, Locals
<1>2. CASE ch' = x
  BY <1>2 DEF Turn
<1>3. CASE isr'.pc = "insert"
  BY <1>3, OffTurn DEF IInv
<1>4. QED
  BY <1>1, <1>2, <1>3

\* A PIO command that fails disables the queue.
LEMMA FailTurns ==
  ASSUME IInv, IInv', NEW t \in Used(ch), NEW ret, failPIOCommand(ch, t, ret)
  PROVE  Turn(ch')
<1>1. PICK x, u, k : /\ u = removeCommand(ch, t) /\ x = FailedPio(ch, t)
                     /\ k = {ch.entry[t].cmd}
  OBVIOUS
<1>2. u \in Channel
  BY <1>1, RemoveKeeps DEF IInv, Inv, QInv
<1>3. x = [u EXCEPT !.queueCommandsEnabled = FALSE, !.pio = NoTag]
  BY <1>1 DEF FailedPio
<1>4. x \in Channel /\ ~x.queueCommandsEnabled
  BY <1>2, <1>3, ZenonT(60) DEF Channel, Tags
<1>5. doDevErrorRecovery(x, k, ret)
  BY <1>1 DEF failPIOCommand, FailedPio
<1>6. QED
  BY <1>4, <1>5, RecoveryTurns

\* handleDevErr marks commands, and their types stay.
LEMMA DevErrTurns ==
  ASSUME IInv, Turn(ch), ErrorDevErr
  PROVE  Turn(ch')
<1>1. Inv(ch, isr) /\ QInv(ch) /\ ch \in Channel /\ isr.pc = "error"
      /\ "devErr" \in ch.errorCause
  BY DEF IInv, Inv, QInv, ErrorDevErr
<1>2. PICK u, v : u = Clear(ch) /\ v = Noticed(ch)
  OBVIOUS
<1>3. /\ u \in Channel /\ SameQueue(ch, u) /\ u.state = ch.state
      /\ u.queueCommandsEnabled = ch.queueCommandsEnabled /\ u.EdmaActive = ch.EdmaActive
  BY <1>1, <1>2, ClearFields DEF SameMode, SameErrors
<1>4. PICK f, z, b : /\ f = AbortedEntries(ch, b) /\ b = ch.PortsWithErrors \cup InError(ch)
                     /\ z = IF ch.state = "IDLE" THEN "WAIT_FOR_COMPLETIONS" ELSE ch.state
  OBVIOUS
<1>5. v = [u EXCEPT !.state = z, !.PortsWithErrors = b, !.entry = f]
  BY <1>2, <1>3, <1>4 DEF Noticed
<1>6. /\ v.commandsQueue = ch.commandsQueue /\ v.entry = f /\ v.EdmaActive = ch.EdmaActive
      /\ v.queueCommandsEnabled = ch.queueCommandsEnabled
  BY <1>3, <1>5 DEF Channel, SameQueue, SameList
<1>7. \A t \in HostTags : v.entry[t].type = ch.entry[t].type
  BY <1>1, <1>4, <1>6, AbortFields
<1>8. \/ ch' = u
      \/ /\ ch.EdmaActive /\ Native(ch)
         /\ ch' = v \/ \E k, ret, a : enterRequestSenseState(v, k, ret, a)
  <2>1. u = Cleared /\ u.entry = ch.entry
    BY <1>2, <1>3 DEF Clear, Cleared, SameQueue
  <2>2. v = [Cleared EXCEPT
              !.state = IF @ = "IDLE" THEN "WAIT_FOR_COMPLETIONS" ELSE @,
              !.PortsWithErrors = ch.PortsWithErrors \cup {p \in Ports : ch.erring[p] # NoTag},
              !.entry = [t \in HostTags |->
                           IF t \in LeadingInEdma(ch) /\ @[t].PMPort \in
                               ch.PortsWithErrors \cup {p \in Ports : ch.erring[p] # NoTag}
                           THEN [@[t] EXCEPT !.commandAborted = TRUE]
                           ELSE @[t]]]
    BY <1>3, <1>4, <1>5, <2>1 DEF AbortedEntries, InError
  <2>3. \/ ch' = u
        \/ /\ ch.EdmaActive /\ Native(ch)
           /\ ch' = v \/ enterRequestSenseState(v, {}, "idle", isr)
    BY <2>1, <2>2 DEF ErrorDevErr, Native, Step
  <2>4. QED
    BY <2>3
<1>9. CASE ch' = u
  BY <1>1, <1>2, <1>9, ClearTurns
<1>10. CASE ch' = v
  BY <1>1, <1>6, <1>7, <1>10, SameTurn
<1>11. CASE ch.EdmaActive /\ Native(ch) /\ \E k, ret, a : enterRequestSenseState(v, k, ret, a)
  <2>1. v \in Channel
    BY <1>1, <1>2, <1>11, NoticedKeeps DEF Outcome, Inv, QInv
  <2>2. QED
    BY <1>11, <2>1, SenseTurns
<1>12. QED
  BY <1>8, <1>9, <1>10, <1>11

\* handleEdmaError.
LEMMA ErrorTurns ==
  ASSUME IInv, IInv', Turn(ch), \/ ErrorLink \/ ErrorAsyncNotify \/ ErrorSelfDisable
                                \/ ErrorDevErr \/ ErrorRecoverable \/ ErrorNothing
  PROVE  Turn(ch')
<1>1. Inv(ch, isr) /\ QInv(ch) /\ ch \in Channel
  BY DEF IInv, Inv, QInv
<1>2. PICK u : u = Clear(ch)
  OBVIOUS
<1>3. u = Cleared
  BY <1>2 DEF Clear, Cleared
<1>4. /\ u \in Channel /\ SameQueue(ch, u) /\ SameMode(ch, u) /\ u.EdmaActive = ch.EdmaActive
      /\ u.queueCommandsEnabled = ch.queueCommandsEnabled /\ u.state = ch.state
  BY <1>1, <1>2, ClearFields DEF SameMode, SameErrors
<1>5. Turn(u)
  BY <1>1, <1>2, ClearTurns
<1>6. CASE ch' = u
  BY <1>5, <1>6
<1>7. CASE ch' = restartChannel(u).ch
  BY <1>4, <1>7, RestartTurns
<1>8. CASE ErrorLink
  <2>1. \/ ch' = restartChannel(u).ch \/ ch' = u
        \/ ch' = [u EXCEPT !.queueCommandsEnabled = FALSE, !.EdmaActive = FALSE,
                           !.edmaEnabled = FALSE, !.executing = {}]
    BY <1>3, <1>8 DEF ErrorLink, Step
  <2>2. CASE ch' = [u EXCEPT !.queueCommandsEnabled = FALSE, !.EdmaActive = FALSE,
                             !.edmaEnabled = FALSE, !.executing = {}]
    <3>1. ch'.EdmaActive = FALSE
      BY <1>4, <2>2 DEF Channel
    <3>2. QED
      BY <3>1 DEF Turn
  <2>3. QED
    BY <1>6, <1>7, <2>1, <2>2
<1>9. CASE ErrorAsyncNotify \/ ErrorRecoverable
  <2>1. ch' = u \/ ch' = restartChannel(u).ch
    BY <1>3, <1>9 DEF ErrorAsyncNotify, ErrorRecoverable, Step
  <2>2. QED
    BY <1>6, <1>7, <2>1
<1>10. CASE ErrorSelfDisable
  <2>1. PICK o : o = Off(u)
    OBVIOUS
  <2>2. o \in Channel /\ o.queueCommandsEnabled = FALSE /\ QInv(o)
    <3>1. o \in Channel /\ TurnedOff(u, o)
      BY <1>4, <2>1, OffFields
    <3>2. SameQueue(ch, o)
      BY <1>4, <3>1 DEF TurnedOff, SameQueue, SameList
    <3>3. QED
      BY <1>1, <3>1, <3>2, SameQueueKeeps DEF TurnedOff
  <2>3. \/ ~ch.EdmaActive /\ doDevErrorRecovery(u, {}, "idle")
        \/ doDevErrorRecovery(o, {}, "idle")
        \/ \E t \in FailedCommand(o) :
             doDevErrorRecovery(removeCommand(o, t), {o.entry[t].cmd}, "idle")
    BY <1>3, <1>10, <2>1 DEF ErrorSelfDisable, Off
  <2>4. CASE ~ch.EdmaActive /\ doDevErrorRecovery(u, {}, "idle")
    <3>1. PICK k, ret : k = {} /\ ret = "idle"
      OBVIOUS
    <3>2. QED
      BY <1>4, <2>4, <3>1, RecoveryTurns
  <2>5. CASE doDevErrorRecovery(o, {}, "idle")
    <3>1. PICK k, ret : k = {} /\ ret = "idle"
      OBVIOUS
    <3>2. QED
      BY <2>2, <2>5, <3>1, RecoveryTurns
  <2>6. CASE \E t \in FailedCommand(o) :
               doDevErrorRecovery(removeCommand(o, t), {o.entry[t].cmd}, "idle")
    <3>1. PICK t \in FailedCommand(o) :
            doDevErrorRecovery(removeCommand(o, t), {o.entry[t].cmd}, "idle")
      BY <2>6
    <3>2. t \in Used(o)
      BY <2>2, <3>1, FailedUsed
    <3>3. PICK x, k, ret : x = removeCommand(o, t) /\ k = {o.entry[t].cmd} /\ ret = "idle"
      OBVIOUS
    <3>4. x \in Channel /\ x.queueCommandsEnabled = FALSE
      BY <2>2, <3>2, <3>3, RemoveKeeps DEF SameRest, SameMode, QInv
    <3>5. QED
      BY <3>1, <3>3, <3>4, RecoveryTurns
  <2>7. QED
    BY <2>3, <2>4, <2>5, <2>6
<1>11. CASE ErrorDevErr
  BY <1>1, <1>3, <1>6, <1>11, DevErrTurns
<1>12. CASE ErrorNothing
  BY <1>12 DEF ErrorNothing, Step
<1>13. QED
  BY <1>8, <1>9, <1>10, <1>11, <1>12

\* _insertQCommandsIntoEdma starts the EDMA with a UDMA command at the head.
LEMMA InsertTurns ==
  ASSUME IInv, IInv', InsertQCommandsIntoEdma
  PROVE  Turn(ch')
<1>1. Inv(ch, isr) /\ isr.pc = "insert"
  BY DEF IInv, InsertQCommandsIntoEdma
<1>2. /\ ch \in Channel /\ QInv(ch) /\ Stopped(ch)
      /\ ReadLog \notin Elems(ch.commandsQueue)
  BY <1>1, InsertFacts
<1>3. PICK t : t = Head(ch.commandsQueue)
  OBVIOUS
<1>4. CASE ch.commandsQueue = <<>>
  <2>1. ch' = ch
    BY <1>4 DEF InsertQCommandsIntoEdma, Step
  <2>2. QED
    BY <1>4, <2>1 DEF Turn, HeadIsPIO
<1>5. CASE ch.commandsQueue # <<>> /\ ~IsPIO(ch, t)
  <2>1. ch' = insertLeadingUdma(ch)
    BY <1>3, <1>5 DEF InsertQCommandsIntoEdma, Step
  <2>2. /\ ch'.commandsQueue = ch.commandsQueue
        /\ \A x \in HostTags : ch'.entry[x].type = ch.entry[x].type
    <3>1. PICK q : q = ch.commandsQueue
      OBVIOUS
    <3>2. PICK n \in 0..(QueueLength - 1) :
            n = Cardinality(LeadingUdma(ch)) /\ \A k \in 1..n : q[k] \in Used(ch)
      BY <1>2, <3>1, LeadingUdmaFacts
    <3>3. Filled(ch, ch', n)
      BY <1>2, <2>1, <3>1, <3>2, FillFields
    <3>4. ch'.entry = InsertedEntries(ch, q, n) /\ SameList(ch, ch')
      BY <3>1, <3>3 DEF Filled
    <3>5. \A x \in HostTags : ch'.entry[x].type = ch.entry[x].type
      BY <1>2, <3>2, <3>4, InsertEntryFields
    <3>6. QED
      BY <3>4, <3>5 DEF SameList
  <2>3. t \in HostTags \cup {ReadLog}
    BY <1>2, <1>3, <1>5, ElemsAt DEF Channel, Listable
  <2>4. ~HeadIsPIO(ch')
    BY <1>3, <1>5, <2>2, <2>3 DEF HeadIsPIO, IsPIO
  <2>5. QED
    BY <2>4 DEF Turn
<1>6. CASE ch.commandsQueue # <<>> /\ IsPIO(ch, t)
  <2>1. HeadIsPIO(ch)
    BY <1>3, <1>6 DEF HeadIsPIO
  <2>2. t \in Used(ch) /\ t \in HostTags
    BY <1>2, <1>3, <2>1, HeadPio, UsedFacts
  <2>3. ch' = [ch EXCEPT !.pio = t] \/ failPIOCommand(ch, t, isr.ret)
    BY <1>3, <1>6 DEF InsertQCommandsIntoEdma, Step
  <2>4. CASE ch' = [ch EXCEPT !.pio = t]
    BY <1>2, <2>2, <2>4, PioFields DEF Runs, SameEngine, Stopped, Turn, Tags
  <2>5. CASE failPIOCommand(ch, t, isr.ret)
    <3>1. PICK ret : ret = isr.ret
      OBVIOUS
    <3>2. QED
      BY <2>2, <2>5, <3>1, FailTurns
  <2>6. QED
    BY <2>3, <2>4, <2>5
<1>7. QED
  BY <1>4, <1>5, <1>6

\* handlePortError: the engine stays stopped.
LEMMA PortsTurn ==
  ASSUME IInv, HandlePortError
  PROVE  Turn(ch')
<1>1. ch \in Channel /\ ch.EdmaActive = FALSE
  BY DEF IInv, Inv, QInv, Control, Engine, HandlePortError, Channel
<1>2. ch'.EdmaActive = FALSE
  <2>1. PICK p, a, q : a = resetEdmaQPointers(ch) /\ q = <<ReadLog>> \o ch.commandsQueue
                 /\ p = CHOOSE x \in Unasked(ch) : \A y \in Unasked(ch) : x <= y
    OBVIOUS
  <2>2. a \in Channel /\ a.EdmaActive = FALSE
    BY <1>1, <2>1, ResetFields DEF Emptied, SameEngine
  <2>3. \/ ch' = [a EXCEPT !.state = "IDLE", !.PortsWithErrors = {}, !.CurrPort = 0]
        \/ ch' = [[ch EXCEPT !.CurrPort = p, !.commandsQueue = q] EXCEPT !.pio = ReadLog]
        \/ ch' = failReadLog([ch EXCEPT !.CurrPort = p, !.commandsQueue = q])
    BY <2>1 DEF HandlePortError, Step, Unasked
  <2>4. QED
    BY <1>1, <2>2, <2>3 DEF failReadLog, Channel
<1>3. QED
  BY <1>2 DEF Turn

\* handlePIOInterrupt: the list is inserted next, or the queue is disabled.
LEMMA PioTurns ==
  ASSUME IInv, IInv', NEW t \in Used(ch), pioInterrupt(t)
  PROVE  Turn(ch')
<1>1. isr'.pc = "insert" \/ \E ret : failPIOCommand(ch, t, ret)
  BY DEF pioInterrupt, Step, Idle
<1>2. CASE isr'.pc = "insert"
  BY <1>2, OffTurn DEF IInv
<1>3. CASE \E ret : failPIOCommand(ch, t, ret)
  BY <1>3, FailTurns
<1>4. QED
  BY <1>1, <1>2, <1>3

\* handleDeviceInterrupt.
LEMMA DeviceTurns ==
  ASSUME IInv, IInv', Turn(ch), \/ DeviceNotBusy \/ DevicePIO \/ DeviceReadLog
                                \/ DeviceSpurious \/ DeviceLate
  PROVE  Turn(ch')
<1>1. Inv(ch, isr) /\ QInv(ch) /\ ch \in Channel
  BY DEF IInv, Inv, QInv
<1>2. CASE DeviceNotBusy
  <2>1. isr'.pc = "ports"
    BY <1>2 DEF DeviceNotBusy, Step, PioPorts, Idle
  <2>2. QED
    BY <2>1, OffTurn DEF IInv
<1>3. CASE DevicePIO
  <2>1. AtHead(ch, ch.pio)
    BY <1>1, <1>3, PioRuns DEF DevicePIO
  <2>2. PICK t : t = ch.pio
    OBVIOUS
  <2>3. t \in Used(ch) /\ pioInterrupt(t)
    BY <1>3, <2>1, <2>2 DEF AtHead, DevicePIO
  <2>4. QED
    BY <2>3, PioTurns
<1>4. CASE DeviceReadLog
  <2>1. /\ ch.pio = ReadLog /\ isr.pc = "idle"
    BY <1>4 DEF DeviceReadLog, DeviceInterrupt
  <2>2. Sensing(ch)
    BY <1>1, <2>1, LogRuns
  <2>3. PICK u : u = LogDone(ch)
    OBVIOUS
  <2>4. ch' = u \/ ch' = failReadLog(ch) \/ isr'.pc = "ports"
    BY <1>4, <2>3 DEF DeviceReadLog, Step, LogDone, PioPorts, Idle
  <2>5. CASE ch' = u \/ ch' = failReadLog(ch)
    <3>1. ch'.state = ch.state
      BY <1>1, <2>1, <2>3, <2>5, LogDoneKeeps
    <3>2. Sensing(ch')
      BY <2>2, <3>1 DEF Sensing
    <3>3. QED
      BY <3>2, OffTurn DEF IInv
  <2>6. CASE isr'.pc = "ports"
    BY <2>6, OffTurn DEF IInv
  <2>7. QED
    BY <2>4, <2>5, <2>6
<1>5. CASE DeviceSpurious
  <2>1. ch' = [ch EXCEPT !.saDevMask = FALSE]
    BY <1>5 DEF DeviceSpurious, Step
  <2>2. /\ ch'.commandsQueue = ch.commandsQueue /\ ch'.entry = ch.entry
        /\ ch'.queueCommandsEnabled = ch.queueCommandsEnabled
        /\ ch'.EdmaActive = ch.EdmaActive
    BY <1>1, <2>1 DEF Channel
  <2>3. QED
    BY <2>2 DEF Turn, HeadIsPIO, IsPIO
<1>6. CASE DeviceLate
  <2>1. PICK t : t = Head(ch.commandsQueue)
    OBVIOUS
  <2>2. AtHead(ch, t)
    BY <1>1, <1>6, <2>1, LateFacts DEF DeviceLate, DeviceInterrupt
  <2>3. t \in Used(ch) /\ pioInterrupt(t)
    BY <1>6, <2>1, <2>2 DEF AtHead, DeviceLate
  <2>4. QED
    BY <2>3, PioTurns
<1>7. QED
  BY <1>2, <1>3, <1>4, <1>5, <1>6

\* The hardware moves neither the list nor the switch between EDMA and PIO.
LEMMA HardwareTurns ==
  ASSUME IInv, Turn(ch), \/ EdmaFetches
                         \/ \E t \in HostTags : DriveCompletes(t) \/ DriveFails(t)
                         \/ \E kind \in LinkFaults : LinkEvent(kind)
                         \/ \E kind \in Notices : LinkNotice(kind)
  PROVE  Turn(ch')
<1>1. ch \in Channel
  BY DEF IInv, Inv, QInv
<1>2. /\ ch'.commandsQueue = ch.commandsQueue /\ ch'.entry = ch.entry
      /\ ch'.queueCommandsEnabled = ch.queueCommandsEnabled /\ ch'.EdmaActive = ch.EdmaActive
  <2>1. CASE EdmaFetches
    <3>1. PICK t, n, g, x, y :
            /\ t = ch.requestQueue[ch.reqOutPtr] /\ n = Next1(ch.reqOutPtr)
            /\ g = [ch.requestQueue EXCEPT ![ch.reqOutPtr] = NoTag]
            /\ x = ch.executing \cup {t} /\ y = ch.errorCause \cup {"devErr"}
      OBVIOUS
    <3>2. \/ ch' = [[ch EXCEPT !.reqOutPtr = n, !.requestQueue = g] EXCEPT !.errorCause = y]
          \/ ch' = [[ch EXCEPT !.reqOutPtr = n, !.requestQueue = g] EXCEPT !.executing = x]
      BY <1>1, <2>1, <3>1 DEF EdmaFetches, Hardware, Channel
    <3>3. QED
      BY <1>1, <3>2, ZenonT(60) DEF Channel
  <2>2. CASE \E t \in HostTags : DriveCompletes(t)
    BY <1>1, <2>2, ZenonT(60) DEF DriveCompletes, Respond, Hardware, Channel
  <2>3. CASE \E t \in HostTags : DriveFails(t)
    <3>1. PICK t \in HostTags : DriveFails(t)
      BY <2>3
    <3>2. PICK e, y, z, x : /\ y = ch.errorCause \cup {"devErr"}
                            /\ z = ch.errorCause \cup {"devErr", "selfDisable"}
                            /\ e = [ch.erring EXCEPT ![ch.entry[t].PMPort] = ch.entry[t].deviceTag]
                            /\ x = {v \in ch.executing : ch.entry[v].PMPort # ch.entry[t].PMPort}
      OBVIOUS
    <3>3. PICK f : f = [[ch EXCEPT !.erring = e] EXCEPT !.edmaEnabled = FALSE, !.errorCause = z]
      OBVIOUS
    <3>4. \/ ch' = [[ch EXCEPT !.erring = e] EXCEPT !.errorCause = y, !.executing = x]
          \/ ch' = [f EXCEPT !.executing = {}]
          \/ ch' = [Respond(f, t, TRUE) EXCEPT !.executing = {}]
      BY <1>1, <3>1, <3>2, <3>3 DEF DriveFails, Hardware, Channel
    <3>5. QED
      BY <1>1, <3>3, <3>4, ZenonT(60) DEF Respond, Channel
  <2>4. CASE \E kind \in LinkFaults : LinkEvent(kind)
    BY <1>1, <2>4 DEF LinkEvent, Hardware, Channel
  <2>5. CASE \E kind \in Notices : LinkNotice(kind)
    BY <1>1, <2>5 DEF LinkNotice, Hardware, Channel
  <2>6. QED
    BY <2>1, <2>2, <2>3, <2>4, <2>5
<1>3. QED
  BY <1>2 DEF Turn, HeadIsPIO, IsPIO

\* Every step leaves a PIO command at the head its turn.
LEMMA NextTurns == IInv /\ PioNotStranded /\ [Next]_vars => PioNotStranded'
<1>1. SUFFICES ASSUME IInv, Turn(ch), [Next]_vars PROVE Turn(ch')
  BY DEF PioNotStranded, Turn
<1>2. IInv'
  BY <1>1, NextOK
<1>3. CASE UNCHANGED vars
  BY <1>1, <1>3 DEF vars
<1>4. CASE \E c \in Cmds, p \in Ports : QueueUdma(c, p) \/ QueueNoneUdma(c, p)
  BY <1>1, <1>2, <1>4, QueueTurns
<1>5. CASE RestartChannel \/ ConfigureChannel \/ EnableChannelDma
  BY <1>1, <1>2, <1>5, InitTurns
<1>6. CASE IsrStep
  <2>1. CASE IsrClears \/ IsrReadsPointer \/ IsrResponsesDone
    BY <1>1, <2>1, ReadsTurn
  <2>2. CASE IsrResponse
    BY <1>1, <1>2, <2>2, ResponseTurns
  <2>3. CASE \/ ErrorLink \/ ErrorAsyncNotify \/ ErrorSelfDisable \/ ErrorDevErr
             \/ ErrorRecoverable \/ ErrorNothing
    BY <1>1, <1>2, <2>3, ErrorTurns
  <2>4. CASE InsertQCommandsIntoEdma \/ HandlePortError
    BY <1>1, <1>2, <2>4, InsertTurns, PortsTurn
  <2>5. QED
    BY <1>6, <2>1, <2>2, <2>3, <2>4 DEF IsrStep
<1>7. CASE DeviceNotBusy \/ DevicePIO \/ DeviceReadLog \/ DeviceSpurious \/ DeviceLate
  BY <1>1, <1>2, <1>7, DeviceTurns
<1>8. CASE \/ EdmaFetches
           \/ \E t \in HostTags : DriveCompletes(t) \/ DriveFails(t)
           \/ \E kind \in LinkFaults : LinkEvent(kind)
           \/ \E kind \in Notices : LinkNotice(kind)
  BY <1>1, <1>8, HardwareTurns
<1>9. QED
  BY <1>1, <1>3, <1>4, <1>5, <1>6, <1>7, <1>8 DEF Next

\* The EDMA never owns the drive while a PIO command heads the list of an open
\* queue, where nothing would send it: every path that makes one the head stops
\* the EDMA, and every path that starts the EDMA has a UDMA command there.
THEOREM PioGetsItsTurn == Spec => []PioNotStranded
<1>1. Init => PioNotStranded
  BY DEF Init, PioNotStranded
<1>2. QED
  BY <1>1, NextTurns, Invariance, PTL DEF Spec

=============================================================================
