--------------------------- MODULE IALQueueProofs ---------------------------
(***************************************************************************)
(* What the steps of IALChannel do to the three lists of commands and to   *)
(* the saved snapshot: no command is in two lists or twice in one, none    *)
(* stays parked in a settled channel, and every change of the snapshot is  *)
(* reported.                                                               *)
(***************************************************************************)
EXTENDS IALChannelProofs, FiniteSetTheorems

-----------------------------------------------------------------------------
(* Sequences without repetition.                                           *)

Once(s) == \A i, j \in 1..Len(s) : s[i] = s[j] => i = j

\* The empty list repeats nothing.
LEMMA OnceEmpty == Once(<<>>)
BY DEF Once

\* Joining two lists without repetition that share no command.
LEMMA OnceConcat ==
  ASSUME NEW S, NEW s \in Seq(S), NEW t \in Seq(S),
         Once(s), Once(t), Elems(s) \cap Elems(t) = {}
  PROVE  Once(s \o t)
<1>1. /\ Len(s \o t) = Len(s) + Len(t)
      /\ \A i \in 1 .. Len(s) + Len(t) :
           (s \o t)[i] = IF i <= Len(s) THEN s[i] ELSE t[i - Len(s)]
  BY ConcatProperties
<1>2. Len(s) \in Nat /\ Len(t) \in Nat
  BY LenProperties
<1>3. ASSUME NEW i \in 1..Len(s), NEW j \in 1..Len(t)
      PROVE  s[i] # t[j]
  BY Zenon DEF Elems
<1>4. SUFFICES ASSUME NEW i \in 1..Len(s) + Len(t), NEW j \in 1..Len(s) + Len(t),
                      (s \o t)[i] = (s \o t)[j]
               PROVE  i = j
  BY <1>1, Zenon DEF Once
<1>5. CASE i <= Len(s) /\ j <= Len(s)
  <2>1. i \in 1..Len(s) /\ j \in 1..Len(s) /\ s[i] = s[j]
    BY <1>1, <1>2, <1>4, <1>5
  <2>2. QED
    BY <2>1 DEF Once
<1>6. CASE i > Len(s) /\ j > Len(s)
  <2>1. /\ i - Len(s) \in 1..Len(t) /\ j - Len(s) \in 1..Len(t)
        /\ t[i - Len(s)] = t[j - Len(s)]
    BY <1>1, <1>2, <1>4, <1>6
  <2>2. i - Len(s) = j - Len(s)
    BY <2>1, Zenon DEF Once
  <2>3. QED
    BY <1>2, <2>2
<1>7. CASE i <= Len(s) /\ j > Len(s)
  <2>1. i \in 1..Len(s) /\ j - Len(s) \in 1..Len(t) /\ s[i] = t[j - Len(s)]
    BY <1>1, <1>2, <1>4, <1>7
  <2>2. QED
    BY <1>3, <2>1, Zenon
<1>8. CASE i > Len(s) /\ j <= Len(s)
  <2>1. j \in 1..Len(s) /\ i - Len(s) \in 1..Len(t) /\ s[j] = t[i - Len(s)]
    BY <1>1, <1>2, <1>4, <1>8
  <2>2. QED
    BY <1>3, <2>1, Zenon
<1>9. QED
  BY <1>2, <1>5, <1>6, <1>7, <1>8

\* Appending a new command.
LEMMA OnceAppend ==
  ASSUME NEW S, NEW s \in Seq(S), NEW e \in S, Once(s), e \notin Elems(s)
  PROVE  Once(Append(s, e))
<1>1. /\ Len(Append(s, e)) = Len(s) + 1
      /\ \A i \in 1 .. Len(s) : Append(s, e)[i] = s[i]
      /\ Append(s, e)[Len(s) + 1] = e
  BY AppendProperties
<1>2. Len(s) \in Nat
  BY LenProperties
<1>3. \A i \in 1..Len(s) : s[i] # e
  BY Zenon DEF Elems
<1>4. QED
  BY <1>1, <1>2, <1>3 DEF Once

\* Taking out a command that occurs once.
LEMMA OnceWithout ==
  ASSUME NEW S, NEW s \in Seq(S), NEW i \in 1..Len(s), Once(s)
  PROVE  /\ Once(WithoutIndex(s, i))
         /\ Elems(WithoutIndex(s, i)) = Elems(s) \ {s[i]}
<1> DEFINE front == SubSeq(s, 1, i - 1)
           back  == SubSeq(s, i + 1, Len(s))
<1>1. Len(s) \in Nat
  BY LenProperties
<1>2. /\ front \in Seq(S) /\ Len(front) = i - 1
      /\ \A k \in 1..(i - 1) : front[k] = s[k]
  BY <1>1, SubSeqProperties
<1>3. /\ back \in Seq(S) /\ Len(back) = Len(s) - i
      /\ \A k \in 1..(Len(s) - i) : back[k] = s[k + i]
  BY <1>1, SubSeqProperties
<1>4. ASSUME NEW k \in 1..Len(front)
      PROVE  k \in 1..Len(s) /\ k < i /\ front[k] = s[k]
  BY <1>1, <1>2
<1>5. ASSUME NEW k \in 1..Len(back)
      PROVE  k + i \in 1..Len(s) /\ k + i > i /\ back[k] = s[k + i]
  BY <1>1, <1>3
<1> HIDE DEF front, back
<1>6. Once(front)
  <2>1. ASSUME NEW k \in 1..Len(front), NEW l \in 1..Len(front), front[k] = front[l]
        PROVE  k = l
    BY <1>4, <2>1, Zenon DEF Once
  <2>2. QED
    BY <2>1, Zenon DEF Once
<1>7. Once(back)
  <2>1. ASSUME NEW k \in 1..Len(back), NEW l \in 1..Len(back), back[k] = back[l]
        PROVE  k = l
    <3>1. k + i = l + i
      BY <1>5, <2>1, Zenon DEF Once
    <3>2. QED
      BY <1>3, <3>1
  <2>2. QED
    BY <2>1, Zenon DEF Once
<1>8. Elems(front) \cap Elems(back) = {}
  <2>1. ASSUME NEW k \in 1..Len(front), NEW l \in 1..Len(back), front[k] = back[l]
        PROVE  FALSE
    <3>1. k \in 1..Len(s) /\ l + i \in 1..Len(s) /\ s[k] = s[l + i]
      BY <1>4, <1>5, <2>1
    <3>2. k = l + i
      BY <3>1, Zenon DEF Once
    <3>3. QED
      BY <1>4, <1>5, <3>1, <3>2
  <2>2. QED
    BY <2>1, Zenon DEF Elems
<1>9. Once(front \o back)
  BY <1>2, <1>3, <1>6, <1>7, <1>8, OnceConcat, Zenon
<1>10. s[i] \notin Elems(front) \cup Elems(back)
  <2>1. ASSUME NEW k \in 1..Len(front) PROVE front[k] # s[i]
    <3>1. k # i
      BY <1>1, <1>4
    <3>2. QED
      BY <1>4, <3>1, Zenon DEF Once
  <2>2. ASSUME NEW k \in 1..Len(back) PROVE back[k] # s[i]
    <3>1. k + i # i
      BY <1>1, <1>3, <1>5
    <3>2. QED
      BY <1>5, <3>1, Zenon DEF Once
  <2>3. QED
    BY <2>1, <2>2, Zenon DEF Elems
<1>11. Elems(front \o back) = Elems(front) \cup Elems(back)
  BY <1>2, <1>3, ElemsConcat, Zenon
<1>12. /\ Elems(s) \subseteq Elems(WithoutIndex(s, i)) \cup {s[i]}
       /\ Elems(WithoutIndex(s, i)) \subseteq Elems(s)
  BY WithoutIndexKeeps, Zenon
<1>13. WithoutIndex(s, i) = front \o back
  BY Zenon DEF WithoutIndex, front, back
<1>14. QED
  BY <1>9, <1>10, <1>11, <1>12, <1>13, Zenon

\* A list without repetition is as long as the set of its commands is large.
LEMMA OnceCounts ==
  ASSUME NEW S, NEW s \in Seq(S), Once(s)
  PROVE  Cardinality(Elems(s)) = Len(s)
<1>1. Len(s) \in Nat /\ s \in [1..Len(s) -> S]
  BY LenProperties
<1>2. IsFiniteSet(1..Len(s)) /\ Cardinality(1..Len(s)) = Len(s)
  <2>1. IsFiniteSet(1..Len(s))
    BY <1>1, FS_Interval
  <2>2. Cardinality(1..Len(s)) = IF 1 > Len(s) THEN 0 ELSE Len(s) - 1 + 1
    BY <1>1, FS_Interval
  <2>3. QED
    BY <1>1, <2>1, <2>2
<1>3. s \in [1..Len(s) -> Elems(s)]
  BY <1>1 DEF Elems
<1>4. s \in Surjection(1..Len(s), Elems(s))
  BY <1>3, Zenon DEF Surjection, Elems
<1>5. s \in Injection(1..Len(s), Elems(s))
  BY <1>3 DEF Injection, IsInjective, Once
<1>6. Cardinality(Elems(s)) = Cardinality(1..Len(s))
  BY <1>2, <1>4, <1>5, FS_Surjection, Zenon
<1>7. QED
  BY <1>2, <1>6

-----------------------------------------------------------------------------
(* How the steps of the channel move commands between the lists.           *)

\* mvFlushSCSICommandQueue, after the EDMA queue was flushed with callbacks or
\* with an EDMA queue that stays.
Flushes ==
  /\ IALChannelPendingCmdQueue' = <<>>
  /\ \/ /\ commandsQueue' = <<>>
        /\ scsi_cmnd_done' = scsi_cmnd_done \o commandsQueue
                                \o IALChannelPendingCmdQueue
     \/ /\ commandsQueue' = commandsQueue
        /\ scsi_cmnd_done' = scsi_cmnd_done \o <<>> \o IALChannelPendingCmdQueue
Keeps == UNCHANGED queueVars

\* No list repeats a command and no two share one.
QueuesOnce ==
  /\ Once(IALChannelPendingCmdQueue) /\ Once(commandsQueue) /\ Once(scsi_cmnd_done)
  /\ Elems(IALChannelPendingCmdQueue) \cap Elems(commandsQueue) = {}
  /\ Elems(IALChannelPendingCmdQueue) \cap Elems(scsi_cmnd_done) = {}
  /\ Elems(commandsQueue) \cap Elems(scsi_cmnd_done) = {}

\* mvRestartChannel and mvStopChannel flush.
LEMMA ResetFlushes ==
  ASSUME IInv, mvRestartChannel \/ \E saved : mvStopChannel(saved)
  PROVE  Flushes
BY DEF mvRestartChannel, mvStopChannel, FlushDmaQueue, FlushSCSICommandQueue, Flushes

\* So does the end of the initialisation.
LEMMA ConfigFlushes ==
  ASSUME IInv, NEW type, NEW saved, NEW current, NEW ready,
         ConfigChannelDMA(type, saved, current, ready)
  PROVE  Flushes
<1>1. CASE SetChannelReady(saved, current, ready)
  BY <1>1 DEF SetChannelReady, FlushSCSICommandQueue, Flushes
<1>2. CASE mvStopChannel(saved)
  BY <1>2, ResetFlushes, Zenon
<1>3. QED
  BY <1>1, <1>2, Zenon DEF ConfigChannelDMA

\* A tick of the timer flushes the lists or leaves them alone: what
\* mvSataConfigureChannel forgets is empty.
LEMMA TickFlushes ==
  ASSUME IInv, mvIALTimerCallback
  PROVE  Keeps \/ Flushes
<1> USE DEF queueVars, Keeps
<1>1. mvRestartChannel \/ (\E saved : mvStopChannel(saved)) => Flushes
  BY ResetFlushes, Zenon
<1>2. CASE ChannelNotConnectedStateHandler
  BY <1>2 DEF ChannelNotConnectedStateHandler, FlushSCSICommandQueue, Flushes
<1>3. CASE ConnectedAllocFails
  BY <1>3 DEF ConnectedAllocFails
<1>4. CASE ConnectedStartsSRST
  BY <1>4 DEF ConnectedStartsSRST, IInv, EdmaWorkHasChannel
<1>5. CASE InSrstBusy
  BY <1>1, <1>5 DEF InSrstBusy
<1>6. CASE \E s \in Serials : InSrstDiskReady(s)
  BY <1>6, ConfigFlushes, Zenon DEF InSrstDiskReady
<1>7. CASE InSrstDiskFails \/ InSrstUnsupported \/ InSrstPMFails
  BY <1>1, <1>7, Zenon DEF InSrstDiskFails, InSrstUnsupported, InSrstPMFails
<1>8. CASE \E up \in SUBSET Ports : InSrstPMSpinsUp(up)
  BY <1>1, <1>8, ConfigFlushes DEF InSrstPMSpinsUp
<1>9. CASE PMSrstBusy
  BY <1>9 DEF PMSrstBusy
<1>10. ASSUME NEW saved, NEW current, NEW ready, PMNextPort(saved, current, ready)
       PROVE  Keeps \/ Flushes
  BY <1>1, <1>10, ConfigFlushes DEF PMNextPort
<1>11. CASE PMSrstPortSkipped \/ PMSrstPortFails
  BY <1>10, <1>11, Zenon DEF PMSrstPortSkipped, PMSrstPortFails
<1>12. CASE \E s \in Serials : PMSrstPortReady(s)
  BY <1>10, <1>12, Zenon DEF PMSrstPortReady
<1>13. CASE PMSrstLinkCheckFails
  BY <1>1, <1>13, ConfigFlushes, Zenon DEF PMSrstLinkCheckFails
<1>14. CASE PMSrstReconnected \/ ChannelPMHotPlugStateHandler
  BY <1>1, <1>14, Zenon DEF PMSrstReconnected, ChannelPMHotPlugStateHandler
<1>15. CASE ChannelReadyStateHandler
  BY <1>15 DEF ChannelReadyStateHandler
<1>16. QED
  BY <1>2, <1>3, <1>4, <1>5, <1>6, <1>7, <1>8, <1>9, <1>11, <1>12, <1>13, <1>14,
     <1>15, Zenon DEF mvIALTimerCallback

\* So do the events of the interrupt handler.
LEMMA EventFlushes ==
  ASSUME IInv,
         \/ RestartChannel \/ CableDisconnect \/ mvPMHotPlugDetected \/ EdmaDisabled
         \/ \E changed \in SUBSET Ports : PMCommandCompletionCB(changed)
  PROVE  Keeps \/ Flushes
<1> USE DEF queueVars, Keeps
<1>1. mvRestartChannel \/ (\E saved : mvStopChannel(saved)) => Flushes
  BY ResetFlushes, Zenon
<1>2. CASE RestartChannel \/ CableDisconnect
  BY <1>1, <1>2, Zenon DEF RestartChannel, CableDisconnect
<1>3. CASE mvPMHotPlugDetected
  BY <1>1, <1>3 DEF mvPMHotPlugDetected, vars
<1>4. CASE EdmaDisabled \/ \E changed \in SUBSET Ports : PMCommandCompletionCB(changed)
  BY <1>4 DEF EdmaDisabled, PMCommandCompletionCB
<1>5. QED
  BY <1>2, <1>3, <1>4

\* A flush moves commands to the done list: it repeats none and forgets none.
LEMMA FlushKeepsOnce ==
  ASSUME IInv, QueuesOnce, Flushes
  PROVE  QueuesOnce' /\ Held' = Held
<1> DEFINE P == IALChannelPendingCmdQueue
           Q == commandsQueue
           D == scsi_cmnd_done
<1>1. P \in Seq(Cmds) /\ Q \in Seq(Cmds) /\ D \in Seq(Cmds) /\ <<>> \in Seq(Cmds)
  BY EmptySeq DEF IInv, TypeOK, QueueTypeOK
<1>2. ASSUME NEW F \in Seq(Cmds), Once(F), Elems(F) \cap Elems(D) = {},
             Elems(F) \cap Elems(P) = {}
      PROVE  /\ Once(D \o F \o P)
             /\ Elems(D \o F \o P) = Elems(D) \cup Elems(F) \cup Elems(P)
  <2>1. D \o F \in Seq(Cmds) /\ Elems(D \o F) = Elems(D) \cup Elems(F)
    BY <1>1, ElemsConcat, ZenonT(40)
  <2>2. Once(D \o F)
    <3>1. Elems(D) \cap Elems(F) = {} /\ Once(D) /\ Once(F)
      BY <1>2, Zenon DEF QueuesOnce
    <3>2. QED
      BY <1>1, <3>1, OnceConcat, Zenon
  <2>3. Elems(D \o F) \cap Elems(P) = {} /\ Once(P)
    BY <1>2, <2>1 DEF QueuesOnce
  <2> DEFINE front == D \o F
  <2>4. front \in Seq(Cmds) /\ P \in Seq(Cmds)
    BY <1>1, <2>1, Zenon
  <2>5. Once(front) /\ Once(P) /\ Elems(front) \cap Elems(P) = {}
    BY <2>2, <2>3, Zenon
  <2> HIDE DEF front, P
  <2>6. Once(front \o P)
    BY <2>4, <2>5, OnceConcat, Zenon
  <2>7. Elems(front \o P) = Elems(front) \cup Elems(P)
    BY <2>4, ElemsConcat, Zenon
  <2>8. QED
    BY <2>1, <2>6, <2>7, Zenon DEF front
<1>3. Held = Elems(P) \cup Elems(Q) \cup Elems(D)
  BY Zenon DEF Held
<1>4. Held' = Elems(P') \cup Elems(Q') \cup Elems(D')
  BY Zenon DEF Held
<1>5. Elems(<<>>) = {} /\ Once(<<>>)
  BY ElemsEmpty, OnceEmpty
<1>6. P' = <<>> /\ Elems(P') = {} /\ Once(P')
  BY <1>5, Zenon DEF Flushes
<1>7. CASE Q' = <<>> /\ D' = D \o Q \o P
  <2>1. Once(D') /\ Elems(D') = Elems(D) \cup Elems(Q) \cup Elems(P)
    <3>1. /\ Q \in Seq(Cmds) /\ Once(Q) /\ Elems(Q) \cap Elems(D) = {}
          /\ Elems(Q) \cap Elems(P) = {}
      BY <1>1 DEF QueuesOnce
    <3>2. QED
      BY <1>2, <1>7, <3>1, Zenon
  <2>2. Elems(Q') = {} /\ Once(Q')
    BY <1>5, <1>7, Zenon
  <2>3. QED
    BY <1>3, <1>4, <1>6, <2>1, <2>2 DEF QueuesOnce
<1>8. CASE Q' = Q /\ D' = D \o <<>> \o P
  <2>1. Once(D') /\ Elems(D') = Elems(D) \cup Elems(P)
    <3>1. /\ Once(D \o <<>> \o P)
          /\ Elems(D \o <<>> \o P) = Elems(D) \cup Elems(<<>>) \cup Elems(P)
      BY <1>1, <1>2, <1>5
    <3>2. QED
      BY <1>5, <1>8, <3>1
  <2>2. Elems(Q') = Elems(Q) /\ Once(Q')
    BY <1>8, Zenon DEF QueuesOnce
  <2>3. QED
    BY <1>3, <1>4, <1>6, <2>1, <2>2 DEF QueuesOnce
<1>9. QED
  BY <1>7, <1>8, Zenon DEF Flushes

\* The i-th command of the EDMA queue completes.
Completes(i) ==
  /\ commandsQueue' = WithoutIndex(commandsQueue, i)
  /\ scsi_cmnd_done' = Append(scsi_cmnd_done, commandsQueue[i])
  /\ UNCHANGED IALChannelPendingCmdQueue

\* Command c enters one of the lists.
Enters(c) ==
  \/ /\ IALChannelPendingCmdQueue' = Append(IALChannelPendingCmdQueue, c)
     /\ UNCHANGED <<commandsQueue, scsi_cmnd_done>>
  \/ /\ commandsQueue' = Append(commandsQueue, c)
     /\ UNCHANGED <<IALChannelPendingCmdQueue, scsi_cmnd_done>>
  \/ /\ scsi_cmnd_done' = Append(scsi_cmnd_done, c)
     /\ UNCHANGED <<IALChannelPendingCmdQueue, commandsQueue>>

\* A completion moves one command.
LEMMA CompletionKeepsOnce ==
  ASSUME IInv, QueuesOnce, NEW i \in 1..Len(commandsQueue), Completes(i)
  PROVE  QueuesOnce' /\ Held' = Held
<1> DEFINE P == IALChannelPendingCmdQueue
           Q == commandsQueue
           D == scsi_cmnd_done
           c == commandsQueue[i]
<1>1. Q \in Seq(Cmds) /\ D \in Seq(Cmds)
  BY DEF IInv, TypeOK, QueueTypeOK
<1>2. c \in Cmds /\ c \in Elems(Q)
  BY <1>1, ElementOfSeq DEF Elems
<1>3. Once(Q') /\ Elems(Q') = Elems(Q) \ {c}
  BY <1>1, OnceWithout, Zenon DEF QueuesOnce, Completes
<1>4. c \notin Elems(D) /\ Once(D)
  BY <1>2 DEF QueuesOnce
<1>5. Once(D') /\ Elems(D') = Elems(D) \cup {c}
  <2>1. D' = Append(D, c)
    BY Zenon DEF Completes
  <2> HIDE DEF D, c
  <2>2. Once(Append(D, c))
    BY <1>1, <1>2, <1>4, OnceAppend, Zenon
  <2>3. Elems(Append(D, c)) = Elems(D) \cup {c}
    BY <1>1, <1>2, ElemsAppend
  <2>4. QED
    BY <2>1, <2>2, <2>3, Zenon
<1>6. P' = P /\ Elems(P') = Elems(P) /\ Once(P')
  BY Zenon DEF Completes, QueuesOnce
<1>7. Held = Elems(P) \cup Elems(Q) \cup Elems(D)
  BY Zenon DEF Held
<1>8. Held' = Elems(P') \cup Elems(Q') \cup Elems(D')
  BY Zenon DEF Held
<1> HIDE DEF c
<1>9. QED
  BY <1>2, <1>3, <1>5, <1>6, <1>7, <1>8 DEF QueuesOnce

\* A command the driver does not have enters one list.
LEMMA EntryKeepsOnce ==
  ASSUME IInv, QueuesOnce, NEW c \in Cmds \ Held, Enters(c)
  PROVE  QueuesOnce' /\ Held' = Held \cup {c}
<1> DEFINE P == IALChannelPendingCmdQueue
           Q == commandsQueue
           D == scsi_cmnd_done
<1>1. P \in Seq(Cmds) /\ Q \in Seq(Cmds) /\ D \in Seq(Cmds) /\ c \in Cmds
  BY DEF IInv, TypeOK, QueueTypeOK
<1>2. Held = Elems(P) \cup Elems(Q) \cup Elems(D)
  BY Zenon DEF Held
<1>3. Held' = Elems(P') \cup Elems(Q') \cup Elems(D')
  BY Zenon DEF Held
<1>4. c \notin Elems(P) /\ c \notin Elems(Q) /\ c \notin Elems(D)
  BY <1>2
<1>5. ASSUME NEW s \in Seq(Cmds), Once(s), c \notin Elems(s)
      PROVE  Once(Append(s, c)) /\ Elems(Append(s, c)) = Elems(s) \cup {c}
  BY <1>1, <1>5, OnceAppend, ElemsAppend, ZenonT(40)
<1>6. CASE P' = Append(P, c) /\ Q' = Q /\ D' = D
  <2>1. Once(P') /\ Elems(P') = Elems(P) \cup {c}
    BY <1>1, <1>4, <1>5, <1>6, Zenon DEF QueuesOnce
  <2>2. Once(Q') /\ Once(D') /\ Elems(Q') = Elems(Q) /\ Elems(D') = Elems(D)
    BY <1>6, Zenon DEF QueuesOnce
  <2>3. QED
    BY <1>2, <1>3, <1>4, <2>1, <2>2 DEF QueuesOnce
<1>7. CASE Q' = Append(Q, c) /\ P' = P /\ D' = D
  <2>1. Once(Q') /\ Elems(Q') = Elems(Q) \cup {c}
    BY <1>1, <1>4, <1>5, <1>7, Zenon DEF QueuesOnce
  <2>2. Once(P') /\ Once(D') /\ Elems(P') = Elems(P) /\ Elems(D') = Elems(D)
    BY <1>7, Zenon DEF QueuesOnce
  <2>3. QED
    BY <1>2, <1>3, <1>4, <2>1, <2>2 DEF QueuesOnce
<1>8. CASE D' = Append(D, c) /\ P' = P /\ Q' = Q
  <2>1. Once(D') /\ Elems(D') = Elems(D) \cup {c}
    BY <1>1, <1>4, <1>5, <1>8, Zenon DEF QueuesOnce
  <2>2. Once(P') /\ Once(Q') /\ Elems(P') = Elems(P) /\ Elems(Q') = Elems(Q)
    BY <1>8, Zenon DEF QueuesOnce
  <2>3. QED
    BY <1>2, <1>3, <1>4, <2>1, <2>2 DEF QueuesOnce
<1>9. QED
  BY <1>6, <1>7, <1>8, Zenon DEF Enters

\* Handing the completed commands over empties the done list.
LEMMA TakingKeepsOnce ==
  ASSUME IInv, QueuesOnce, TakeDoneList
  PROVE  /\ QueuesOnce'
         /\ Held' = Held \ Elems(scsi_cmnd_done)
         /\ Held' = Elems(IALChannelPendingCmdQueue) \cup Elems(commandsQueue)
<1> DEFINE P == IALChannelPendingCmdQueue
           Q == commandsQueue
           D == scsi_cmnd_done
<1>1. /\ Once(P') /\ Once(Q') /\ Once(D')
      /\ Elems(P') = Elems(P) /\ Elems(Q') = Elems(Q) /\ Elems(D') = {}
  BY ElemsEmpty, OnceEmpty, Zenon DEF TakeDoneList, QueuesOnce
<1>2. Held = Elems(P) \cup Elems(Q) \cup Elems(D)
  BY Zenon DEF Held
<1>3. Held' = Elems(P') \cup Elems(Q') \cup Elems(D')
  BY Zenon DEF Held
<1>4. QED
  BY <1>1, <1>2, <1>3 DEF QueuesOnce

\* A step that leaves the lists alone.
LEMMA KeepingKeepsOnce ==
  ASSUME QueuesOnce, Keeps
  PROVE  QueuesOnce' /\ Held' = Held
<1>1. UNCHANGED <<IALChannelPendingCmdQueue, commandsQueue, scsi_cmnd_done>>
  BY DEF Keeps, queueVars
<1>2. /\ Elems(IALChannelPendingCmdQueue') = Elems(IALChannelPendingCmdQueue)
      /\ Elems(commandsQueue') = Elems(commandsQueue)
      /\ Elems(scsi_cmnd_done') = Elems(scsi_cmnd_done)
  BY <1>1, Zenon
<1>3. /\ Once(IALChannelPendingCmdQueue') /\ Once(commandsQueue')
      /\ Once(scsi_cmnd_done')
  BY <1>1, Zenon DEF QueuesOnce
<1>4. QED
  BY <1>2, <1>3, Zenon DEF QueuesOnce, Held

\* What mvExecuteScsiCommand and a SMART command do to the lists.
LEMMA SubmissionEnters ==
  ASSUME NEW c, NEW p, mvExecuteScsiCommand(c, p) \/ SendSmartCommand(c, p)
  PROVE  Enters(c)
BY DEF mvExecuteScsiCommand, SendSmartCommand, SalExecute, AddToSCSICommandQueue,
       Enters

\* Every step of the channel keeps the lists without repetition.
LEMMA StepKeepsOnce ==
  ASSUME IInv, QueuesOnce, [Next]_vars
  PROVE  QueuesOnce'
<1>1. Keeps \/ Flushes => QueuesOnce'
  BY FlushKeepsOnce, KeepingKeepsOnce, Zenon
<1>2. CASE UNCHANGED vars \/ TakeRescanWork \/ EnableHotplug
  BY <1>1, <1>2 DEF vars, TakeRescanWork, EnableHotplug, Keeps
<1>3. CASE mvIALTimerCallback
  BY <1>1, <1>3, TickFlushes, Zenon
<1>4. CASE \/ RestartChannel \/ CableDisconnect \/ mvPMHotPlugDetected \/ EdmaDisabled
           \/ \E changed \in SUBSET Ports : PMCommandCompletionCB(changed)
  BY <1>1, <1>4, EventFlushes, Zenon
<1>5. ASSUME NEW i \in 1..Len(commandsQueue), CommandCompletes(i)
      PROVE  QueuesOnce'
  BY <1>5, CompletionKeepsOnce DEF CommandCompletes, Completes
<1>6. ASSUME NEW c \in Cmds \ Held, NEW p \in Ports,
             mvExecuteScsiCommand(c, p) \/ SendSmartCommand(c, p)
      PROVE  QueuesOnce'
  BY <1>6, SubmissionEnters, EntryKeepsOnce, Zenon
<1>7. CASE TakeDoneList
  BY <1>7, TakingKeepsOnce, Zenon
<1>8. QED
  BY <1>2, <1>3, <1>4, <1>5, <1>6, <1>7, Zenon DEF Next

\* Lists that share and repeat nothing have as many entries as commands.
LEMMA OnceIsCounted ==
  ASSUME IInv, QueuesOnce
  PROVE  NoCommandTwice
<1> DEFINE P == IALChannelPendingCmdQueue
           Q == commandsQueue
           D == scsi_cmnd_done
           front == P \o Q
<1>1. P \in Seq(Cmds) /\ Q \in Seq(Cmds) /\ D \in Seq(Cmds)
  BY DEF IInv, TypeOK, QueueTypeOK
<1>2. /\ front \in Seq(Cmds) /\ Once(front)
      /\ Elems(front) = Elems(P) \cup Elems(Q)
  <2>1. Once(P) /\ Once(Q) /\ Elems(P) \cap Elems(Q) = {}
    BY Zenon DEF QueuesOnce
  <2> HIDE DEF P, Q
  <2>2. Once(P \o Q)
    BY <1>1, <2>1, OnceConcat, Zenon
  <2>3. P \o Q \in Seq(Cmds) /\ Elems(P \o Q) = Elems(P) \cup Elems(Q)
    BY <1>1, ElemsConcat, Zenon
  <2>4. QED
    BY <2>2, <2>3, Zenon
<1>3. Once(D) /\ Elems(front) \cap Elems(D) = {}
  BY <1>2 DEF QueuesOnce
<1> HIDE DEF front
<1>4. /\ front \o D \in Seq(Cmds) /\ Once(front \o D)
      /\ Elems(front \o D) = Elems(front) \cup Elems(D)
  <2>1. Once(front \o D)
    BY <1>1, <1>2, <1>3, OnceConcat, Zenon
  <2>2. front \o D \in Seq(Cmds) /\ Elems(front \o D) = Elems(front) \cup Elems(D)
    <3> HIDE DEF D
    <3>1. QED
      BY <1>1, <1>2, ElemsConcat
  <2>3. QED
    BY <2>1, <2>2, Zenon
<1>5. Cardinality(Elems(front \o D)) = Len(front \o D)
  BY <1>4, OnceCounts, Zenon
<1>6. Elems(front \o D) = Held
  BY <1>2, <1>4, Zenon DEF Held
<1>7. QED
  BY <1>5, <1>6, Zenon DEF NoCommandTwice, AllQueues, front

\* IInv together with QueuesOnce is inductive.
THEOREM QueuesOnceSafe == Spec => []QueuesOnce
<1>1. Init => QueuesOnce
  BY ElemsEmpty, OnceEmpty DEF Init, QueuesOnce
<1>2. IInv /\ QueuesOnce /\ [Next]_vars => QueuesOnce'
  BY StepKeepsOnce
<1>3. QED
  BY <1>1, <1>2, Invariance, PTL DEF Spec

\* No command is ever in two of the driver's lists or twice in one, although
\* the lists are threaded through the commands and emptied into each other by
\* every reset.
THEOREM CommandsOnce == Spec => []NoCommandTwice
<1>1. IInv /\ QueuesOnce => NoCommandTwice
  BY OnceIsCounted
<1>2. QED
  BY <1>1, Invariance, QueuesOnceSafe, PTL

-----------------------------------------------------------------------------
(* Parked commands.                                                        *)

\* A step may settle the channel only if it gives the parked commands back.
Parks == channelState' \in Settled =>
           \/ IALChannelPendingCmdQueue' = <<>>
           \/ /\ channelState \in Settled
              /\ IALChannelPendingCmdQueue' = IALChannelPendingCmdQueue

\* A tick settles the channel with a flush, unless the channel structure could
\* not be allocated.
LEMMA TickParks ==
  ASSUME IInv, mvIALTimerCallback, ~ConnectedAllocFails
  PROVE  Parks
<1> USE DEF Settled, Parks
<1>1. Flushes => Parks
  BY DEF Flushes
<1>2. ASSUME NEW type, NEW saved, NEW current, NEW ready,
             \/ mvRestartChannel \/ mvStopChannel(saved)
             \/ ConfigChannelDMA(type, saved, current, ready)
      PROVE  Parks
  BY <1>1, <1>2, ResetFlushes, ConfigFlushes, Zenon
<1>3. CASE ChannelNotConnectedStateHandler
  BY <1>3 DEF ChannelNotConnectedStateHandler, FlushSCSICommandQueue
<1>4. CASE ConnectedStartsSRST
  BY <1>4 DEF ConnectedStartsSRST
<1>5. CASE InSrstBusy
  BY <1>2, <1>5 DEF InSrstBusy, stateVars
<1>6. CASE \E s \in Serials : InSrstDiskReady(s)
  BY <1>2, <1>6, Zenon DEF InSrstDiskReady
<1>7. CASE InSrstDiskFails \/ InSrstUnsupported \/ InSrstPMFails
  BY <1>2, <1>7, Zenon DEF InSrstDiskFails, InSrstUnsupported, InSrstPMFails
<1>8. CASE \E up \in SUBSET Ports : InSrstPMSpinsUp(up)
  BY <1>2, <1>8 DEF InSrstPMSpinsUp
<1>9. CASE PMSrstBusy
  BY <1>9 DEF PMSrstBusy, stateVars
<1>10. ASSUME NEW saved, NEW current, NEW ready, PMNextPort(saved, current, ready),
              channelState = "PM_SRST_DEVICE"
       PROVE  Parks
  BY <1>2, <1>10 DEF PMNextPort, stateVars
<1>11. CASE PMSrstPortSkipped \/ PMSrstPortFails
  BY <1>10, <1>11, Zenon DEF PMSrstPortSkipped, PMSrstPortFails
<1>12. CASE \E s \in Serials : PMSrstPortReady(s)
  BY <1>10, <1>12, Zenon DEF PMSrstPortReady
<1>13. CASE PMSrstLinkCheckFails
  BY <1>2, <1>13, Zenon DEF PMSrstLinkCheckFails
<1>14. CASE PMSrstReconnected \/ ChannelPMHotPlugStateHandler
  BY <1>2, <1>14, Zenon DEF PMSrstReconnected, ChannelPMHotPlugStateHandler
<1>15. CASE ChannelReadyStateHandler
  BY <1>15 DEF ChannelReadyStateHandler, stateVars, queueVars
<1>16. QED
  BY <1>3, <1>4, <1>5, <1>6, <1>7, <1>8, <1>9, <1>11, <1>12, <1>13, <1>14,
     <1>15, Zenon DEF mvIALTimerCallback

\* So do the events of the interrupt handler.
LEMMA EventParks ==
  ASSUME IInv,
         \/ RestartChannel \/ CableDisconnect \/ mvPMHotPlugDetected \/ EdmaDisabled
         \/ \E changed \in SUBSET Ports : PMCommandCompletionCB(changed)
  PROVE  Parks
<1> USE DEF Settled, Parks
<1>1. Flushes => Parks
  BY DEF Flushes
<1>2. mvRestartChannel \/ (\E saved : mvStopChannel(saved)) => Parks
  BY <1>1, ResetFlushes, Zenon
<1>3. CASE RestartChannel \/ CableDisconnect
  BY <1>2, <1>3, Zenon DEF RestartChannel, CableDisconnect
<1>4. CASE mvPMHotPlugDetected
  BY <1>2, <1>4 DEF mvPMHotPlugDetected, vars, stateVars, queueVars
<1>5. CASE EdmaDisabled \/ \E changed \in SUBSET Ports : PMCommandCompletionCB(changed)
  BY <1>5 DEF EdmaDisabled, PMCommandCompletionCB, queueVars
<1>6. QED
  BY <1>3, <1>4, <1>5

\* Commands wait only while the channel initialises, if its structure can be
\* allocated: whatever ends the initialisation gives them back in the same
\* step.  (When the allocation fails they stay parked in NOT_CONNECTED.)
THEOREM ParkedSafe ==
  ASSUME "alloc" \notin Faults
  PROVE  Spec => []ParkedOnlyDuringInit
<1> USE DEF ParkedOnlyDuringInit
<1>1. Init => ParkedOnlyDuringInit
  BY DEF Init
<1>2. ASSUME IInv, ParkedOnlyDuringInit, [Next]_vars
      PROVE  ParkedOnlyDuringInit'
  <2>1. Parks => ParkedOnlyDuringInit'
    BY <1>2 DEF Parks
  <2>2. CASE \/ UNCHANGED vars \/ TakeRescanWork \/ EnableHotplug \/ TakeDoneList
             \/ \E i \in 1..Len(commandsQueue) : CommandCompletes(i)
    BY <2>1, <2>2
       DEF vars, stateVars, queueVars, TakeRescanWork, EnableHotplug, TakeDoneList,
           CommandCompletes, Parks
  <2>3. CASE mvIALTimerCallback
    <3>1. ~ConnectedAllocFails
      BY DEF ConnectedAllocFails
    <3>2. QED
      BY <1>2, <2>1, <2>3, <3>1, TickParks, Zenon
  <2>4. CASE \/ RestartChannel \/ CableDisconnect \/ mvPMHotPlugDetected
             \/ EdmaDisabled
             \/ \E changed \in SUBSET Ports : PMCommandCompletionCB(changed)
    BY <1>2, <2>1, <2>4, EventParks, Zenon
  <2>5. ASSUME NEW c, NEW p, mvExecuteScsiCommand(c, p) \/ SendSmartCommand(c, p)
        PROVE  Parks
    BY <2>5 DEF mvExecuteScsiCommand, SendSmartCommand, SalExecute, stateVars,
                AddToSCSICommandQueue, Parks
  <2>6. QED
    BY <1>2, <2>1, <2>2, <2>3, <2>4, <2>5, Zenon DEF Next
<1>3. QED
  BY <1>1, <1>2, Invariance, PTL DEF Spec

-----------------------------------------------------------------------------
(* The saved snapshot and what the mid-layer is told of its changes.       *)

Initialised == {"READY", "PM_HOT_PLUG"}
Quiet       == Initialised \cup {"NOT_CONNECTED"}

\* What a step does that finds "saved" in drivesSnapshotSaved: it restarts or
\* stops the channel, ends the initialisation, or leaves the snapshot.
SavesAs(saved) ==
  \/ mvRestartChannel
  \/ mvStopChannel(saved)
  \/ /\ channelState \notin Quiet
     /\ \E current, ready : SetChannelReady(saved, current, ready)
  \/ /\ driveSaved' = saved
     /\ UNCHANGED hotVars
     /\ channelState \in Initialised => channelState' \in Initialised
     /\ channelState \in Quiet => channelState' \in Quiet

\* A drive that could not be initialised has been struck from the snapshot.
Struck == \E q \in Ports : SavesAs(FlushSingleDrive(driveSaved, q))
Saves  == SavesAs(driveSaved) \/ ("identify" \in Faults /\ Struck)

\* A snapshot is lost only where there is none: ConnectedAllocFails.
LEMMA TickSaves ==
  ASSUME IInv, mvIALTimerCallback
  PROVE  Saves
<1> USE DEF Initialised, Quiet
<1>1. ASSUME NEW type, NEW saved, NEW current, NEW ready,
             channelState \notin Quiet,
             ConfigChannelDMA(type, saved, current, ready)
      PROVE  SavesAs(saved)
  BY <1>1, Zenon DEF ConfigChannelDMA, SavesAs
<1>2. ASSUME NEW saved, mvStopChannel(saved)
      PROVE  SavesAs(saved)
  BY <1>2, Zenon DEF SavesAs
<1>3. mvRestartChannel => SavesAs(driveSaved)
  BY Zenon DEF SavesAs
<1>4. ASSUME driveSaved' = driveSaved, UNCHANGED hotVars,
             channelState \in Initialised => channelState' \in Initialised,
             channelState \in Quiet => channelState' \in Quiet
      PROVE  SavesAs(driveSaved)
  BY <1>4, Zenon DEF SavesAs
<1>5. CASE ChannelNotConnectedStateHandler
  BY <1>4, <1>5 DEF ChannelNotConnectedStateHandler, hotVars, Saves
<1>6. CASE ConnectedAllocFails
  <2>1. driveSaved = NoDrives
    BY <1>6 DEF ConnectedAllocFails, IInv, SnapshotHasChannel
  <2>2. QED
    BY <1>4, <1>6, <2>1 DEF ConnectedAllocFails, DrivesInfoFlushAll, hotVars, Saves
<1>7. CASE ConnectedStartsSRST
  BY <1>4, <1>7 DEF ConnectedStartsSRST, driveVars, hotVars, Saves
<1>8. CASE InSrstBusy
  BY <1>2, <1>4, <1>8 DEF InSrstBusy, driveVars, hotVars, Saves
<1>9. CASE \E s \in Serials : InSrstDiskReady(s)
  BY <1>1, <1>9 DEF InSrstDiskReady, Saves
<1>10. CASE InSrstDiskFails
  BY <1>2, <1>10, PortsAssumption, Zenon DEF InSrstDiskFails, Saves, Struck
<1>11. CASE InSrstUnsupported \/ InSrstPMFails
  BY <1>2, <1>11, Zenon DEF InSrstUnsupported, InSrstPMFails, Saves
<1>12. CASE \E up \in SUBSET Ports : InSrstPMSpinsUp(up)
  BY <1>1, <1>2, <1>4, <1>12 DEF InSrstPMSpinsUp, driveVars, hotVars, Saves
<1>13. CASE PMSrstBusy
  BY <1>4, <1>13 DEF PMSrstBusy, driveVars, hotVars, Saves
<1>14. ASSUME NEW saved, NEW current, NEW ready, PMNextPort(saved, current, ready),
              channelState = "PM_SRST_DEVICE"
       PROVE  SavesAs(saved)
  <2>1. ASSUME driveSaved' = saved, UNCHANGED hotVars
        PROVE  SavesAs(saved)
    BY <1>14, <2>1 DEF SavesAs
  <2>2. QED
    BY <1>1, <1>2, <1>14, <2>1 DEF PMNextPort, hotVars
<1>15. CASE PMSrstPortSkipped
  BY <1>14, <1>15, Zenon DEF PMSrstPortSkipped, Saves
<1>16. CASE PMSrstPortFails
  <2>1. devInSRST \in Ports
    BY <1>16 DEF PMSrstPortFails, IInv, TimerArmedInReset
  <2>2. QED
    BY <1>14, <1>16, <2>1, Zenon DEF PMSrstPortFails, Saves, Struck
<1>17. CASE \E s \in Serials : PMSrstPortReady(s)
  BY <1>14, <1>17, Zenon DEF PMSrstPortReady, Saves
<1>18. CASE PMSrstLinkCheckFails
  BY <1>1, <1>2, <1>18 DEF PMSrstLinkCheckFails, Saves
<1>19. CASE PMSrstReconnected \/ ChannelPMHotPlugStateHandler
  BY <1>3, <1>19, Zenon DEF PMSrstReconnected, ChannelPMHotPlugStateHandler, Saves
<1>20. CASE ChannelReadyStateHandler
  BY <1>4, <1>20 DEF ChannelReadyStateHandler, stateVars, driveVars, hotVars, Saves
<1>21. QED
  BY <1>5, <1>6, <1>7, <1>8, <1>9, <1>10, <1>11, <1>12, <1>13, <1>15, <1>16, <1>17,
     <1>18, <1>19, <1>20, Zenon DEF mvIALTimerCallback

\* So do the events of the interrupt handler.
LEMMA EventSaves ==
  ASSUME IInv,
         \/ RestartChannel \/ CableDisconnect \/ mvPMHotPlugDetected \/ EdmaDisabled
         \/ \E changed \in SUBSET Ports : PMCommandCompletionCB(changed)
  PROVE  SavesAs(driveSaved)
<1> USE DEF Initialised, Quiet
<1>1. mvRestartChannel \/ mvStopChannel(driveSaved) => SavesAs(driveSaved)
  BY Zenon DEF SavesAs
<1>2. ASSUME driveSaved' = driveSaved, UNCHANGED hotVars,
             channelState \in Initialised => channelState' \in Initialised,
             channelState \in Quiet => channelState' \in Quiet
      PROVE  SavesAs(driveSaved)
  BY <1>2, Zenon DEF SavesAs
<1>3. CASE RestartChannel \/ CableDisconnect
  BY <1>1, <1>3, Zenon DEF RestartChannel, CableDisconnect
<1>4. CASE mvPMHotPlugDetected
  BY <1>1, <1>2, <1>4 DEF mvPMHotPlugDetected, vars, stateVars, driveVars, hotVars
<1>5. CASE EdmaDisabled \/ \E changed \in SUBSET Ports : PMCommandCompletionCB(changed)
  BY <1>2, <1>5 DEF EdmaDisabled, PMCommandCompletionCB, driveVars, hotVars
<1>6. QED
  BY <1>3, <1>4, <1>5

\* The other steps leave the snapshot alone.
LEMMA StepSaves ==
  ASSUME IInv, [Next]_vars
  PROVE  Saves \/ UNCHANGED <<channelState, driveSaved, bHotPlug>>
<1>1. CASE mvIALTimerCallback
  BY <1>1, TickSaves
<1>2. CASE \/ RestartChannel \/ CableDisconnect \/ mvPMHotPlugDetected \/ EdmaDisabled
           \/ \E changed \in SUBSET Ports : PMCommandCompletionCB(changed)
  BY <1>2, EventSaves, Zenon DEF Saves
<1>3. CASE UNCHANGED vars \/ TakeRescanWork \/ EnableHotplug \/ TakeDoneList
  BY <1>3 DEF vars, stateVars, driveVars, hotVars, TakeRescanWork, EnableHotplug,
              TakeDoneList
<1>4. CASE \E i \in 1..Len(commandsQueue) : CommandCompletes(i)
  BY <1>4 DEF CommandCompletes, stateVars, driveVars, hotVars
<1>5. ASSUME NEW c, NEW p, mvExecuteScsiCommand(c, p) \/ SendSmartCommand(c, p)
      PROVE  UNCHANGED <<channelState, driveSaved, bHotPlug>>
  BY <1>5 DEF mvExecuteScsiCommand, SendSmartCommand, stateVars, driveVars, hotVars
<1>6. QED
  BY <1>1, <1>2, <1>3, <1>4, <1>5, Zenon DEF Next

\* A channel being initialised with bHotPlug clear has no snapshot to compare
\* with: it is the first initialisation since it was connected.
HotPlugRemembered ==
  channelState \notin Initialised /\ ~bHotPlug => driveSaved = NoDrives

\* bHotPlug is cleared only by the step that ends the initialisation.
THEOREM HotPlugSafe == Spec => []HotPlugRemembered
<1> USE DEF HotPlugRemembered, Initialised
<1>1. Init => HotPlugRemembered
  BY DEF Init
<1>2. ASSUME IInv, HotPlugRemembered, [Next]_vars
      PROVE  HotPlugRemembered'
  <2>1. ASSUME NEW saved, SavesAs(saved),
               driveSaved = NoDrives => saved = NoDrives
        PROVE  HotPlugRemembered'
    <3>1. CASE mvRestartChannel
      BY <3>1 DEF mvRestartChannel
    <3>2. CASE mvStopChannel(saved)
      BY <3>2 DEF mvStopChannel, DrivesInfoFlushAll
    <3>3. CASE \E current, ready : SetChannelReady(saved, current, ready)
      BY <3>3 DEF SetChannelReady
    <3>4. QED
      BY <1>2, <2>1, <3>1, <3>2, <3>3 DEF SavesAs, hotVars
  <2>2. ASSUME NEW q \in Ports
        PROVE  FlushSingleDrive(NoDrives, q) = NoDrives
    BY DEF FlushSingleDrive, NoDrives
  <2>3. Saves => HotPlugRemembered'
    BY <1>2, <2>1, <2>2, Zenon DEF Saves, Struck
  <2>4. QED
    BY <1>2, <2>3, StepSaves
<1>3. QED
  BY <1>1, <1>2, Invariance, PTL DEF Spec

\* A work item for these ports is scheduled last.
Reported(remove, add) ==
  /\ Len(rescanWork') = Len(rescanWork) + 1
  /\ rescanWork'[Len(rescanWork')] = [remove |-> remove, add |-> add]

\* IALBusChangeNotifyEx schedules it, if it has the memory.
LEMMA NotifyReports ==
  ASSUME IInv, "notify" \notin Faults, ~stopped,
         NEW remove \in SUBSET Ports, NEW add \in SUBSET Ports,
         IALBusChangeNotifyEx(remove, add)
  PROVE  Reported(remove, add)
<1>1. rescanWork \in Seq(RescanItems)
  BY DEF IInv, TypeOK, HotTypeOK
<1>2. [remove |-> remove, add |-> add] \in RescanItems
  BY DEF RescanItems
<1>3. rescanWork' = Append(rescanWork, [remove |-> remove, add |-> add])
  BY DEF IALBusChangeNotifyEx
<1>4. QED
  BY <1>1, <1>2, <1>3, AppendProperties DEF Reported

\* mvStopChannel reports all drives of the snapshot as removed.
LEMMA StopReports ==
  ASSUME IInv, "notify" \notin Faults, ~stopped,
         NEW saved, mvStopChannel(saved), Present(saved) # {}
  PROVE  Reported(Present(saved), {})
<1>1. Present(saved) \in SUBSET Ports /\ {} \in SUBSET Ports
  BY DEF Present
<1>2. IALBusChangeNotifyEx(Present(saved), {})
  BY Zenon DEF mvStopChannel
<1>3. QED
  BY <1>1, <1>2, NotifyReports, Zenon

\* The end of an initialisation after a restart reports the differences.
LEMMA ReadyReports ==
  ASSUME IInv, "notify" \notin Faults, ~stopped, bHotPlug,
         NEW saved, NEW current, NEW ready, SetChannelReady(saved, current, ready),
         DrivesToRemove(saved, current) # {} \/ DrivesToAdd(saved, current) # {}
  PROVE  Reported(DrivesToRemove(saved, current), DrivesToAdd(saved, current))
<1>1. /\ DrivesToRemove(saved, current) \in SUBSET Ports
      /\ DrivesToAdd(saved, current) \in SUBSET Ports
  BY DEF DrivesToRemove, DrivesToAdd, Present
<1>2. IALBusChangeNotifyEx(DrivesToRemove(saved, current), DrivesToAdd(saved, current))
  BY Zenon DEF SetChannelReady
<1>3. QED
  BY <1>1, <1>2, NotifyReports, Zenon

\* A reported set contains its ports.
LEMMA ReportedContains ==
  ASSUME NEW remove, NEW add, Reported(remove, add)
  PROVE  /\ Len(rescanWork') = Len(rescanWork) + 1
         /\ rescanWork'[Len(rescanWork')].remove = remove
         /\ rescanWork'[Len(rescanWork')].add = add
BY DEF Reported

\* If the notifications can be allocated and no drive fails to identify itself,
\* a drive never leaves the saved snapshot, and is never replaced in it,
\* without a rescan that removes its target: the first initialisation, which
\* reports nothing, has no snapshot to lose.
THEOREM RemovalsReported ==
  ASSUME "notify" \notin Faults, "identify" \notin Faults
  PROVE  Spec => RemovalReported
<1>1. ASSUME IInv, HotPlugRemembered, [Next]_vars,
             NEW p \in Present(driveSaved), driveSaved'[p] # driveSaved[p], ~stopped
      PROVE  /\ Len(rescanWork') = Len(rescanWork) + 1
             /\ p \in rescanWork'[Len(rescanWork')].remove
  <2>1. SavesAs(driveSaved)
    BY <1>1, StepSaves DEF Saves
  <2>2. p \in Ports /\ driveSaved[p] # NoDrive /\ Present(driveSaved) # {}
    BY DEF Present
  <2>3. CASE mvStopChannel(driveSaved)
    BY <1>1, <2>2, <2>3, StopReports, ReportedContains, Zenon
  <2>4. ASSUME channelState \notin Quiet, NEW current, NEW ready,
               SetChannelReady(driveSaved, current, ready)
        PROVE  /\ Len(rescanWork') = Len(rescanWork) + 1
               /\ p \in rescanWork'[Len(rescanWork')].remove
    <3>1. bHotPlug
      BY <1>1, <2>2, <2>4 DEF HotPlugRemembered, NoDrives, Quiet
    <3>2. current[p] # driveSaved[p]
      BY <1>1, <2>4 DEF SetChannelReady, DrivesInfoSaveAll
    <3>3. p \in DrivesToRemove(driveSaved, current)
      BY <3>2 DEF DrivesToRemove
    <3>4. Reported(DrivesToRemove(driveSaved, current),
                   DrivesToAdd(driveSaved, current))
      BY <1>1, <2>4, <3>1, <3>3, ReadyReports
    <3>5. QED
      BY <3>3, <3>4, ReportedContains, Zenon
  <2>5. CASE mvRestartChannel \/ driveSaved' = driveSaved
    BY <1>1, <2>5 DEF mvRestartChannel
  <2>6. QED
    BY <2>1, <2>3, <2>4, <2>5, Zenon DEF SavesAs
<1>2. IInv /\ HotPlugRemembered /\ [Next]_vars
        => [\A p \in Present(driveSaved) :
              driveSaved'[p] # driveSaved[p] /\ ~stopped
                => /\ Len(rescanWork') = Len(rescanWork) + 1
                   /\ p \in rescanWork'[Len(rescanWork')].remove]_vars
  BY <1>1, Zenon
<1>3. QED
  BY <1>2, Invariance, HotPlugSafe, PTL DEF Spec, RemovalReported

\* If the notifications can be allocated, a drive that appears in the snapshot
\* after the first initialisation is reported as added, even when a drive that
\* failed to identify itself was struck from the snapshot before.
THEOREM AdditionsReported ==
  ASSUME "notify" \notin Faults
  PROVE  Spec => AdditionReported
<1>1. ASSUME IInv, [Next]_vars, NEW p \in Present(driveSaved'),
             driveSaved'[p] # driveSaved[p], ~stopped, bHotPlug
      PROVE  /\ Len(rescanWork') = Len(rescanWork) + 1
             /\ p \in rescanWork'[Len(rescanWork')].add
  <2>1. p \in Ports /\ driveSaved'[p] # NoDrive
    BY DEF Present
  <2>2. ASSUME NEW saved, SavesAs(saved), saved[p] \in {driveSaved[p], NoDrive}
        PROVE  /\ Len(rescanWork') = Len(rescanWork) + 1
               /\ p \in rescanWork'[Len(rescanWork')].add
    <3>1. CASE mvStopChannel(saved)
      BY <2>1, <3>1 DEF mvStopChannel, DrivesInfoFlushAll, NoDrives
    <3>2. ASSUME NEW current, NEW ready, SetChannelReady(saved, current, ready)
          PROVE  /\ Len(rescanWork') = Len(rescanWork) + 1
                 /\ p \in rescanWork'[Len(rescanWork')].add
      <4>1. current = driveSaved'
        BY <3>2 DEF SetChannelReady, DrivesInfoSaveAll
      <4>2. p \in DrivesToAdd(saved, current)
        BY <1>1, <2>1, <2>2, <4>1 DEF DrivesToAdd, Present
      <4>3. Reported(DrivesToRemove(saved, current), DrivesToAdd(saved, current))
        BY <1>1, <3>2, <4>2, ReadyReports
      <4>4. QED
        BY <4>2, <4>3, ReportedContains, Zenon
    <3>3. CASE mvRestartChannel \/ driveSaved' = saved
      BY <1>1, <2>1, <2>2, <3>3 DEF mvRestartChannel
    <3>4. QED
      BY <2>2, <3>1, <3>2, <3>3, Zenon DEF SavesAs
  <2>3. ASSUME NEW q \in Ports
        PROVE  FlushSingleDrive(driveSaved, q)[p] \in {driveSaved[p], NoDrive}
    BY <1>1, <2>1 DEF FlushSingleDrive, IInv, TypeOK, DriveTypeOK, Drives
  <2>4. QED
    BY <1>1, <2>2, <2>3, StepSaves DEF Saves, Struck
<1>2. IInv /\ [Next]_vars
        => [\A p \in Present(driveSaved)' :
              driveSaved'[p] # driveSaved[p] /\ ~stopped /\ bHotPlug
                => /\ Len(rescanWork') = Len(rescanWork) + 1
                   /\ p \in rescanWork'[Len(rescanWork')].add]_vars
  BY <1>1, Zenon DEF Present
<1>3. QED
  BY <1>2, Invariance, PTL DEF Spec, AdditionReported

=============================================================================
