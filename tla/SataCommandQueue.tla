-------------------------- MODULE SataCommandQueue --------------------------
(***************************************************************************)
(* What the core SATA driver promises the layer above: a command goes in   *)
(* through an open channel only, comes back once and on its own, and the   *)
(* channel is closed by giving everything back in the same step, so that   *)
(* it is empty whenever it is not open.                                    *)
(***************************************************************************)
CONSTANTS Cmds

VARIABLES
  holds,   \* the commands the driver owes a call back
  open     \* the channel is initialised

qvars == <<holds, open>>

Init == holds = {} /\ open = FALSE

Open == /\ ~open /\ open' = TRUE
        /\ UNCHANGED holds

Accept(c) == /\ open /\ c \notin holds
             /\ holds' = holds \cup {c}
             /\ UNCHANGED open

CallBack(c) == /\ open /\ c \in holds
               /\ holds' = holds \ {c}
               /\ UNCHANGED open

\* Commands are given back together only when the channel is given up.
Close == /\ open /\ open' = FALSE
         /\ holds' = {}

Next == Open \/ Close \/ \E c \in Cmds : Accept(c) \/ CallBack(c)

Spec == Init /\ [][Next]_qvars

=============================================================================
