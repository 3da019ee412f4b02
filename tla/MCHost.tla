------------------------------- MODULE MCHost -------------------------------
(* Instance of IALHost for TLC. *)
EXTENDS IALHost, TLC

CmdSymmetry == Permutations(Cmds)

=============================================================================
