------------------------------- MODULE MCEdma -------------------------------
(* Instance of SataEdma for TLC. *)
EXTENDS SataEdma, TLC

CmdSymmetry == Permutations(Cmds)

=============================================================================
