----------------------------- MODULE MCChannel -----------------------------
(* Instance of IALChannel for TLC. *)
EXTENDS IALChannel, TLC

Symmetry == Permutations(Serials) \cup Permutations(Cmds)

=============================================================================
