---------------------------- MODULE MCCommands -----------------------------
(* Commands with the bounds TLC uses. *)
EXTENDS Commands, TLC

Symmetry == Permutations(Commands)

=============================================================================
