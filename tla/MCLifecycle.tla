---------------------------- MODULE MCLifecycle ----------------------------
(* Lifecycle with the bounds TLC uses. *)
EXTENDS Lifecycle, TLC

Symmetry == Permutations(Sandboxes) \cup Permutations(Workers)

=============================================================================
