--------------------------- MODULE MCThreadGroup ---------------------------
(***************************************************************************)
(* Model-checking instances of ThreadGroup.                                *)
(***************************************************************************)
EXTENDS ThreadGroup, TLC

ClientSymmetry == Permutations(Clients)

=============================================================================
