------------------------------ MODULE MCServer ------------------------------
(* The component with its clients, for TLC. *)
EXTENDS ServerQuit, TLC

Symmetry == Permutations(Clients)
=============================================================================
