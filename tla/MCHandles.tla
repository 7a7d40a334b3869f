------------------------------ MODULE MCHandles ------------------------------
(* The numbers of kernel objects, for TLC. *)
EXTENDS Handles
=============================================================================
