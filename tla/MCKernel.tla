------------------------------ MODULE MCKernel ------------------------------
(***************************************************************************)
(* Kernel for the model checker.  Which address a new VirtualAddressSpace  *)
(* gets is arbitrary, so the addresses are interchangeable.                *)
(***************************************************************************)
EXTENDS Kernel

SpaceSymmetry == Permutations(Spaces)
=============================================================================
