------------------------------ MODULE MCKernel ------------------------------
(***************************************************************************)
(* Kernel in the hands of arbitrary user programs: each configuration      *)
(* names the system calls they make.                                       *)
(***************************************************************************)
EXTENDS Kernel
=============================================================================
