------------------------------ MODULE MCKernel ------------------------------
(***************************************************************************)
(* Model checking of Kernel.  Four process slots and as few frames as the  *)
(* repository's ratio gives (two per slot, one of them the kernel's), so   *)
(* three processes fit; one directory more, so that failed creations run   *)
(* out of frames first and of directories later.                           *)
(***************************************************************************)
EXTENDS Kernel
=============================================================================
