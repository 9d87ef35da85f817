------------------------------ MODULE MCPaging ------------------------------
(***************************************************************************)
(* Model checking of Paging: three directories of two user pages compete   *)
(* for four frames, so the allocator runs dry, mapped entries are          *)
(* overwritten and directories are freed with frames and used again.       *)
(***************************************************************************)
EXTENDS Paging
=============================================================================
