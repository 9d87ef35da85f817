----------------------------- MODULE MCPcbQueue -----------------------------
(***************************************************************************)
(* Model checking of PcbQueue: a ring of four slots and two processes, so  *)
(* the indices wrap around with every number of queued items.              *)
(***************************************************************************)
EXTENDS PcbQueue
=============================================================================
