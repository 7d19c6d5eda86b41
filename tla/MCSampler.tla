----------------------------- MODULE MCSampler -----------------------------
(***************************************************************************)
(* The sampler with two PIDs on one processor, each reused once, over      *)
(* calls enough for a baseline, one that misses a process and a third.     *)
(***************************************************************************)
EXTENDS Sampler
=============================================================================
