---------------------------- MODULE MCDashboard ----------------------------
(***************************************************************************)
(* The dashboard with two browser tabs that connect, stall, go away and    *)
(* come back.  Channels hold two messages instead of four so that three    *)
(* readings overflow them.                                                 *)
(***************************************************************************)
EXTENDS Dashboard
=============================================================================
