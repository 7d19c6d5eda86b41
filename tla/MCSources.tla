----------------------------- MODULE MCSources -----------------------------
(***************************************************************************)
(* The sources over polls at up to four times with a cache that lives two  *)
(* units: a cached capacity is used once or twice and expires.             *)
(***************************************************************************)
EXTENDS Sources
=============================================================================
