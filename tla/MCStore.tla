------------------------------ MODULE MCStore ------------------------------
(***************************************************************************)
(* The store over two polls of two processes, with two reports and two     *)
(* later columns, so that a crash can fall between their migrations.       *)
(***************************************************************************)
EXTENDS Store
=============================================================================
