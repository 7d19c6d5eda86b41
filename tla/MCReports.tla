----------------------------- MODULE MCReports -----------------------------
(***************************************************************************)
(* The reports on up to three rows over five units of time: days of two    *)
(* units, local time one unit ahead, hours of one unit, and a              *)
(* power chart that takes every reading of one hour (stride 1, as the code *)
(* computes up to 16 hours), every second of two and every third of three. *)
(***************************************************************************)
EXTENDS Reports

MCPercents == {-1, 50}

MCCapacities == {[full |-> 0, designed |-> 0], [full |-> 8, designed |-> 9],
                 [full |-> 0, designed |-> 9]}

(* One process, two, and two of one name.                                  *)
MCBatches == {<<[name |-> "a", cpu |-> 2]>>,
              <<[name |-> "a", cpu |-> 1], [name |-> "b", cpu |-> 3]>>,
              <<[name |-> "b", cpu |-> 1], [name |-> "b", cpu |-> 3]>>}
=============================================================================
