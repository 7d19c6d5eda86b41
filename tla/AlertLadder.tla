---------------------------- MODULE AlertLadder ----------------------------
(***************************************************************************)
(* What the low-battery notifications of the monitor promise, without its  *)
(* latches: a ladder with the rungs 0 (quiet), 1 (low told) and 2          *)
(* (critical told).  On battery each reading puts the user at least on the *)
(* rung of its band; a notification goes out for a rung above the one      *)
(* reached, or for every reading when repeats are wanted.  The user comes  *)
(* down only when the battery recovers above both levels or the power line *)
(* changes.                                                                *)
(***************************************************************************)
EXTENDS Integers

CONSTANTS Powers, Discharging   \* power line statuses, the one without mains

VARIABLES
  repeats,   \* notifications are repeated at every reading
  power,     \* power line status of the last reading
  rung,      \* highest notification since the ladder was last left
  told       \* rung notified by the current reading, 0 for none

vars == <<repeats, power, rung, told>>

Bands == -1..2   \* of a reading: -1 unknown, 0 above both levels, 1 low, 2 critical

TypeOK ==
  /\ repeats \in BOOLEAN
  /\ power \in Powers
  /\ rung \in 0..2
  /\ told \in 0..2

Init ==
  /\ repeats \in BOOLEAN
  /\ power = Discharging
  /\ rung = 0
  /\ told = 0

Highest(a, b) == IF a > b THEN a ELSE b

(* The rungs a reading can start from: a change of the power line may take *)
(* the user down.                                                          *)
Starts(p) == IF p = power THEN {rung} ELSE {0, rung}

Reading(p, band) ==
  /\ power' = p
  /\ \E from \in Starts(p) :
       IF p = Discharging /\ band >= 0
       THEN /\ rung' = IF band = 0 THEN 0 ELSE Highest(from, band)
            /\ told' = IF band > 0 /\ (repeats \/ band > from) THEN band ELSE 0
       ELSE rung' = from /\ told' = 0
  /\ UNCHANGED repeats

(* The notification has been delivered; the next one is a new event.       *)
Settle == told' = 0 /\ UNCHANGED <<repeats, power, rung>>

Next == Settle \/ \E p \in Powers, band \in Bands : Reading(p, band)

Spec == Init /\ [][Next]_vars
=============================================================================
