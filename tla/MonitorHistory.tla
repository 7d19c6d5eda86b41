--------------------------- MODULE MonitorHistory ---------------------------
(***************************************************************************)
(* Monitor.tla with history variables and the properties stated over them. *)
(* They record what an observer outside the program knows: what the user   *)
(* was told in the current power session, and what the charge baseline     *)
(* stands for.                                                             *)
(***************************************************************************)
EXTENDS Monitor

VARIABLES
  told,      \* notes of this power session that nothing has made stale since
  masked,    \* the session began while the percentage was unknown
  base       \* the reading behind lastCapMWh: where its charge came from

hvars == <<vars, told, masked, base>>

NoBase == [kind |-> "none", full |-> 0, charge |-> 0]

HInit ==
  /\ Init
  /\ told = {} /\ masked = FALSE /\ base = NoBase

(* A session lasts while consecutive readings show the same power line.    *)
NewSession == lastACStatus' # lastACStatus

(* What the reading of this step makes stale: low and critical once the    *)
(* battery is above both levels, full once it is not known to be full.     *)
Stale ==
  (IF IsRecovered(lastPercent', lastACStatus') THEN {"low", "critical"} ELSE {})
  \cup (IF lastPercent' < cfg.FullLevel THEN {"full"} ELSE {})

Kept == (IF NewSession THEN {} ELSE told) \ Stale

HReading(raw, ac, full, rate) ==
  /\ PollReading(raw, ac, full, rate)
  /\ told' = Kept \cup notes'
  /\ masked' = IF NewSession THEN lastPercent < 0 ELSE masked
  /\ LET kind == ChargeKind(Percent(raw), full, rate)
     IN base' = IF kind = "none" THEN base
                ELSE [kind |-> kind, full |-> IF kind = "percent" THEN full ELSE 0,
                      charge |-> ChargeNow(Percent(raw), full, rate)]

HOther ==
  /\ PollNoBattery \/ PollError \/ Timer \/ Stopped \/ CloseStop \/ Terminated
  /\ UNCHANGED <<told, masked, base>>

HNext ==
  \/ \E raw \in RawPercents, ac \in ACStatuses, full \in FullCaps, rate \in Rates :
       HReading(raw, ac, full, rate)
  \/ HOther

HSpec == HInit /\ [][HNext]_hvars /\ Fairness

-----------------------------------------------------------------------------
(* With SuppressRepeats the user is not told again what still stands       *)
(* (config.go:24): between two notifications of a kind the power line      *)
(* changed or a reading made the first one stale.                          *)
NoRepeat ==
  [][cfg.SuppressRepeats => (notes' \ notes) \cap Kept \cap {"low", "critical", "full"} = {}]_hvars

(* A battery seen at the critical level while unplugged has been announced *)
(* in this power session, whichever order of readings, unknown percentages *)
(* and line changes led there; excepted is a session that began while the  *)
(* percentage was unknown, which inherits the latches of the one before.   *)
CriticalTold ==
  IsCritical(lastPercent, lastACStatus) /\ ~masked => "critical" \in told

(* An estimated rate has the direction of the charge: when two readings    *)
(* measured the same way show a charge that did not rise (fall), the rate  *)
(* pushed and recorded is not positive (negative), whatever polls without  *)
(* a charge or failed polls lie between them (monitor.go:120-148).         *)
SameMeasure == base'.kind = base.kind /\ base'.full = base.full

EstimateFollowsCharge ==
  [][published' # published /\ published'.Source = "estimated" /\ SameMeasure =>
       /\ base'.charge <= base.charge => published'.RateMW <= 0
       /\ base'.charge >= base.charge => published'.RateMW >= 0]_hvars

(* "Blocks until stop is closed" (monitor.go:66): the loop ends once the   *)
(* channel is closed, also with an interval that is zero.                  *)
StopEndsRun == stop ~> pc = "stopped"

-----------------------------------------------------------------------------
(* config.go:22 says of NotifyOnUnplug "alert when AC unplugged".          *)
UnplugNotified ==
  [][lastACStatus = ACOnline /\ lastACStatus' = ACOffline /\ cfg.NotifyOnUnplug
       => "unplugged" \in notes']_hvars
=============================================================================
