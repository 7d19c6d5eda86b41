----------------------------- MODULE MCMonitor -----------------------------
(***************************************************************************)
(* The monitor on small instances: percentages on both sides of each       *)
(* level, an unknown one, hardware that reports a charge or does not, and  *)
(* configurations with and without repeats, with the levels swapped and    *)
(* with an interval of zero.                                               *)
(***************************************************************************)
EXTENDS MonitorHistory

MCConfig(warn, critical, suppress, interval) ==
  [WarnLevel |-> warn, CriticalLevel |-> critical, FullLevel |-> 95,
   NormalInterval |-> interval, WarnInterval |-> 1, CriticalInterval |-> interval,
   NotifyOnFull |-> TRUE, NotifyOnUnplug |-> TRUE, NotifyOnPlug |-> TRUE,
   SuppressRepeats |-> suppress]

MCConfigs == {MCConfig(30, 15, TRUE, 2), MCConfig(30, 15, FALSE, 2), MCConfig(15, 30, TRUE, 0)}

MCRates == {[RateMW |-> 0, CapacityMWh |-> 0, Source |-> ""],
            [RateMW |-> 7, CapacityMWh |-> 0, Source |-> "hardware"],
            [RateMW |-> 0, CapacityMWh |-> 48, Source |-> "hardware"]}
=============================================================================
